--------------------------- MODULE HdRequestsProofs ---------------------------
(***************************************************************************)
(* Proofs about HdRequests, for every set of requests, every number of     *)
(* sectors and of polls.                                                   *)
(***************************************************************************)
EXTENDS HdRequests, SequenceTheorems, FiniteSetTheorems, WellFoundedInduction, TLAPS

LEMMA Constants ==
  /\ IsFiniteSet(Requests) /\ Cardinality(Requests) \in Nat
  /\ Null \notin Requests /\ Null # "READ" /\ Null # "WRITE"
  /\ Sectors \in Nat /\ Sectors > 0 /\ Retries \in Nat /\ Retries > 0
BY RequestsAssumption, BoundsAssumption, FS_CardinalityType

LEMMA LeastNat ==
  ASSUME NEW T, T \subseteq Nat, T # {}
  PROVE  \E n \in T : \A m \in T : n <= m
<1> DEFINE R == {ss \in Nat \X Nat : ss[1] < ss[2]}
<1>1. IsWellFoundedOn(R, Nat) BY NatLessThanWellFounded, Zenon DEF OpToRel
<1>2. \E x \in T : \A y \in T : ~ (<<y, x>> \in R)
  <2> HIDE DEF R
  <2> QED BY <1>1, WFMin
<1>3. PICK x \in T : \A y \in T : ~ (<<y, x>> \in R) BY <1>2
<1>4. \A y \in T : ~(y < x) BY <1>3
<1> QED BY <1>4
-----------------------------------------------------------------------------
(* The fields link make c a list that starts at first and ends at last.    *)
Items(c) == {c[i] : i \in 1 .. Len(c)}
Distinct(c) == \A i, j \in 1 .. Len(c) : c[i] = c[j] => i = j
Linked(link, c) ==
  \A i \in 1 .. Len(c) : link[c[i]] = IF i = Len(c) THEN Null ELSE c[i + 1]
First(c) == IF c = <<>> THEN Null ELSE c[1]
Last(c) == IF c = <<>> THEN Null ELSE c[Len(c)]
IsList(link, q, c) ==
  /\ c \in Seq(Requests) /\ Distinct(c) /\ Linked(link, c)
  /\ q.head = First(c) /\ q.tail = Last(c)

(* A list has as many items as it is long, and no more than there are.     *)
LEMMA ListLength ==
  ASSUME NEW c \in Seq(Requests), Distinct(c)
  PROVE  /\ IsFiniteSet(Items(c)) /\ Items(c) \subseteq Requests
         /\ Cardinality(Items(c)) = Len(c) /\ Len(c) <= Cardinality(Requests)
<1>1. Len(c) \in Nat /\ c \in [1 .. Len(c) -> Requests] BY LenProperties
<1>2. Items(c) \subseteq Requests BY <1>1 DEF Items
<1>3. IsFiniteSet(Items(c)) BY <1>2, Constants, FS_Subset
<1>4. c \in Bijection(1 .. Len(c), Items(c))
  BY <1>1 DEF Items, Distinct, Bijection, Injection, Surjection, IsInjective
<1>5. Cardinality(Items(c)) = Len(c)
  BY <1>1, <1>4, FS_CountingElements DEF ExistsBijection
<1> QED BY <1>2, <1>3, <1>5, Constants, FS_Subset

(* What Reached finds behind the head of a list, and then nothing.         *)
LEMMA ReachedList ==
  ASSUME NEW link, NEW c \in Seq(Requests), Distinct(c), Linked(link, c)
  PROVE  Reached(link, First(c)) =
           [n \in 0 .. Cardinality(Requests) |-> IF n < Len(c) THEN c[n + 1] ELSE Null]
<1> DEFINE K == Cardinality(Requests)
           w == [n \in 0 .. K |-> IF n < Len(c) THEN c[n + 1] ELSE Null]
           Next1(f, n) == IF n = 0 THEN First(c)
                          ELSE IF f[n - 1] = Null THEN Null ELSE link[f[n - 1]]
           Walk(f) == f = [n \in 0 .. K |-> Next1(f, n)]
<1>1. Len(c) \in Nat /\ c \in [1 .. Len(c) -> Requests] /\ K \in Nat /\ Null \notin Requests
  BY LenProperties, Constants
<1>2. c = <<>> <=> Len(c) = 0 BY EmptySeq, <1>1
<1>3. ASSUME NEW n \in 0 .. K PROVE w[n] = Next1(w, n)
  <2>1. CASE n = 0 BY <1>1, <1>2, <2>1 DEF First
  <2>2. CASE n # 0
    <3>1. n - 1 \in 0 .. K BY <1>1, <2>2
    <3>2. w[n - 1] = IF n - 1 < Len(c) THEN c[n] ELSE Null BY <3>1
    <3>3. w[n] = IF n < Len(c) THEN c[n + 1] ELSE Null OBVIOUS
    <3>4. CASE n - 1 < Len(c)
      <4>1. n \in 1 .. Len(c) BY <1>1, <2>2, <3>4
      <4>2. w[n - 1] = c[n] /\ c[n] # Null BY <1>1, <3>2, <3>4, <4>1
      <4>3. link[c[n]] = IF n = Len(c) THEN Null ELSE c[n + 1] BY <4>1 DEF Linked
      <4>4. Next1(w, n) = link[c[n]] BY <2>2, <4>2
      <4> QED BY <1>1, <3>3, <4>1, <4>3, <4>4
    <3>5. CASE ~(n - 1 < Len(c)) BY <1>1, <2>2, <3>2, <3>3, <3>5
    <3> QED BY <3>4, <3>5
  <2> QED BY <2>1, <2>2
<1>4. Walk(w) BY <1>3
<1>5. ASSUME NEW f, Walk(f) PROVE f = w
  <2> DEFINE T == {n \in 0 .. K : f[n] # w[n]}
  <2>0. \A n \in 0 .. K : f[n] = Next1(f, n) BY <1>5
  <2>1. CASE T # {}
    <3>0. T \subseteq Nat BY <1>1
    <3>1. PICK n \in T : \A m \in T : n <= m
      <4> HIDE DEF T
      <4> QED BY <2>1, <3>0, LeastNat
    <3>2. n \in 0 .. K /\ f[n] # w[n] BY <3>1
    <3>3. n # 0 BY <1>3, <2>0, <3>2
    <3>4. n - 1 \in 0 .. K /\ n - 1 \notin T BY <1>1, <3>1, <3>2, <3>3
    <3>5. f[n - 1] = w[n - 1] BY <3>4
    <3>6. Next1(f, n) = Next1(w, n) BY <3>5
    <3> QED BY <1>3, <2>0, <3>2, <3>6
  <2>2. CASE T = {}
    <3>1. \A n \in 0 .. K : f[n] = w[n] BY <2>2
    <3>2. f = [n \in 0 .. K |-> f[n]] BY <1>5
    <3> QED BY <3>1, <3>2
  <2> QED BY <2>1, <2>2
<1>6. Reached(link, First(c)) = CHOOSE f : Walk(f) BY DEF Reached
<1> HIDE DEF Walk, w
<1>7. Walk(CHOOSE f : Walk(f)) BY <1>4
<1>8. Reached(link, First(c)) = w BY <1>5, <1>6, <1>7
<1> QED BY <1>8 DEF w

LEMMA ListIsAlong ==
  ASSUME NEW link, NEW q, NEW c, IsList(link, q, c)
  PROVE  Along(link, q.head) = c
<1> DEFINE K == Cardinality(Requests)
           w == [n \in 0 .. K |-> IF n < Len(c) THEN c[n + 1] ELSE Null]
           S == {n \in DOMAIN w : w[n] # Null}
<1>1. Len(c) \in Nat /\ c \in [1 .. Len(c) -> Requests] /\ K \in Nat /\ Null \notin Requests
  BY LenProperties, Constants DEF IsList
<1>2. Len(c) <= K BY ListLength DEF IsList
<1>3. Reached(link, q.head) = w BY ReachedList DEF IsList
<1>4. S = 0 .. Len(c) - 1 BY <1>1, <1>2
<1>5. Cardinality(S) = Len(c)
  <2>0. Len(c) - 1 \in Int /\ 0 \in Int BY <1>1
  <2>1. Cardinality(0 .. Len(c) - 1) = Len(c)
    <3>1. Cardinality(0 .. Len(c) - 1) = IF 0 > Len(c) - 1 THEN 0 ELSE Len(c) - 1 - 0 + 1
      BY <2>0, FS_Interval
    <3> QED BY <1>1, <3>1
  <2> QED BY <1>4, <2>1
<1>6. Along(link, q.head) = [i \in 1 .. Len(c) |-> w[i - 1]]
  <2> HIDE DEF w
  <2>1. Along(link, q.head) = [i \in 1 .. Cardinality(S) |-> w[i - 1]]
    BY <1>3 DEF Along
  <2> QED BY <1>5, <2>1
<1>7. \A i \in 1 .. Len(c) : w[i - 1] = c[i] BY <1>1, <1>2
<1>8. [i \in 1 .. Len(c) |-> w[i - 1]] = [i \in 1 .. Len(c) |-> c[i]] BY <1>7
<1>9. c = [i \in 1 .. Len(c) |-> c[i]] BY <1>1
<1> QED BY <1>6, <1>8, <1>9
-----------------------------------------------------------------------------
(* What the queue functions make of a list.                                *)
LEMMA ListEmpty ==
  ASSUME NEW link, NEW q, IsList(link, q, <<>>) PROVE IsEmpty(q)
BY DEF IsList, First, Last, IsEmpty

LEMMA ListEnds ==
  ASSUME NEW link, NEW q, NEW c, IsList(link, q, c), c # <<>>
  PROVE  /\ Len(c) \in Nat \ {0} /\ q.head = c[1] /\ q.tail = c[Len(c)]
         /\ q.head \in Items(c) /\ q.tail \in Items(c) /\ ~IsEmpty(q)
         /\ Null \notin Items(c)
<1>1. Len(c) \in Nat \ {0} /\ Items(c) \subseteq Requests
  BY EmptySeq, ListLength DEF IsList
<1>2. q.head = c[1] /\ q.tail = c[Len(c)] BY DEF IsList, First, Last
<1>3. q.head \in Items(c) /\ q.tail \in Items(c) BY <1>1, <1>2 DEF Items
<1> QED BY <1>1, <1>2, <1>3, Constants DEF IsEmpty

LEMMA ListAdded ==
  ASSUME NEW q, NEW c, NEW r \in Requests, IsList(next, q, c), r \notin Items(c)
  PROVE  /\ IsList(LinkedNext(q, r), Added(q, r), Append(c, r))
         /\ Items(Append(c, r)) = Items(c) \cup {r}
         /\ Added(q, r).head = IF c = <<>> THEN r ELSE q.head
<1> DEFINE d == Append(c, r)
           link == LinkedNext(q, r)
<1>1. Len(c) \in Nat /\ c \in [1 .. Len(c) -> Requests]
  BY LenProperties DEF IsList
<1>2. /\ d \in Seq(Requests) /\ Len(d) = Len(c) + 1 /\ d[Len(c) + 1] = r
      /\ \A i \in 1 .. Len(c) : d[i] = c[i]
  BY AppendProperties DEF IsList
<1>a. d # <<>> BY <1>1, <1>2, EmptySeq
<1> HIDE DEF d
<1>3. Distinct(d)
  <2> SUFFICES ASSUME NEW i \in 1 .. Len(c) + 1, NEW j \in 1 .. Len(c) + 1, d[i] = d[j]
      PROVE i = j
    BY <1>2 DEF Distinct
  <2>1. \A k \in 1 .. Len(c) : c[k] # r BY DEF Items
  <2>2. \A k \in 1 .. Len(c) + 1 : k \in 1 .. Len(c) \/ k = Len(c) + 1 BY <1>1
  <2>3. CASE i \in 1 .. Len(c) /\ j \in 1 .. Len(c)
    BY <1>2, <2>3 DEF IsList, Distinct
  <2>4. CASE i = Len(c) + 1 \/ j = Len(c) + 1 BY <1>2, <2>1, <2>2, <2>4
  <2> QED BY <2>2, <2>3, <2>4
<1>4. Items(d) = Items(c) \cup {r}
  <2>1. \A k \in 1 .. Len(c) + 1 : k \in 1 .. Len(c) \/ k = Len(c) + 1 BY <1>1
  <2>2. Len(c) + 1 \in 1 .. Len(c) + 1 /\ \A k \in 1 .. Len(c) : k \in 1 .. Len(c) + 1
    BY <1>1
  <2>3. Items(d) \subseteq Items(c) \cup {r} BY <1>2, <2>1 DEF Items
  <2>4. Items(c) \cup {r} \subseteq Items(d) BY <1>2, <2>2 DEF Items
  <2> QED BY <2>3, <2>4
<1>5. Added(q, r).tail = r /\ Added(q, r).head = IF IsEmpty(q) THEN r ELSE q.head
  BY DEF Added
<1>6. CASE c = <<>>
  <2>1. IsEmpty(q) BY <1>6, ListEmpty
  <2>2. Len(c) = 0 BY <1>6, EmptySeq
  <2>3. \A i \in 1 .. Len(d) : i = Len(d) /\ d[i] = r BY <1>2, <2>2
  <2>4. link[r] = Null BY <2>1 DEF LinkedNext
  <2>5. Linked(link, d) BY <2>3, <2>4 DEF Linked
  <2> QED BY <1>2, <1>3, <1>4, <1>5, <1>6, <1>a, <2>1, <2>2, <2>5 DEF IsList, First, Last, d
<1>7. CASE c # <<>>
  <2>1. /\ Len(c) \in Nat \ {0} /\ q.head = c[1] /\ q.tail = c[Len(c)]
        /\ q.tail \in Items(c) /\ ~IsEmpty(q)
    BY <1>7, ListEnds
  <2>2. Items(c) \subseteq Requests BY ListLength DEF IsList
  <2>3. link[r] = Null /\ link[q.tail] = r
    BY <2>1, <2>2 DEF LinkedNext
  <2>4. \A x \in Items(c) : x # q.tail => link[x] = next[x]
    BY <2>2 DEF LinkedNext
  <2>5. ASSUME NEW i \in 1 .. Len(d) PROVE link[d[i]] = IF i = Len(d) THEN Null ELSE d[i + 1]
    <3>0. i \in 1 .. Len(c) + 1 /\ Len(d) = Len(c) + 1 BY <1>2
    <3>1. CASE i = Len(c) + 1
      <4>1. d[i] = r /\ i = Len(d) BY <1>2, <3>0, <3>1
      <4> QED BY <2>3, <4>1
    <3>2. CASE i = Len(c)
      <4>1. i \in 1 .. Len(c) /\ i # Len(d) BY <2>1, <3>0, <3>2
      <4>2. d[i] = q.tail /\ d[i + 1] = r BY <1>2, <2>1, <3>2, <4>1
      <4> QED BY <2>3, <4>1, <4>2
    <3>3. CASE i # Len(c) + 1 /\ i # Len(c)
      <4>1. i \in 1 .. Len(c) /\ i + 1 \in 1 .. Len(c) /\ i # Len(c) /\ i # Len(d)
            /\ Len(c) \in 1 .. Len(c)
        BY <2>1, <3>0, <3>3
      <4>2. c[i] \in Items(c) BY <4>1 DEF Items
      <4>3. c[i] # c[Len(c)] BY <4>1 DEF IsList, Distinct
      <4>4. link[c[i]] = c[i + 1] BY <2>1, <2>4, <4>1, <4>2, <4>3 DEF IsList, Linked
      <4> QED BY <1>2, <4>1, <4>4
    <3> QED BY <3>1, <3>2, <3>3
  <2>6. Linked(link, d) BY <2>5 DEF Linked
  <2>7. d[1] = c[1] BY <1>2, <2>1
  <2> QED
    BY <1>2, <1>3, <1>4, <1>5, <1>7, <1>a, <2>1, <2>6, <2>7 DEF IsList, First, Last, d
<1> QED BY <1>6, <1>7

(* The other list is not touched by that.                                  *)
LEMMA ListKept ==
  ASSUME NEW q1, NEW c1, NEW q2, NEW c2, NEW r \in Requests,
         IsList(next, q1, c1), IsList(next, q2, c2),
         Items(c1) \cap Items(c2) = {}, r \notin Items(c2)
  PROVE  IsList(LinkedNext(q1, r), q2, c2)
<1>1. Items(c2) \subseteq Requests BY ListLength DEF IsList
<1>2. \A x \in Items(c2) : x # r /\ (x = q1.tail => IsEmpty(q1))
  <2>1. CASE c1 = <<>> BY <2>1, ListEmpty
  <2>2. CASE c1 # <<>> BY <2>2, ListEnds
  <2> QED BY <2>1, <2>2
<1>3. \A x \in Items(c2) : LinkedNext(q1, r)[x] = next[x]
  BY <1>1, <1>2 DEF LinkedNext
<1>4. Linked(LinkedNext(q1, r), c2) BY <1>3 DEF IsList, Linked, Items
<1> QED BY <1>4 DEF IsList

(* ... nor is a list by a change of what is not in it.                     *)
LEMMA ListUntouched ==
  ASSUME NEW link, NEW q, NEW c, IsList(next, q, c),
         \A x \in Items(c) : link[x] = next[x]
  PROVE  IsList(link, q, c)
<1>1. Linked(link, c) BY DEF IsList, Linked, Items
<1> QED BY <1>1 DEF IsList

LEMMA ListRemoved ==
  ASSUME NEW q, q \in [size : Nat, head : Requests \cup {Null}, tail : Requests \cup {Null}],
         NEW c, IsList(next, q, c), c # <<>>
  PROVE  /\ IsList(next, Removed(q), Tail(c))
         /\ Items(Tail(c)) = Items(c) \ {q.head} /\ q.head = Head(c)
<1> DEFINE d == Tail(c)
<1>1. /\ Len(c) \in Nat \ {0} /\ q.head = c[1] /\ q.tail = c[Len(c)]
      /\ c \in [1 .. Len(c) -> Requests] /\ Null \notin Requests
  BY ListEnds, LenProperties, Constants DEF IsList
<1>2. /\ d \in Seq(Requests) /\ Len(d) = Len(c) - 1
      /\ \A i \in 1 .. Len(d) : d[i] = c[i + 1]
  BY HeadTailProperties DEF IsList
<1>a. d = <<>> <=> Len(c) = 1 BY <1>1, <1>2, EmptySeq
<1> HIDE DEF d
<1>3. \A i \in 1 .. Len(d) : i \in 1 .. Len(c) /\ i + 1 \in 1 .. Len(c) BY <1>1, <1>2
<1>4. Distinct(d) BY <1>2, <1>3 DEF IsList, Distinct
<1>5. Linked(next, d)
  <2> SUFFICES ASSUME NEW i \in 1 .. Len(d)
      PROVE next[d[i]] = IF i = Len(d) THEN Null ELSE d[i + 1]
    BY DEF Linked
  <2>1. next[c[i + 1]] = IF i + 1 = Len(c) THEN Null ELSE c[i + 1 + 1]
    BY <1>3 DEF IsList, Linked
  <2>2. Len(c) \in Nat \ {0} /\ Len(d) = Len(c) - 1 /\ i \in 1 .. Len(d) BY <1>1, <1>2
  <2>3. i # Len(d) => i + 1 \in 1 .. Len(d) BY <2>2
  <2>4. i = Len(d) <=> i + 1 = Len(c) BY <2>2
  <2>5. d[i] = c[i + 1] /\ (i # Len(d) => d[i + 1] = c[i + 1 + 1]) BY <1>2, <2>3
  <2> QED BY <2>1, <2>4, <2>5
<1>6. next[q.head] = First(d)
  <2>1. 1 \in 1 .. Len(c) BY <1>1
  <2>2. next[c[1]] = IF 1 = Len(c) THEN Null ELSE c[1 + 1] BY <2>1 DEF IsList, Linked
  <2>3. Len(c) # 1 => 1 \in 1 .. Len(d) BY <1>1, <1>2
  <2> QED BY <1>1, <1>2, <1>a, <2>2, <2>3 DEF First
<1>7. next[q.head] = Null <=> d = <<>>
  <2>1. d # <<>> => d[1] \in Requests BY <1>1, <1>2, <1>3, <1>a
  <2> QED BY <1>1, <1>6, <2>1 DEF First
<1>8. Removed(q).head = First(d) /\ Removed(q).tail = Last(d)
  <2>1. /\ Removed(q).head = next[q.head]
        /\ Removed(q).tail = IF next[q.head] = Null THEN Null ELSE q.tail
    BY DEF Removed
  <2>2. d # <<>> => d[Len(d)] = c[Len(c)] BY <1>1, <1>2, <1>a
  <2> QED BY <1>1, <1>6, <1>7, <2>1, <2>2 DEF Last
<1>9. Items(d) = Items(c) \ {q.head}
  <2>1. ASSUME NEW i \in 1 .. Len(d) PROVE d[i] \in Items(c) \ {q.head}
    <3>1. i + 1 \in 1 .. Len(c) /\ 1 \in 1 .. Len(c) /\ i + 1 # 1 BY <1>1, <1>3
    <3>2. c[i + 1] # c[1] BY <3>1 DEF IsList, Distinct
    <3> QED BY <1>1, <1>2, <3>1, <3>2 DEF Items
  <2>2. ASSUME NEW i \in 1 .. Len(c), c[i] # q.head PROVE c[i] \in Items(d)
    <3>1. i - 1 \in 1 .. Len(d) /\ (i - 1) + 1 = i BY <1>1, <1>2, <2>2
    <3>2. d[i - 1] = c[i] BY <1>2, <3>1
    <3> QED BY <3>1, <3>2 DEF Items
  <2> QED BY <2>1, <2>2 DEF Items
<1>10. Head(c) = c[1] BY <1>1 DEF IsList
<1> QED BY <1>1, <1>2, <1>4, <1>5, <1>8, <1>9, <1>10 DEF IsList, d
-----------------------------------------------------------------------------
(* The inductive invariant.                                                *)
Waiting == Chain(pending)
Executing == Chain(executing)
One(b) == IF b THEN 1 ELSE 0

(* The two queues are lists of different created requests, and the request *)
(* the caller has in hand is in neither.                                   *)
ListsInv ==
  /\ IsList(next, pending, Waiting) /\ IsList(next, executing, Executing)
  /\ Items(Waiting) \cap Items(Executing) = {}
  /\ Items(Waiting) \cup Items(Executing) \subseteq Created
  /\ pc \in {"created", "switch"} =>
       req \in Created \ (Items(Waiting) \cup Items(Executing))
  /\ pc \in {"poll", "data"} => req = executing.head /\ Executing # <<>>

CountsInv ==
  /\ pending.size = Len(Waiting) + Len(Executing) + One(pc = "switch")
  /\ executing.size = Len(Executing)
  /\ due + One(halted) = Len(Waiting) + One(inService)

DiskInv ==
  /\ disk.cmd # Null => Executing # <<>> /\ disk.cmd = executing.head
  /\ disk.phase # "idle" \/ irq => disk.cmd # Null
  /\ disk.phase = "drq" => disk.left > 0

Inv == TypeOK /\ ListsInv /\ CountsInv /\ DiskInv

(* Different requests fit into the two lists and the caller's hand.        *)
LEMMA Room ==
  ASSUME ListsInv
  PROVE  /\ Len(Waiting) \in Nat /\ Len(Executing) \in Nat
         /\ Len(Waiting) + Len(Executing) <= Cardinality(Requests)
         /\ pc \in {"created", "switch"} =>
              Len(Waiting) + Len(Executing) + 1 <= Cardinality(Requests)
<1> DEFINE W == Items(Waiting)
           E == Items(Executing)
<1>1. /\ IsFiniteSet(W) /\ Cardinality(W) = Len(Waiting) /\ W \subseteq Requests
      /\ IsFiniteSet(E) /\ Cardinality(E) = Len(Executing) /\ E \subseteq Requests
      /\ Len(Waiting) \in Nat /\ Len(Executing) \in Nat
  BY ListLength, LenProperties DEF ListsInv, IsList
<1>2. W \cap E = {} BY DEF ListsInv
<1>3. pc \in {"created", "switch"} => req \in Requests /\ req \notin W \cup E
  BY DEF ListsInv, Created
<1> HIDE DEF W, E
<1>4. /\ IsFiniteSet(W \cup E)
      /\ Cardinality(W \cup E) = Len(Waiting) + Len(Executing)
  <2>1. Cardinality(W \cap E) = 0 BY <1>2, FS_EmptySet
  <2>2. /\ IsFiniteSet(W \cup E)
        /\ Cardinality(W \cup E) = Cardinality(W) + Cardinality(E) - Cardinality(W \cap E)
    BY <1>1, FS_Union
  <2> QED BY <1>1, <2>1, <2>2
<1>5. W \cup E \subseteq Requests BY <1>1
<1>6. Cardinality(W \cup E) <= Cardinality(Requests) BY <1>5, Constants, FS_Subset
<1>7. ASSUME pc \in {"created", "switch"}
      PROVE  Len(Waiting) + Len(Executing) + 1 <= Cardinality(Requests)
  <2>1. Cardinality((W \cup E) \cup {req}) = Cardinality(W \cup E) + 1
    BY <1>3, <1>4, <1>7, FS_AddElement
  <2>2. (W \cup E) \cup {req} \subseteq Requests BY <1>3, <1>5, <1>7
  <2>3. Cardinality((W \cup E) \cup {req}) <= Cardinality(Requests)
    BY <2>2, Constants, FS_Subset
  <2> QED BY <1>4, <2>1, <2>3
<1> QED BY <1>1, <1>4, <1>6, <1>7

LEMMA EmptyList ==
  ASSUME NEW link PROVE IsList(link, EmptyQueue, <<>>) /\ Items(<<>>) = {}
<1>1. <<>> \in Seq(Requests) /\ Len(<<>>) = 0 BY EmptySeq
<1>2. Items(<<>>) = {} BY <1>1 DEF Items
<1>3. Distinct(<<>>) /\ Linked(link, <<>>) BY <1>1 DEF Distinct, Linked
<1> QED BY <1>1, <1>2, <1>3 DEF IsList, EmptyQueue, First, Last

LEMMA InvInit == Init => Inv
<1> SUFFICES ASSUME Init PROVE Inv OBVIOUS
<1> USE Constants
<1>1. /\ IsList(next, pending, <<>>) /\ IsList(next, executing, <<>>)
      /\ Items(<<>>) = {}
  BY EmptyList DEF Init
<1>2. Waiting = <<>> /\ Executing = <<>>
  BY <1>1, ListIsAlong DEF Waiting, Executing, Chain
<1>3. Len(<<>>) = 0 BY EmptySeq
<1>4. TypeOK
  <2>1. 0 \in 0 .. Cardinality(Requests) /\ 0 \in 0 .. Cardinality(Requests) + 1
        /\ 0 \in 0 .. Retries /\ 0 \in 0 .. Sectors
    OBVIOUS
  <2>2. EmptyQueue \in Queue BY <2>1 DEF EmptyQueue, Queue
  <2>3. disk \in [phase : {"idle", "busy", "drq"}, cmd : Requests \cup {Null},
                  left : 0 .. Sectors]
    BY <2>1 DEF Init
  <2> QED BY <2>1, <2>2, <2>3 DEF Init, TypeOK
<1>5. ListsInv BY <1>1, <1>2 DEF Init, ListsInv
<1>6. CountsInv BY <1>2, <1>3 DEF Init, CountsInv, EmptyQueue, One
<1>7. DiskInv BY DEF Init, DiskInv
<1> QED BY <1>4, <1>5, <1>6, <1>7 DEF Inv

(* A step that leaves the queues alone.                                    *)
LEMMA QueuesUnchanged ==
  ASSUME ListsInv, UNCHANGED <<next, pending, executing>>, Created \subseteq Created'
  PROVE  /\ Waiting' = Waiting /\ Executing' = Executing
         /\ IsList(next', pending', Waiting') /\ IsList(next', executing', Executing')
         /\ Items(Waiting') \cap Items(Executing') = {}
         /\ Items(Waiting') \cup Items(Executing') \subseteq Created'
<1>1. Waiting' = Waiting /\ Executing' = Executing BY DEF Waiting, Executing, Chain
<1> QED BY <1>1 DEF ListsInv
-----------------------------------------------------------------------------
LEMMA CreateRequestInv ==
  ASSUME Inv, NEW r \in Requests, NEW t \in {"READ", "WRITE"}, CreateRequest(r, t)
  PROVE  Inv' /\ Waiting' = Waiting /\ Executing' = Executing
<1> USE DEF Inv, CreateRequest, At
<1>1. /\ IsList(next, pending, Waiting) /\ IsList(next, executing, Executing)
      /\ Items(Waiting) \cup Items(Executing) \subseteq Created /\ r \notin Created
  BY DEF ListsInv
<1>2. \A x \in Items(Waiting) \cup Items(Executing) : next'[x] = next[x]
  BY <1>1 DEF TypeOK, Created
<1>3. IsList(next', pending', Waiting) /\ IsList(next', executing', Executing)
  BY <1>1, <1>2, ListUntouched
<1>4. Waiting' = Waiting /\ Executing' = Executing
  BY <1>3, ListIsAlong DEF Waiting, Executing, Chain
<1>5. Created' = Created \cup {r} BY Constants DEF Created, TypeOK
<1>6. TypeOK' BY DEF TypeOK, hardware
<1>7. ListsInv' BY <1>1, <1>3, <1>4, <1>5 DEF ListsInv
<1>8. CountsInv' BY <1>4 DEF CountsInv, One, hardware
<1>9. DiskInv' BY <1>4 DEF DiskInv, hardware
<1> QED BY <1>4, <1>6, <1>7, <1>8, <1>9

LEMMA AddPendingInv ==
  ASSUME Inv, AddPending
  PROVE  /\ Inv' /\ Waiting' = Append(Waiting, req) /\ Executing' = Executing
         /\ req \in Requests /\ req \notin Items(Waiting) \cup Items(Executing)
<1> USE DEF Inv, AddPending, At
<1>1. /\ IsList(next, pending, Waiting) /\ IsList(next, executing, Executing)
      /\ Items(Waiting) \cap Items(Executing) = {} /\ req \in Requests
      /\ Items(Waiting) \cup Items(Executing) \subseteq Created
      /\ req \in Created /\ req \notin Items(Waiting) \cup Items(Executing)
  BY DEF ListsInv, Created
<1>2. /\ IsList(next', pending', Append(Waiting, req))
      /\ Items(Append(Waiting, req)) = Items(Waiting) \cup {req}
  BY <1>1, ListAdded
<1>3. IsList(next', executing', Executing) BY <1>1, ListKept
<1>4. Waiting' = Append(Waiting, req) /\ Executing' = Executing
  BY <1>2, <1>3, ListIsAlong DEF Waiting, Executing, Chain
<1>5. /\ Len(Waiting) \in Nat /\ Len(Executing) \in Nat
      /\ Len(Waiting) + Len(Executing) + 1 <= Cardinality(Requests)
      /\ Len(Waiting') = Len(Waiting) + 1
  BY <1>1, <1>4, Room, AppendProperties DEF IsList
<1>6. Created' = Created BY DEF Created
<1>7. CountsInv'
  BY <1>4, <1>5 DEF CountsInv, One, Added, hardware, TypeOK
<1>8. TypeOK'
  <2>1. LinkedNext(pending, req) \in [Requests -> Requests \cup {Null}]
    BY <1>1 DEF TypeOK, LinkedNext
  <2>2. pending.size + 1 \in 0 .. Cardinality(Requests)
    BY <1>5, Constants DEF CountsInv, One
  <2>3. Added(pending, req) \in Queue
    BY <1>1, <2>2 DEF TypeOK, Queue, Added
  <2>4. due + 1 \in 0 .. Cardinality(Requests) + 1
    BY <1>5, Constants DEF CountsInv, One, TypeOK
  <2> QED BY <2>1, <2>3, <2>4 DEF TypeOK, hardware
<1>9. ListsInv' BY <1>1, <1>2, <1>3, <1>4, <1>6 DEF ListsInv
<1>10. DiskInv' BY <1>4 DEF DiskInv, hardware
<1> QED BY <1>1, <1>4, <1>7, <1>8, <1>9, <1>10

LEMMA SubmitRequestInv ==
  ASSUME Inv, SubmitRequest
  PROVE  /\ Inv' /\ Executing' = Executing
         /\ \/ pc' = pc /\ Waiting' = Waiting
            \/ pc' = "switch" /\ <<req'>> \o Waiting' = Waiting
<1> USE DEF Inv, SubmitRequest, At
<1>1. /\ IsList(next, pending, Waiting) /\ IsList(next, executing, Executing)
      /\ Items(Waiting) \cap Items(Executing) = {}
      /\ Items(Waiting) \cup Items(Executing) \subseteq Created
  BY DEF ListsInv
<1>2. Created' = Created BY DEF Created
<1>3. Len(Waiting) \in Nat /\ Len(Executing) \in Nat BY Room
<1>4. Cardinality(Requests) \in Nat BY Constants
<1>5. CASE IsEmpty(pending)
  <2>1. halted' = TRUE /\ UNCHANGED <<pending, pc, req>> /\ ~halted BY <1>5
  <2>2. /\ Waiting' = Waiting /\ Executing' = Executing
    BY <2>1 DEF Waiting, Executing, Chain
  <2>3. due - 1 \in 0 .. Cardinality(Requests) + 1 BY <1>4 DEF TypeOK
  <2>4. TypeOK' BY <2>1, <2>3 DEF TypeOK, hardware
  <2>5. ListsInv' BY <1>1, <1>2, <2>1, <2>2 DEF ListsInv
  <2>6. CountsInv' BY <1>3, <2>1, <2>2 DEF CountsInv, One, hardware, TypeOK
  <2>7. DiskInv' BY <2>2 DEF DiskInv, hardware
  <2> QED BY <2>1, <2>2, <2>4, <2>5, <2>6, <2>7
<1>6. CASE ~IsEmpty(pending)
  <2>1. /\ req' = pending.head /\ pending' = Removed(pending) /\ pc' = "switch"
        /\ halted' = halted
    BY <1>6
  <2>2. Waiting # <<>> BY <1>1, <1>6, ListEmpty
  <2>3. pending \in [size : Nat, head : Requests \cup {Null}, tail : Requests \cup {Null}]
    BY <1>4 DEF TypeOK, Queue
  <2>4. /\ IsList(next', pending', Tail(Waiting))
        /\ Items(Tail(Waiting)) = Items(Waiting) \ {req'} /\ req' = Head(Waiting)
    BY <1>1, <2>1, <2>2, <2>3, ListRemoved
  <2>5. Waiting' = Tail(Waiting) BY <2>4, ListIsAlong DEF Waiting, Chain
  <2>6. Executing' = Executing BY DEF Executing, Chain
  <2>7. req' \in Items(Waiting) BY <1>1, <2>1, <2>2, ListEnds
  <2>8. Len(Waiting') = Len(Waiting) - 1 /\ Len(Waiting) > 0
    BY <1>1, <1>3, <2>2, <2>5, HeadTailProperties, EmptySeq DEF IsList
  <2>9. next[pending.head] \in Requests \cup {Null}
    BY <2>1, <2>7, <1>1 DEF TypeOK, Created
  <2>10. TypeOK'
    <3>1. Removed(pending) \in Queue
      <4>1. pending.size \in 0 .. Cardinality(Requests) BY DEF TypeOK, Queue
      <4> QED BY <2>3, <2>9, <4>1 DEF Queue, Removed
    <3>2. due - 1 \in 0 .. Cardinality(Requests) + 1 BY <1>4 DEF TypeOK
    <3>3. req' \in Requests BY <1>1, <2>7 DEF Created
    <3> QED BY <2>1, <3>1, <3>2, <3>3 DEF TypeOK, hardware
  <2>11. ListsInv'
    BY <1>1, <1>2, <2>1, <2>4, <2>5, <2>6, <2>7 DEF ListsInv
  <2>12. CountsInv'
    <3>1. pending'.size = pending.size BY <2>1, <2>3 DEF Removed
    <3>2. pending'.size = Len(Waiting') + Len(Executing') + One(pc' = "switch")
      BY <1>3, <2>1, <2>6, <2>8, <3>1 DEF CountsInv, One
    <3>3. due' + One(halted') = Len(Waiting') + One(inService')
      BY <1>3, <2>1, <2>8 DEF CountsInv, One, TypeOK, hardware
    <3> QED BY <2>6, <3>2, <3>3 DEF CountsInv
  <2>13. DiskInv' BY <2>6 DEF DiskInv, hardware
  <2>14. <<req'>> \o Waiting' = Waiting
    <3>1. Waiting \in Seq(Requests) BY <1>1 DEF IsList
    <3> QED BY <2>2, <2>4, <2>5, <3>1, HeadTailProperties, ConcatProperties
  <2> QED BY <2>1, <2>6, <2>10, <2>11, <2>12, <2>13, <2>14
<1> QED BY <1>5, <1>6

LEMMA SwitchQueuesInv ==
  ASSUME Inv, SwitchQueues
  PROVE  /\ Inv' /\ Waiting' = Waiting /\ Executing' = Append(Executing, req)
<1> USE DEF Inv, SwitchQueues, At
<1>1. /\ IsList(next, pending, Waiting) /\ IsList(next, executing, Executing)
      /\ Items(Waiting) \cap Items(Executing) = {} /\ req \in Requests
      /\ Items(Waiting) \cup Items(Executing) \subseteq Created
      /\ req \in Created /\ req \notin Items(Waiting) \cup Items(Executing)
  BY DEF ListsInv, Created
<1>2. /\ IsList(next', executing', Append(Executing, req))
      /\ Items(Append(Executing, req)) = Items(Executing) \cup {req}
      /\ executing'.head = IF Executing = <<>> THEN req ELSE executing.head
  BY <1>1, ListAdded
<1>3. IsList(next', pending', Waiting) BY <1>1, ListKept
<1>4. Waiting' = Waiting /\ Executing' = Append(Executing, req)
  BY <1>2, <1>3, ListIsAlong DEF Waiting, Executing, Chain
<1>5. /\ Len(Waiting) \in Nat /\ Len(Executing) \in Nat
      /\ Len(Waiting) + Len(Executing) + 1 <= Cardinality(Requests)
      /\ Len(Executing') = Len(Executing) + 1 /\ Executing' # <<>>
  <2>1. Len(Executing') = Len(Executing) + 1 BY <1>1, <1>4, AppendProperties DEF IsList
  <2> QED BY <2>1, Room, EmptySeq
<1>6. Created' = Created BY DEF Created
<1>7. CountsInv' BY <1>4, <1>5 DEF CountsInv, One, Added, hardware, TypeOK
<1>8. executing'.head \in Requests \cup {Null} BY <1>1, <1>2 DEF TypeOK, Queue
<1>9. TypeOK'
  <2>1. LinkedNext(executing, req) \in [Requests -> Requests \cup {Null}]
    BY <1>1 DEF TypeOK, LinkedNext
  <2>2. executing.size + 1 \in 0 .. Cardinality(Requests)
    BY <1>5, Constants DEF CountsInv
  <2>3. Added(executing, req) \in Queue
    BY <1>1, <2>2 DEF TypeOK, Queue, Added
  <2>4. Retries \in 0 .. Retries BY Constants
  <2> QED BY <1>8, <2>1, <2>3, <2>4 DEF TypeOK, hardware
<1>10. ListsInv' BY <1>1, <1>2, <1>3, <1>4, <1>5, <1>6 DEF ListsInv
<1>11. DiskInv' BY <1>2, <1>5 DEF DiskInv, hardware
<1> QED BY <1>4, <1>7, <1>9, <1>10, <1>11

(* The command is for the head of the executing queue.                     *)
LEMMA SendCommandInv ==
  ASSUME Inv, pc \in {"poll", "data"}, SendCommand \/ UNCHANGED disk,
         UNCHANGED <<executing, irq>>, Executing' = Executing
  PROVE  /\ DiskInv'
         /\ disk' \in [phase : {"idle", "busy", "drq"}, cmd : Requests \cup {Null},
                       left : 0 .. Sectors]
<1>1. req = executing.head /\ Executing # <<>> /\ req \in Requests \cup {Null}
      /\ IsList(next, executing, Executing)
  BY DEF Inv, ListsInv, TypeOK
<1>2. req # Null BY <1>1, ListEnds
<1>3. Sectors \in 0 .. Sectors BY Constants
<1>4. disk \in [phase : {"idle", "busy", "drq"}, cmd : Requests \cup {Null},
                left : 0 .. Sectors]
  BY DEF Inv, TypeOK
<1>5. CASE UNCHANGED disk BY <1>4, <1>5 DEF Inv, DiskInv
<1>6. CASE disk' = [phase |-> "busy", cmd |-> req, left |-> Sectors]
  BY <1>1, <1>2, <1>3, <1>6 DEF Inv, DiskInv
<1> QED BY <1>5, <1>6 DEF SendCommand

(* The other steps leave the queues alone.                                 *)
LEMMA OtherStepsInv ==
  ASSUME Inv,
         \/ PollAgain \/ PollReady \/ PollTimeout \/ SendData
         \/ DiskStep \/ HdInterrupt \/ UNCHANGED vars
  PROVE  Inv' /\ Waiting' = Waiting /\ Executing' = Executing
<1> USE DEF Inv
<1>1. UNCHANGED <<type, next, pending, executing, req, halted>>
  BY DEF PollAgain, PollReady, PollTimeout, SendData, DiskStep, HdInterrupt, vars, caller
<1>2. Created' = Created BY <1>1 DEF Created
<1>3. /\ Waiting' = Waiting /\ Executing' = Executing
      /\ IsList(next', pending', Waiting') /\ IsList(next', executing', Executing')
      /\ Items(Waiting') \cap Items(Executing') = {}
      /\ Items(Waiting') \cup Items(Executing') \subseteq Created'
  BY <1>1, <1>2, QueuesUnchanged
<1>4. Len(Waiting) \in Nat /\ Cardinality(Requests) \in Nat
      /\ Len(Waiting) <= Cardinality(Requests) /\ Sectors \in Nat /\ Retries \in Nat
  <2>1. Len(Waiting) \in Nat /\ Len(Executing) \in Nat
        /\ Len(Waiting) + Len(Executing) <= Cardinality(Requests)
    BY Room
  <2> QED BY <2>1, Constants
<1>5. ASSUME \/ pc' = pc
             \/ pc \in {"poll", "data"} /\ pc' \in {"data", "idle"}
      PROVE  ListsInv'
  BY <1>1, <1>2, <1>3, <1>5 DEF ListsInv
<1>6. ASSUME UNCHANGED <<due, inService>>,
             \/ pc' = pc
             \/ pc \in {"poll", "data"} /\ pc' \in {"data", "idle"}
      PROVE  CountsInv'
  BY <1>1, <1>3, <1>6 DEF CountsInv, One
<1>7. CASE PollAgain
  <2>1. TypeOK' BY <1>4, <1>7 DEF TypeOK, PollAgain, hardware, At
  <2>2. DiskInv' BY <1>3, <1>7 DEF DiskInv, PollAgain, hardware
  <2>3. UNCHANGED <<due, inService, pc>> BY <1>7 DEF PollAgain, hardware
  <2> QED BY <1>3, <1>5, <1>6, <2>1, <2>2, <2>3
<1>8. CASE PollReady \/ PollTimeout
  <2>1. /\ pc = "poll" /\ pc' = "data"
        /\ SendCommand \/ UNCHANGED disk
        /\ UNCHANGED <<due, irq, inService, reported>>
        /\ retries' \in 0 .. Retries
    BY <1>4, <1>8 DEF PollReady, PollTimeout, At, TypeOK
  <2>2. /\ DiskInv'
        /\ disk' \in [phase : {"idle", "busy", "drq"}, cmd : Requests \cup {Null},
                      left : 0 .. Sectors]
    BY <1>1, <1>3, <2>1, SendCommandInv
  <2>3. TypeOK' BY <1>1, <2>1, <2>2 DEF TypeOK
  <2>4. ListsInv' /\ CountsInv' BY <1>5, <1>6, <2>1
  <2> QED BY <1>3, <2>2, <2>3, <2>4
<1>9. CASE SendData
  <2>1. /\ pc = "data" /\ pc' = "idle" /\ UNCHANGED <<retries, due, irq, inService, reported>>
        /\ \/ disk.phase = "drq" /\ disk' = [disk EXCEPT !.phase = "busy", !.left = @ - 1]
           \/ disk' = disk
    BY <1>9 DEF SendData, At, DiskDrq
  <2>2. /\ DiskInv'
        /\ disk' \in [phase : {"idle", "busy", "drq"}, cmd : Requests \cup {Null},
                      left : 0 .. Sectors]
    <3>1. disk \in [phase : {"idle", "busy", "drq"}, cmd : Requests \cup {Null},
                    left : 0 .. Sectors]
      BY DEF TypeOK
    <3>2. disk.left \in 0 .. Sectors /\ (disk.phase = "drq" => disk.left > 0)
          /\ (disk.left # 0 => disk.left > 0)
          /\ (disk.left > 0 => disk.left - 1 \in 0 .. Sectors)
      BY <1>4, <3>1 DEF DiskInv
    <3>3. disk'.cmd = disk.cmd /\ executing'.head = executing.head BY <1>1, <2>1, <3>1
    <3>4. disk.cmd # Null \/ disk' = disk BY <2>1 DEF DiskInv
    <3>5. DiskInv' BY <1>3, <2>1, <3>1, <3>2, <3>3, <3>4 DEF DiskInv
    <3> QED BY <2>1, <3>1, <3>2, <3>5
  <2>3. TypeOK' BY <1>1, <2>1, <2>2 DEF TypeOK
  <2>4. ListsInv' /\ CountsInv' BY <1>5, <1>6, <2>1
  <2> QED BY <1>3, <2>2, <2>3, <2>4
<1>10. CASE DiskStep
  <2>1. /\ UNCHANGED <<pc, retries, due, inService, reported>> /\ disk.phase = "busy"
        /\ disk' = [disk EXCEPT !.phase = IF disk.left = 0 THEN "idle" ELSE "drq"]
        /\ irq' \in BOOLEAN
    BY <1>10 DEF DiskStep, DiskReady, TypeOK, caller
  <2>2. /\ DiskInv'
        /\ disk' \in [phase : {"idle", "busy", "drq"}, cmd : Requests \cup {Null},
                      left : 0 .. Sectors]
    <3>1. disk \in [phase : {"idle", "busy", "drq"}, cmd : Requests \cup {Null},
                    left : 0 .. Sectors]
      BY DEF TypeOK
    <3>2. disk.left \in 0 .. Sectors /\ (disk.phase = "drq" => disk.left > 0)
          /\ (disk.left # 0 => disk.left > 0)
          /\ (disk.left > 0 => disk.left - 1 \in 0 .. Sectors)
      BY <1>4, <3>1 DEF DiskInv
    <3>3. disk'.cmd = disk.cmd /\ executing'.head = executing.head BY <1>1, <2>1, <3>1
    <3>4. disk.cmd # Null \/ disk' = disk BY <2>1 DEF DiskInv
    <3>5. DiskInv' BY <1>3, <2>1, <3>1, <3>2, <3>3, <3>4 DEF DiskInv
    <3> QED BY <2>1, <3>1, <3>2, <3>5
  <2>3. TypeOK' BY <1>1, <2>1, <2>2 DEF TypeOK
  <2>4. ListsInv' /\ CountsInv' BY <1>5, <1>6, <2>1
  <2> QED BY <1>3, <2>2, <2>3, <2>4
<1>11. CASE HdInterrupt
  <2>1. /\ UNCHANGED <<pc, retries, disk>> /\ irq /\ ~inService /\ ~halted
        /\ ~irq' /\ inService' /\ due' = due + 1 /\ reported' = executing.head
        /\ irq' \in BOOLEAN /\ inService' \in BOOLEAN
    BY <1>11 DEF HdInterrupt, Completed, caller
  <2>2. CountsInv' BY <1>1, <1>3, <1>4, <2>1 DEF CountsInv, One, TypeOK
  <2>3. due + 1 \in 0 .. Cardinality(Requests) + 1
    BY <1>4, <2>1 DEF CountsInv, One, TypeOK
  <2>4. executing.head \in Requests \cup {Null} BY DEF TypeOK, Queue
  <2>5. TypeOK' BY <1>1, <2>1, <2>3, <2>4 DEF TypeOK
  <2>6. DiskInv' BY <1>1, <1>3, <2>1 DEF DiskInv
  <2>7. ListsInv' BY <1>5, <2>1
  <2> QED BY <1>3, <2>2, <2>5, <2>6, <2>7
<1>12. CASE UNCHANGED vars
  <2>1. TypeOK' BY <1>12 DEF TypeOK, vars
  <2>2. DiskInv' BY <1>3, <1>12 DEF DiskInv, vars
  <2>3. UNCHANGED <<due, inService, pc>> BY <1>12 DEF vars
  <2> QED BY <1>3, <1>5, <1>6, <2>1, <2>2, <2>3
<1> QED BY <1>7, <1>8, <1>9, <1>10, <1>11, <1>12

LEMMA InvNext == Inv /\ [Next]_vars => Inv'
<1> SUFFICES ASSUME Inv, [Next]_vars PROVE Inv' OBVIOUS
<1>1. CASE \E r \in Requests, t \in {"READ", "WRITE"} : CreateRequest(r, t)
  BY <1>1, CreateRequestInv
<1>2. CASE AddPending BY <1>2, AddPendingInv
<1>3. CASE SubmitRequest BY <1>3, SubmitRequestInv
<1>4. CASE SwitchQueues BY <1>4, SwitchQueuesInv
<1>5. CASE \/ PollAgain \/ PollReady \/ PollTimeout \/ SendData
           \/ DiskStep \/ HdInterrupt \/ UNCHANGED vars
  BY <1>5, OtherStepsInv
<1>6. CASE Halted \/ Finished BY <1>6, OtherStepsInv DEF Halted, Finished
<1> QED BY <1>1, <1>2, <1>3, <1>4, <1>5, <1>6 DEF Next

LEMMA Invariance == Spec => []Inv
BY InvInit, InvNext, PTL DEF Spec
-----------------------------------------------------------------------------
(* Type correctness; the sizes of the queues, which count every request    *)
(* that ever came, stay within the number of requests.                     *)
THEOREM TypeCorrect == Spec => []TypeOK
<1>1. Inv => TypeOK BY DEF Inv
<1> QED BY <1>1, Invariance, PTL

(* Each tail pointer is the end of the chain of next fields behind its     *)
(* head, however requests move between the queues (hd.c:51-59,106-144).    *)
THEOREM TailsCorrect == Spec => []TailsMatchChains
<1>1. Inv => TailsMatchChains
  BY DEF Inv, ListsInv, IsList, Last, Waiting, Executing, TailsMatchChains
<1> QED BY <1>1, Invariance, PTL

(* hd_interrupt takes for completed the request whose command the disk     *)
(* has (hd.c:21), whatever joins the executing queue meanwhile.            *)
THEOREM InterruptCorrect == Spec => InterruptFindsCommand
<1>1. Inv /\ [Next]_vars =>
        [inService' # inService => reported' = disk.cmd /\ reported' # Null]_vars
  <2> SUFFICES ASSUME Inv, Next, inService' # inService
      PROVE  reported' = disk.cmd /\ reported' # Null
    BY DEF vars
  <2>1. HdInterrupt
    BY DEF Next, CreateRequest, AddPending, SubmitRequest, SwitchQueues, PollAgain,
           PollReady, PollTimeout, SendData, DiskStep, Halted, Finished, hardware, vars
  <2> QED BY <2>1 DEF Inv, DiskInv, HdInterrupt, Completed
<1> QED BY <1>1, Invariance, PTL DEF Spec, InterruptFindsCommand
-----------------------------------------------------------------------------
(* The refinement: Enqueue is add_pending_request, Dispatch the end of     *)
(* switch_queues, and every other step leaves both sequences.              *)
AllWaiting == (IF pc = "switch" THEN <<req>> ELSE <<>>) \o Waiting

LEMMA RefinesInit == Init => Queues!Init
<1> SUFFICES ASSUME Init PROVE Queues!Init OBVIOUS
<1>1. IsList(next, pending, <<>>) /\ IsList(next, executing, <<>>)
  BY EmptyList DEF Init
<1>2. Chain(pending) = <<>> /\ Chain(executing) = <<>> BY <1>1, ListIsAlong DEF Chain
<1>3. <<>> \o <<>> = <<>> OBVIOUS
<1> QED BY <1>2, <1>3 DEF Init, Queues!Init

LEMMA RefinesNext == Inv /\ [Next]_vars => [Queues!Next]_(Queues!vars)
<1> SUFFICES ASSUME Inv, [Next]_vars PROVE [Queues!Next]_(Queues!vars) OBVIOUS
<1>1. /\ Waiting \in Seq(Requests) /\ Executing \in Seq(Requests)
      /\ req \in Requests \cup {Null}
  BY DEF Inv, ListsInv, IsList, TypeOK
<1>2. \A s \in Seq(Requests) : <<>> \o s = s BY ConcatEmptySeq
<1>3. ASSUME UNCHANGED <<AllWaiting, Executing>> PROVE UNCHANGED Queues!vars
  BY <1>3 DEF AllWaiting, Waiting, Executing, Queues!vars
<1>4. CASE \E r \in Requests, t \in {"READ", "WRITE"} : CreateRequest(r, t)
  <2>1. pc = "idle" /\ pc' = "created" BY <1>4 DEF CreateRequest, At
  <2>2. Waiting' = Waiting /\ Executing' = Executing BY <1>4, CreateRequestInv
  <2>3. UNCHANGED <<AllWaiting, Executing>> BY <2>1, <2>2 DEF AllWaiting
  <2> QED BY <1>3, <2>3
<1>5. CASE AddPending
  <2>1. pc = "created" /\ pc' = "idle" BY <1>5 DEF AddPending, At
  <2>2. /\ Waiting' = Append(Waiting, req) /\ Executing' = Executing /\ req \in Requests
        /\ req \notin Items(Waiting) \cup Items(Executing)
    BY <1>5, AddPendingInv
  <2>3. AllWaiting = Waiting /\ AllWaiting' = Append(Waiting, req)
    <3>1. Append(Waiting, req) \in Seq(Requests) BY <1>1, <2>2, AppendProperties
    <3> QED BY <1>1, <1>2, <2>1, <2>2, <3>1 DEF AllWaiting
  <2>4. req \notin Queues!Seen
    <3> DEFINE all == Waiting \o Executing
    <3>1. Len(Waiting) \in Nat /\ Len(Executing) \in Nat BY <1>1, LenProperties
    <3>2. /\ Len(all) = Len(Waiting) + Len(Executing)
          /\ \A i \in 1 .. Len(all) :
               all[i] = IF i <= Len(Waiting) THEN Waiting[i]
                        ELSE Executing[i - Len(Waiting)]
      BY <1>1, ConcatProperties
    <3>3. Queues!Seen = {all[i] : i \in 1 .. Len(all)}
      BY <2>3 DEF Queues!Seen, AllWaiting, Waiting, Executing
    <3> HIDE DEF all
    <3>4. ASSUME NEW i \in 1 .. Len(all) PROVE all[i] # req
      <4>1. CASE i <= Len(Waiting)
        <5>1. i \in 1 .. Len(Waiting) BY <3>1, <3>2, <4>1
        <5> QED BY <2>2, <3>2, <4>1, <5>1 DEF Items
      <4>2. CASE ~(i <= Len(Waiting))
        <5>1. i - Len(Waiting) \in 1 .. Len(Executing) BY <3>1, <3>2, <4>2
        <5> QED BY <2>2, <3>2, <4>2, <5>1 DEF Items
      <4> QED BY <4>1, <4>2
    <3> QED BY <3>3, <3>4
  <2>5. Queues!Enqueue(req)
    BY <2>2, <2>3, <2>4 DEF Queues!Enqueue, AllWaiting, Waiting, Executing
  <2> QED BY <2>2, <2>5 DEF Queues!Next
<1>6. CASE SubmitRequest
  <2>1. pc = "idle" BY <1>6 DEF SubmitRequest, At
  <2>2. /\ Executing' = Executing
        /\ \/ pc' = pc /\ Waiting' = Waiting
           \/ pc' = "switch" /\ <<req'>> \o Waiting' = Waiting
    BY <1>6, SubmitRequestInv
  <2>3. AllWaiting' = AllWaiting BY <1>1, <1>2, <2>1, <2>2 DEF AllWaiting
  <2> QED BY <1>3, <2>2, <2>3
<1>7. CASE SwitchQueues
  <2>1. pc = "switch" /\ pc' = "poll" BY <1>7 DEF SwitchQueues, At
  <2>2. Waiting' = Waiting /\ Executing' = Append(Executing, req) BY <1>7, SwitchQueuesInv
  <2>3. req \in Requests BY <2>1 DEF Inv, ListsInv, Created
  <2>4. AllWaiting = <<req>> \o Waiting /\ AllWaiting' = Waiting
    BY <1>1, <1>2, <2>1, <2>2 DEF AllWaiting
  <2>5. AllWaiting # <<>> /\ Head(AllWaiting) = req /\ Tail(AllWaiting) = Waiting
    <3> DEFINE one == <<req>>
    <3>1. one \in Seq(Requests) /\ Len(one) = 1 /\ one[1] = req
      BY <2>3
    <3>2. AllWaiting = one \o Waiting BY <2>4
    <3> HIDE DEF one
    <3>3. /\ AllWaiting \in Seq(Requests) /\ Len(AllWaiting) = 1 + Len(Waiting)
          /\ \A i \in 1 .. 1 + Len(Waiting) :
               AllWaiting[i] = IF i <= 1 THEN one[i] ELSE Waiting[i - 1]
      <4>1. /\ one \o Waiting \in Seq(Requests)
            /\ Len(one \o Waiting) = Len(one) + Len(Waiting)
            /\ \A i \in 1 .. Len(one) + Len(Waiting) :
                 (one \o Waiting)[i] = IF i <= Len(one) THEN one[i] ELSE Waiting[i - Len(one)]
        BY <1>1, <3>1, ConcatProperties
      <4> QED BY <3>1, <3>2, <4>1
    <3>4. Len(Waiting) \in Nat BY <1>1, LenProperties
    <3>5. AllWaiting # <<>> BY <3>3, <3>4, EmptySeq
    <3>6. AllWaiting[1] = req BY <3>1, <3>3, <3>4
    <3>7. /\ Head(AllWaiting) = AllWaiting[1] /\ Tail(AllWaiting) \in Seq(Requests)
          /\ Len(Tail(AllWaiting)) = Len(AllWaiting) - 1
          /\ \A i \in 1 .. Len(Tail(AllWaiting)) : Tail(AllWaiting)[i] = AllWaiting[i + 1]
      BY <3>3, <3>5, HeadTailProperties
    <3>8. Len(Tail(AllWaiting)) = Len(Waiting) BY <3>3, <3>4, <3>7
    <3>9. \A i \in 1 .. Len(Waiting) : Tail(AllWaiting)[i] = Waiting[i]
      <4> SUFFICES ASSUME NEW i \in 1 .. Len(Waiting)
          PROVE Tail(AllWaiting)[i] = Waiting[i]
        OBVIOUS
      <4>1. i + 1 \in 1 .. 1 + Len(Waiting) /\ ~(i + 1 <= 1) /\ (i + 1) - 1 = i BY <3>4
      <4> QED BY <3>3, <3>7, <3>8, <4>1
    <3>10. Tail(AllWaiting) = Waiting BY <1>1, <3>7, <3>8, <3>9, SeqEqual
    <3> QED BY <3>5, <3>6, <3>7, <3>10
  <2>6. Queues!Dispatch
    BY <2>2, <2>4, <2>5 DEF Queues!Dispatch, AllWaiting, Waiting, Executing
  <2> QED BY <2>6 DEF Queues!Next
<1>8. CASE \/ PollAgain \/ PollReady \/ PollTimeout \/ SendData
           \/ DiskStep \/ HdInterrupt \/ UNCHANGED vars
  <2>1. Waiting' = Waiting /\ Executing' = Executing BY <1>8, OtherStepsInv
  <2>2. /\ (pc # "switch" /\ pc' # "switch") \/ pc' = pc
        /\ UNCHANGED req
    BY <1>8 DEF PollAgain, PollReady, PollTimeout, SendData, DiskStep, HdInterrupt, vars,
                caller, At
  <2> QED BY <1>3, <2>1, <2>2 DEF AllWaiting
<1>9. CASE Halted \/ Finished
  <2>1. UNCHANGED vars BY <1>9 DEF Halted, Finished
  <2> QED BY <1>8, <2>1
<1> QED BY <1>4, <1>5, <1>6, <1>7, <1>8, <1>9 DEF Next

(* The linked lists implement the two abstract FIFO queues: a request is   *)
(* queued once, goes to the disk in the order it came, and none is lost on *)
(* the way between the lists (hd.c:88-117,131-150).                        *)
THEOREM Refinement == Spec => ImplementsQueues
BY RefinesInit, RefinesNext, Invariance, PTL DEF Spec, ImplementsQueues, Queues!Spec
=============================================================================
