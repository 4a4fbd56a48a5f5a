--------------------------- MODULE BootLoadProofs ----------------------------
(***************************************************************************)
(* Proofs about BootLoad, for every number of sectors in a track and every *)
(* size of the system, wherever reads fail and however often.              *)
(***************************************************************************)
EXTENDS BootLoad, TLAPS

USE DEF SYSSEG, INITSEG, ENDSEG, Word, Sector

(* The number of 64 KiB segments of the system.                            *)
LEMMA Sizes ==
  /\ TOTALSECTORS \in 2 .. 127 /\ SYSSIZE \in Int
  /\ \E n \in 1 .. 8 : SYSSIZE = 4096 * n
<1>1. SYSSIZE \in Int /\ 4096 <= SYSSIZE /\ SYSSIZE <= 32768
      /\ SYSSIZE % 4096 = 0
  BY BootAssumption
<1>2. SYSSIZE = 4096 * (SYSSIZE \div 4096) BY <1>1
<1> DEFINE d == SYSSIZE \div 4096
<1>3. d \in 1 .. 8
  <2>1. d \in Int BY <1>1
  <2>2. 4096 * d >= 4096 /\ 4096 * d <= 32768 BY <1>1, <1>2
  <2> HIDE DEF d
  <2> QED BY <2>1, <2>2
<1> QED BY <1>1, <1>2, <1>3, BootAssumption

LEMMA CellAt ==
  ASSUME NEW segment, NEW offset, NEW k \in Int, NEW b \in Int,
         segment = 4096 * k, offset = 512 * b
  PROVE  Cell(segment, offset) = 128 * k + b
BY DEF Cell

LEMMA SegmentStart ==
  ASSUME NEW segment, NEW k \in Int, segment = 4096 * k
  PROVE  Cell(segment, 0) = 128 * k
BY DEF Cell

LEMMA AllCells == Cells = 0 .. 1151
BY DEF Cells

(* The offset is that of a sector b of a segment k.                        *)
Aligned(k, b) ==
  /\ k \in 1 .. 9 /\ b \in 0 .. 127
  /\ es = 4096 * k /\ bx = 512 * b

(* How many sectors a read takes.                                          *)
LEMMA ReadSize ==
  ASSUME NEW k, NEW b, Aligned(k, b), sectors \in 0 .. TOTALSECTORS - 1
  PROVE  /\ SectorsToRead \in 1 .. 127
         /\ SectorsToRead <= TOTALSECTORS - sectors
         /\ SectorsToRead <= 128 - b
<1> DEFINE n == TOTALSECTORS - sectors
<1>1. n \in 1 .. 127 BY Sizes
<1>2. b \in 0 .. 127 /\ bx = 512 * b BY DEF Aligned
<1>3. EndOfRead = 512 * (n + b)
  <2>1. LeftInTrack = n BY DEF LeftInTrack
  <2>2. n * 512 \in Int /\ 0 <= n * 512 /\ n * 512 < 65536 BY <1>1
  <2>3. (n * 512) % 65536 = n * 512 BY <2>2
  <2> QED BY <1>1, <1>2, <2>1, <2>3 DEF EndOfRead
<1>4. CASE n + b <= 128
  <2>1. EndOfRead < 65536 \/ EndOfRead = 65536 BY <1>1, <1>2, <1>3, <1>4
  <2>2. SectorsToRead = n BY <2>1 DEF SectorsToRead, LeftInTrack
  <2> QED BY <1>1, <1>2, <1>4, <2>2
<1>5. CASE n + b > 128
  <2>1. EndOfRead > 65536 /\ EndOfRead < 131072 /\ EndOfRead \in Int
    BY <1>1, <1>2, <1>3, <1>5
  <2>2. EndOfRead % 65536 # 0 BY <2>1
  <2>3. b > 0 BY <1>1, <1>2, <1>5
  <2>4. LeftInSegment = 128 - b
    <3>1. (65536 - 512 * b) % 65536 = 512 * (128 - b) BY <1>2, <2>3
    <3> QED BY <1>2, <3>1 DEF LeftInSegment
  <2>5. SectorsToRead = 128 - b BY <2>1, <2>2, <2>4 DEF SectorsToRead
  <2> QED BY <1>1, <1>2, <1>5, <2>3, <2>5
<1> QED BY <1>1, <1>2, <1>4, <1>5

LEMMA NextPosition ==
  ASSUME head \in {0, 1}, track \in Nat, sectors \in Int, ax \in Int,
         sectors' = NextSectors, head' = NextHead, track' = NextTrack
  PROVE  DiskPosition' = DiskPosition + ax
<1>0. TOTALSECTORS \in Int BY Sizes
<1>1. CASE ~TrackDone
  <2>1. sectors' = sectors + ax /\ head' = head /\ track' = track
    BY <1>1 DEF NextSectors, NextHead, NextTrack
  <2> QED BY <1>0, <2>1 DEF DiskPosition
<1>2. CASE TrackDone /\ head = 0
  <2>1. sectors' = 0 /\ head' = 1 /\ track' = track
    BY <1>2 DEF NextSectors, NextHead, NextTrack
  <2>2. DiskPosition = 2 * track * TOTALSECTORS + sectors
    BY <1>0, <1>2 DEF DiskPosition
  <2>3. DiskPosition' = 2 * track * TOTALSECTORS + TOTALSECTORS
    BY <1>0, <2>1 DEF DiskPosition
  <2> QED BY <1>0, <1>2, <2>2, <2>3 DEF TrackDone
<1>3. CASE TrackDone /\ head = 1
  <2>1. sectors' = 0 /\ head' = 0 /\ track' = track + 1
    BY <1>3 DEF NextSectors, NextHead, NextTrack
  <2>2. DiskPosition = 2 * track * TOTALSECTORS + TOTALSECTORS + sectors
    BY <1>0, <1>3 DEF DiskPosition
  <2>3. DiskPosition' = 2 * track * TOTALSECTORS + 2 * TOTALSECTORS
    BY <1>0, <2>1 DEF DiskPosition
  <2> QED BY <1>0, <1>3, <2>2, <2>3 DEF TrackDone
<1> QED BY <1>1, <1>2, <1>3

(* The cells below s have been loaded, in order, behind the first 128.     *)
LoadedTo(s) == \A c \in Cells : 128 <= c /\ c < s => memory[c] = c - 127

(* Segment j is the next to be moved down: those below are in place, those *)
(* above still where they were loaded.                                     *)
MovedTo(j, n) ==
  \A c \in Cells :
    /\ c < 128 * j /\ c < 128 * n => memory[c] = c + 1
    /\ 128 * (j + 1) <= c /\ c < 128 * (n + 1) => memory[c] = c - 127

LoadingAt(n, k, b, s) ==
  /\ k \in 1 .. 9 /\ b \in 0 .. 127 /\ s \in 128 .. 1152
  /\ Aligned(k, b) /\ s = 128 * k + b
  /\ k <= n \/ (k = n + 1 /\ b = 0)
  /\ pc = "read_track" => ax = SectorsToRead /\ k <= n
  /\ DiskPosition = s - 127
  /\ LoadedTo(s)
Loading(n) ==
  \E k, b, s : LoadingAt(n, k, b, s)

Moving(n) ==
  \E j \in 0 .. 8 :
    /\ ax = 4096 * j
    /\ pc = "do_pm" => j = 8
    /\ MovedTo(j, n)
    /\ es = 4096 * (n + 1) /\ bx \in Int /\ 0 <= bx /\ bx < 65536

Inv(n) ==
  /\ pc \in {"repeat_read", "read_track", "move_kernel", "do_pm"}
  /\ sectors \in 0 .. TOTALSECTORS - 1 /\ head \in {0, 1} /\ track \in Nat
  /\ ax \in Int /\ 0 <= ax /\ ax <= 36864
  /\ memory \in [Cells -> Nat]
  /\ IF pc \in {"repeat_read", "read_track"} THEN Loading(n) ELSE Moving(n)

LEMMA InvInit == ASSUME NEW n \in 1 .. 8, SYSSIZE = 4096 * n, Init PROVE Inv(n)
<1>1. Aligned(1, 0) /\ 128 = 128 * 1 + 0 BY DEF Init, Aligned
<1>2. DiskPosition = 1
  <2>1. sectors = 1 /\ head = 0 /\ track = 0 /\ TOTALSECTORS \in Int
    BY Sizes DEF Init
  <2> QED BY <2>1 DEF DiskPosition
<1>3. LoadedTo(128) BY AllCells DEF LoadedTo
<1>a. LoadingAt(n, 1, 0, 128) BY <1>1, <1>2, <1>3 DEF LoadingAt, Init
<1>4. Loading(n) BY <1>a DEF Loading
<1>5. memory \in [Cells -> Nat] BY DEF Init, Old
<1>6. sectors \in 0 .. TOTALSECTORS - 1 BY Sizes DEF Init
<1> QED BY <1>4, <1>5, <1>6 DEF Inv, Init

LEMMA WhileLoading ==
  ASSUME NEW n, Inv(n), pc \in {"repeat_read", "read_track"}
  PROVE  \E k, b, s : LoadingAt(n, k, b, s)
<1>1. Loading(n) BY DEF Inv
<1> QED BY <1>1 DEF Loading

(* What a read of m sectors leaves in memory.                              *)
ReadAt(s, m) ==
  /\ s \in 128 .. 1152 /\ m \in 0 .. 127
  /\ memory \in [Cells -> Nat] /\ Cell(es, bx) = s
  /\ Read(m) /\ DiskPosition = s - 127 /\ LoadedTo(s)
ReadDone(s, m) ==
  /\ memory' \in [Cells -> Nat]
  /\ \A c \in Cells : 128 <= c /\ c < s + m => memory'[c] = c - 127

LEMMA AfterRead == ASSUME NEW s, NEW m, ReadAt(s, m) PROVE ReadDone(s, m)
<1>0. s \in 128 .. 1152 /\ m \in 0 .. 127 BY DEF ReadAt
<1>1. Cell(es, bx) = s /\ DiskPosition = s - 127 BY DEF ReadAt
<1>2. memory' = [c \in Cells |->
        IF c \in s .. s + m - 1 THEN s - 127 + c - s ELSE memory[c]]
  <2>1. Read(m) BY DEF ReadAt
  <2> QED BY <1>1, <2>1 DEF Read
<1>3. memory \in [Cells -> Nat] /\ LoadedTo(s) BY DEF ReadAt
<1>4. \A c \in Cells : c \in s .. s + m - 1 <=> s <= c /\ c < s + m BY <1>0, AllCells
<1>5. \A c \in Cells : s <= c => s - 127 + c - s = c - 127 /\ c - 127 \in Nat
  BY <1>0, AllCells
<1>6. \A c \in Cells : s <= c /\ c < s + m => memory'[c] = c - 127
  BY <1>0, <1>2, <1>4, <1>5
<1>7. \A c \in Cells : ~(s <= c /\ c < s + m) => memory'[c] = memory[c]
  BY <1>2, <1>4
<1>8. memory' \in [Cells -> Nat] BY <1>2, <1>3, <1>4, <1>5
<1>9. ASSUME NEW c \in Cells, 128 <= c, c < s + m PROVE memory'[c] = c - 127
  <2>1. CASE s <= c BY <1>6, <1>9, <2>1
  <2>2. CASE ~(s <= c)
    <3>1. c < s BY <1>0, <1>9, <2>2, AllCells
    <3> QED BY <1>3, <1>7, <1>9, <2>2, <3>1 DEF LoadedTo
  <2> QED BY <2>1, <2>2
<1> QED BY <1>8, <1>9 DEF ReadDone

LEMMA InvNext ==
  ASSUME NEW n \in 1 .. 8, SYSSIZE = 4096 * n, Inv(n), [Next]_vars
  PROVE  Inv(n)'
<1>1. CASE CalcSectors
  <2>0. PICK k, b, s : LoadingAt(n, k, b, s)
    BY <1>1, WhileLoading DEF CalcSectors
  <2>1. /\ k \in 1 .. 9 /\ b \in 0 .. 127 /\ s \in 128 .. 1152
        /\ Aligned(k, b) /\ s = 128 * k + b
        /\ k <= n \/ (k = n + 1 /\ b = 0)
        /\ DiskPosition = s - 127
        /\ LoadedTo(s)
    BY <1>1, <2>0 DEF LoadingAt
  <2>2. k <= n BY <1>1, <2>1 DEF CalcSectors, Aligned
  <2>3. Aligned(k, b)' /\ DiskPosition' = DiskPosition /\ LoadedTo(s)'
    BY <1>1, <2>1 DEF CalcSectors, place, Aligned, DiskPosition, LoadedTo
  <2>4. ax' = SectorsToRead /\ SectorsToRead' = SectorsToRead
    BY <1>1 DEF CalcSectors, place, SectorsToRead, EndOfRead, LeftInTrack, LeftInSegment
  <2>s. sectors \in 0 .. TOTALSECTORS - 1 BY DEF Inv
  <2>5. SectorsToRead \in 1 .. 127 BY <2>1, <2>s, ReadSize
  <2>6. Loading(n)'
    <3>1. /\ k \in 1 .. 9 /\ b \in 0 .. 127 /\ s \in 128 .. 1152
          /\ Aligned(k, b)' /\ s = 128 * k + b /\ k <= n
          /\ DiskPosition' = s - 127 /\ LoadedTo(s)'
          /\ ax' = SectorsToRead'
      BY <2>1, <2>2, <2>3, <2>4
    <3>2. LoadingAt(n, k, b, s)' BY <3>1 DEF LoadingAt
    <3> QED BY <3>2 DEF Loading
  <2> QED BY <1>1, <2>4, <2>5, <2>6 DEF CalcSectors, place, Inv
<1>2. ASSUME NEW m \in 0 .. ax, pc = "read_track", Read(m), UNCHANGED <<pc, place, ax>>
      PROVE Inv(n)'
  <2>0. PICK k, b, s : LoadingAt(n, k, b, s)
    BY <1>2, WhileLoading
  <2>1. /\ k \in 1 .. 9 /\ b \in 0 .. 127 /\ s \in 128 .. 1152
        /\ Aligned(k, b) /\ s = 128 * k + b
        /\ ax = SectorsToRead /\ k <= n
        /\ DiskPosition = s - 127
        /\ LoadedTo(s)
    BY <1>2, <2>0 DEF LoadingAt
  <2>s. sectors \in 0 .. TOTALSECTORS - 1 BY DEF Inv
  <2>a. ax \in 1 .. 127
    <3>1. SectorsToRead \in 1 .. 127 BY <2>1, <2>s, ReadSize
    <3> QED BY <2>1, <3>1
  <2>2. m \in 0 .. 127 BY <1>2, <2>a
  <2>3. /\ memory' \in [Cells -> Nat]
        /\ \A c \in Cells : 128 <= c /\ c < s + m => memory'[c] = c - 127
    <3>1. memory \in [Cells -> Nat] BY DEF Inv
    <3>2. Cell(es, bx) = s BY <2>1, CellAt DEF Aligned
    <3>3. /\ s \in 128 .. 1152 /\ m \in 0 .. 127 /\ Read(m)
          /\ DiskPosition = s - 127 /\ LoadedTo(s)
      BY <1>2, <2>1, <2>2
    <3>4. ReadAt(s, m) BY <3>1, <3>2, <3>3 DEF ReadAt
    <3>5. ReadDone(s, m) BY <3>4, AfterRead
    <3> QED BY <3>5 DEF ReadDone
  <2>4. LoadedTo(s)'
    <3>1. \A c \in Cells : c < s => c < s + m BY <2>1, <2>2, AllCells
    <3> QED BY <2>3, <3>1 DEF LoadedTo
  <2>5. Aligned(k, b)' /\ DiskPosition' = DiskPosition /\ SectorsToRead' = SectorsToRead
    BY <1>2, <2>1
    DEF place, Aligned, DiskPosition, SectorsToRead, EndOfRead, LeftInTrack, LeftInSegment
  <2>7. LoadingAt(n, k, b, s)' BY <1>2, <2>1, <2>4, <2>5 DEF LoadingAt
  <2>6. Loading(n)' BY <2>7 DEF Loading
  <2> QED BY <1>2, <2>3, <2>6 DEF Inv, place
<1>3. CASE ReadTrack
  <2>0. PICK k, b, s : LoadingAt(n, k, b, s)
    BY <1>3, WhileLoading DEF ReadTrack
  <2>1. /\ k \in 1 .. 9 /\ b \in 0 .. 127 /\ s \in 128 .. 1152
        /\ Aligned(k, b) /\ s = 128 * k + b
        /\ ax = SectorsToRead /\ k <= n
        /\ DiskPosition = s - 127
        /\ LoadedTo(s)
    BY <1>3, <2>0 DEF LoadingAt, ReadTrack
  <2>2. ax \in 1 .. 127 /\ ax <= TOTALSECTORS - sectors /\ ax <= 128 - b
    <3>1. sectors \in 0 .. TOTALSECTORS - 1 BY DEF Inv
    <3>2. /\ SectorsToRead \in 1 .. 127
          /\ SectorsToRead <= TOTALSECTORS - sectors
          /\ SectorsToRead <= 128 - b
      BY <2>1, <3>1, ReadSize
    <3> QED BY <2>1, <3>2
  <2>3. /\ memory' \in [Cells -> Nat]
        /\ \A c \in Cells : 128 <= c /\ c < s + ax => memory'[c] = c - 127
    <3>1. memory \in [Cells -> Nat] BY DEF Inv
    <3>2. Read(ax) /\ ax \in 0 .. 127 BY <1>3, <2>2 DEF ReadTrack
    <3>3. Cell(es, bx) = s BY <2>1, CellAt DEF Aligned
    <3>4. ReadAt(s, ax) BY <2>1, <3>1, <3>2, <3>3 DEF ReadAt
    <3>5. ReadDone(s, ax) BY <3>4, AfterRead
    <3> QED BY <3>5 DEF ReadDone
  <2>t. PICK t \in Int : t = s + ax BY <2>1, <2>2
  <2>4. \A c \in Cells : 128 <= c /\ c < t => memory'[c] = c - 127
    BY <2>3, <2>t
  <2>5. DiskPosition' = s + ax - 127
    <3>1. DiskPosition' = DiskPosition + ax
      BY <1>3, <2>2, NextPosition, Sizes DEF ReadTrack, Inv
    <3> QED BY <2>1, <2>2, <3>1
  <2>6. /\ sectors' \in 0 .. TOTALSECTORS - 1
        /\ head' \in {0, 1} /\ track' \in Nat
    BY <1>3, <2>2, Sizes DEF ReadTrack, NextSectors, NextHead, NextTrack, TrackDone, Inv
  <2>7. Loading(n)'
    <3>1. CASE b + ax = 128
      <4>1. bx + ax * 512 = 65536
        <5>1. bx = 512 * b BY <2>1 DEF Aligned
        <5> QED BY <2>1, <2>2, <3>1, <5>1
      <4>2. es' = es + 4096 /\ bx' = 0
        BY <1>3, <4>1 DEF ReadTrack, NextSegment, NextOffset
      <4>3. k + 1 \in 1 .. 9 BY <2>1
      <4>4. Aligned(k + 1, 0)' BY <2>1, <4>2, <4>3 DEF Aligned
      <4> QED
        <5>1. t = 128 * (k + 1) + 0 /\ t \in 128 .. 1152
          BY <2>1, <2>2, <2>t, <3>1
        <5>2. k + 1 <= n \/ (k + 1 = n + 1 /\ 0 = 0) BY <2>1
        <5>3. pc' = "repeat_read" BY <1>3 DEF ReadTrack
        <5>4. DiskPosition' = t - 127 BY <2>1, <2>2, <2>5, <2>t
        <5>5. LoadedTo(t)' BY <2>4, <5>1 DEF LoadedTo
        <5>6. LoadingAt(n, k + 1, 0, t)'
          BY <4>3, <4>4, <5>1, <5>2, <5>3, <5>4, <5>5 DEF LoadingAt
        <5> QED BY <5>6 DEF Loading
    <3>2. CASE b + ax < 128
      <4>d. PICK d \in Int : d = b + ax BY <2>1, <2>2
      <4>0. d \in 0 .. 127 /\ d = b + ax /\ ax \in Int /\ b \in Int
        BY <2>1, <2>2, <3>2, <4>d
      <4>1. bx \in Int /\ bx + ax * 512 = 512 * d /\ 512 * d < 65536
        <5>1. bx = 512 * b BY <2>1 DEF Aligned
        <5> QED BY <4>0, <5>1
      <4>2. t = 128 * k + d /\ t \in 128 .. 1152 /\ DiskPosition' = t - 127
        BY <2>1, <2>2, <2>5, <2>t, <4>0
      <4>3. es' = es /\ bx' = 512 * d
        BY <1>3, <4>0, <4>1 DEF ReadTrack, NextSegment, NextOffset
      <4>4. Aligned(k, d)'
        <5>1. es = 4096 * k BY <2>1 DEF Aligned
        <5> QED BY <2>1, <4>0, <4>3, <5>1 DEF Aligned
      <4>6. LoadedTo(t)' BY <2>4 DEF LoadedTo
      <4>5. pc' = "repeat_read" BY <1>3 DEF ReadTrack
      <4>7. LoadingAt(n, k, d, t)' BY <2>1, <4>0, <4>2, <4>4, <4>5, <4>6 DEF LoadingAt
      <4> QED BY <4>7 DEF Loading
    <3> QED BY <2>1, <2>2, <3>1, <3>2
  <2> QED BY <1>3, <2>3, <2>6, <2>7 DEF Inv, ReadTrack
<1>4. CASE Loaded
  <2>0. PICK k, b, s : LoadingAt(n, k, b, s)
    BY <1>4, WhileLoading DEF Loaded
  <2>1. /\ k \in 1 .. 9 /\ b \in 0 .. 127 /\ s \in 128 .. 1152
        /\ Aligned(k, b) /\ s = 128 * k + b
        /\ k <= n \/ (k = n + 1 /\ b = 0)
        /\ LoadedTo(s)
    BY <1>4, <2>0 DEF LoadingAt
  <2>a. es = 4096 * k /\ bx = 512 * b BY <2>1 DEF Aligned
  <2>b. 4096 * k >= 4096 + 4096 * n BY <1>4, <2>a DEF Loaded
  <2>2. k = n + 1 /\ b = 0
    <3>1. k > n BY <2>1, <2>b
    <3> QED BY <2>1, <3>1
  <2>3. MovedTo(0, n)'
    <3>1. memory' = memory BY <1>4 DEF Loaded
    <3>2. s = 128 * (n + 1) BY <2>1, <2>2
    <3>3. \A c \in Cells : 128 <= c /\ c < 128 * (n + 1) => memory[c] = c - 127
      BY <2>1, <3>2 DEF LoadedTo
    <3>4. \A c \in Cells : ~(c < 128 * 0) /\ 128 * (0 + 1) = 128 BY AllCells
    <3> QED BY <3>1, <3>3, <3>4 DEF MovedTo
  <2>4. es' = 4096 * (n + 1) /\ bx' = 0
    BY <1>4, <2>2, <2>a DEF Loaded, place
  <2>5. Moving(n)' BY <1>4, <2>3, <2>4 DEF Moving, Loaded
  <2> QED BY <1>4, <2>5 DEF Inv, Loaded, place
<1>5. CASE MoveKernel
  <2>1. PICK j \in 0 .. 8 : ax = 4096 * j /\ MovedTo(j, n)
    <3>1. Moving(n) BY <1>5 DEF Inv, MoveKernel
    <3> QED BY <3>1 DEF Moving
  <2>2. j < 8 BY <1>5, <2>1 DEF MoveKernel, MovedAll
  <2> DEFINE low == 128 * j
  <2>3. /\ memory' \in [Cells -> Nat]
        /\ \A c \in Cells : low <= c /\ c < low + 128 => memory'[c] = memory[c + 128]
        /\ \A c \in Cells : c < low \/ low + 128 <= c => memory'[c] = memory[c]
    <3>1. Cell(ax, 0) = low BY <2>1, SegmentStart
    <3>2. memory' = [c \in Cells |->
            IF c \in low .. low + 127 THEN memory[c + 128] ELSE memory[c]]
      <4>1. Word \div Sector = 128 OBVIOUS
      <4> QED BY <1>5, <3>1, <4>1 DEF MoveKernel, Moved
    <3>3. low \in Int /\ low + 255 <= 1151 /\ 0 <= low BY <2>1, <2>2
    <3>4. memory \in [Cells -> Nat] BY DEF Inv
    <3> HIDE DEF low
    <3>5. \A c \in Cells : c \in low .. low + 127 <=> low <= c /\ c < low + 128
      BY <3>3, AllCells
    <3>6. \A c \in Cells : c < low + 128 => c + 128 \in Cells
      BY <3>3, AllCells
    <3>7. memory' \in [Cells -> Nat]
      BY <3>2, <3>4, <3>5, <3>6
    <3>8. \A c \in Cells : low <= c /\ c < low + 128 => memory'[c] = memory[c + 128]
      BY <3>2, <3>5
    <3>9. \A c \in Cells : c < low \/ low + 128 <= c => memory'[c] = memory[c]
      <4>1. \A c \in Cells : c < low \/ low + 128 <= c => ~(low <= c /\ c < low + 128)
        BY <3>3, AllCells
      <4> QED BY <3>2, <3>5, <4>1
    <3> QED BY <3>7, <3>8, <3>9
  <2>5. MovedTo(j + 1, n)'
    <3>0. low \in Int /\ low + 255 <= 1151 BY <2>1, <2>2
    <3>a. \A c \in Cells : c < low /\ c < 128 * n => memory[c] = c + 1
      BY <2>1 DEF MovedTo
    <3>b. \A c \in Cells : low + 128 <= c /\ c < 128 * (n + 1) => memory[c] = c - 127
      BY <2>1 DEF MovedTo
    <3>c. 128 * (j + 1) = low + 128 /\ 128 * ((j + 1) + 1) = low + 256
      BY <2>1
    <3>d. n \in Int /\ 128 * (n + 1) = 128 * n + 128 OBVIOUS
    <3> HIDE DEF low
    <3>1. ASSUME NEW c \in Cells, c < low + 128, c < 128 * n
          PROVE  memory'[c] = c + 1
      <4>1. CASE c < low BY <2>3, <3>a, <3>1, <4>1
      <4>2. CASE low <= c
        <5>1. c + 128 \in Cells BY <3>0, <3>1, AllCells
        <5>2. memory[c + 128] = c + 128 - 127
          BY <3>0, <3>b, <3>d, <3>1, <4>2, <5>1, AllCells
        <5>3. memory'[c] = memory[c + 128] BY <2>3, <3>1, <4>2
        <5>4. c + 128 - 127 = c + 1 BY <3>1, AllCells
        <5> QED BY <5>2, <5>3, <5>4
      <4> QED BY <3>0, <4>1, <4>2, AllCells
    <3>2. ASSUME NEW c \in Cells, low + 256 <= c, c < 128 * (n + 1)
          PROVE  memory'[c] = c - 127
      <4>1. low + 128 <= c BY <3>0, <3>2, AllCells
      <4> QED BY <2>3, <3>b, <3>2, <4>1
    <3> QED BY <3>c, <3>1, <3>2 DEF MovedTo
  <2>6. Moving(n)'
    BY <1>5, <2>1, <2>2, <2>5 DEF Moving, MoveKernel, place, Inv
  <2>7. ax' = 4096 * (j + 1) BY <1>5, <2>1 DEF MoveKernel
  <2> QED BY <1>5, <2>2, <2>3, <2>6, <2>7 DEF Inv, MoveKernel, place
<1>6. CASE EndKernelMove
  <2>1. PICK j \in 0 .. 8 :
          /\ ax = 4096 * j /\ MovedTo(j, n)
          /\ es = 4096 * (n + 1) /\ bx \in Int /\ 0 <= bx /\ bx < 65536
    <3>1. Moving(n) BY <1>6 DEF Inv, EndKernelMove
    <3> QED BY <3>1 DEF Moving
  <2>2. j = 8 BY <1>6, <2>1 DEF EndKernelMove, MovedAll
  <2>3. MovedTo(j, n)' BY <1>6, <2>1 DEF EndKernelMove, MovedTo
  <2>4. Moving(n)'
    BY <1>6, <2>1, <2>2, <2>3 DEF Moving, EndKernelMove, place
  <2> QED BY <1>6, <2>4 DEF Inv, EndKernelMove, place
<1>7. CASE UNCHANGED vars
  <2>1. /\ pc' = pc /\ es' = es /\ bx' = bx /\ ax' = ax /\ memory' = memory
        /\ sectors' = sectors /\ head' = head /\ track' = track
    BY <1>7 DEF vars, place
  <2>2. /\ DiskPosition' = DiskPosition /\ SectorsToRead' = SectorsToRead
        /\ \A k, b : Aligned(k, b)' <=> Aligned(k, b)
        /\ \A s : LoadedTo(s)' <=> LoadedTo(s)
        /\ \A j : MovedTo(j, n)' <=> MovedTo(j, n)
    BY <2>1 DEF DiskPosition, SectorsToRead, EndOfRead, LeftInTrack, LeftInSegment,
                Aligned, LoadedTo, MovedTo
  <2>5. \A k, b, s : LoadingAt(n, k, b, s)' <=> LoadingAt(n, k, b, s)
    BY <2>1, <2>2 DEF LoadingAt
  <2>3. Loading(n)' <=> Loading(n) BY <2>5 DEF Loading
  <2>4. Moving(n)' <=> Moving(n) BY <2>1, <2>2 DEF Moving
  <2> QED BY <2>1, <2>3, <2>4 DEF Inv
<1>8. CASE ReadFails BY <1>2, <1>8 DEF ReadFails
<1> QED
  BY <1>1, <1>3, <1>4, <1>5, <1>6, <1>7, <1>8 DEF Next, Progress, Started
-----------------------------------------------------------------------------
LEMMA InvTypes ==
  ASSUME NEW n \in 1 .. 8, SYSSIZE = 4096 * n, Inv(n)
  PROVE  TypeOK
<1>1. /\ es \in Int /\ 4096 <= es /\ es <= 4096 + SYSSIZE
      /\ bx \in Int /\ 0 <= bx /\ bx <= 65535
  <2>1. CASE pc \in {"repeat_read", "read_track"}
    <3>0. PICK k, b, s : LoadingAt(n, k, b, s)
      BY <2>1, WhileLoading
    <3>1. /\ k \in 1 .. 9 /\ b \in 0 .. 127
          /\ Aligned(k, b) /\ (k <= n \/ (k = n + 1 /\ b = 0))
      BY <2>1, <3>0 DEF LoadingAt
    <3>2. es = 4096 * k /\ bx = 512 * b BY <3>1 DEF Aligned
    <3>3. k \in Int /\ 1 <= k /\ k <= n + 1 BY <3>1
    <3> QED BY <3>1, <3>2, <3>3
  <2>2. CASE pc \notin {"repeat_read", "read_track"}
    <3>1. es = 4096 * (n + 1) /\ bx \in Int /\ 0 <= bx /\ bx < 65536
      <4>1. Moving(n) BY <2>2 DEF Inv
      <4> QED BY <4>1 DEF Moving
    <3>2. es \in Int /\ 4096 <= es /\ es <= 4096 + SYSSIZE BY <3>1
    <3> QED BY <3>1, <3>2
  <2> QED BY <2>1, <2>2
<1>a. SYSSIZE \in Int BY Sizes
<1>b. ax \in Int /\ 0 <= ax /\ ax <= 36864 BY DEF Inv
<1>c. SYSSEG \in Int /\ ENDSEG \in Int /\ Word \in Int /\ INITSEG \in Int
  BY <1>a
<1>d. SYSSEG <= es /\ es <= ENDSEG /\ bx < Word /\ ax <= INITSEG
  BY <1>1, <1>a, <1>b
<1> HIDE DEF SYSSEG, ENDSEG, Word, INITSEG
<1>2. es \in SYSSEG .. ENDSEG /\ bx \in 0 .. Word - 1 BY <1>1, <1>c, <1>d
<1>3. ax \in 0 .. INITSEG BY <1>b, <1>c, <1>d
<1>4. /\ pc \in {"repeat_read", "read_track", "move_kernel", "do_pm"}
      /\ sectors \in 0 .. TOTALSECTORS - 1 /\ head \in {0, 1} /\ track \in Nat
      /\ memory \in [Cells -> Nat]
  BY DEF Inv
<1> QED BY <1>2, <1>3, <1>4 DEF TypeOK

LEMMA InvFits ==
  ASSUME NEW n \in 1 .. 8, SYSSIZE = 4096 * n, Inv(n), pc = "read_track"
  PROVE  /\ ax > 0 /\ sectors + ax <= TOTALSECTORS
         /\ bx + ax * Sector <= Word
         /\ Cell(es, bx) + ax - 1 \in Cells
<1>0. PICK k, b, s : LoadingAt(n, k, b, s)
  BY WhileLoading
<1>1. /\ k \in 1 .. 9 /\ b \in 0 .. 127 /\ s \in 128 .. 1152
      /\ Aligned(k, b) /\ ax = SectorsToRead /\ k <= n
  BY <1>0 DEF LoadingAt
<1>2. ax \in 1 .. 127 /\ ax <= TOTALSECTORS - sectors /\ ax <= 128 - b
  <2>1. sectors \in 0 .. TOTALSECTORS - 1 BY DEF Inv
  <2>2. /\ SectorsToRead \in 1 .. 127
        /\ SectorsToRead <= TOTALSECTORS - sectors
        /\ SectorsToRead <= 128 - b
    BY <1>1, <2>1, ReadSize
  <2> QED BY <1>1, <2>2
<1>3. Cell(es, bx) = 128 * k + b /\ bx = 512 * b
  <2>1. k \in Int /\ b \in Int /\ es = 4096 * k /\ bx = 512 * b
    BY <1>1 DEF Aligned
  <2> QED BY <2>1, CellAt
<1>4. sectors \in Int /\ TOTALSECTORS \in Int BY Sizes DEF Inv
<1> QED BY <1>1, <1>2, <1>3, <1>4, AllCells

LEMMA InvOrder ==
  ASSUME NEW n \in 1 .. 8, SYSSIZE = 4096 * n, Inv(n)
  PROVE  LoadedInOrder
<1> SUFFICES ASSUME pc \in {"repeat_read", "read_track"}
    PROVE  /\ DiskPosition = 1 + Cell(es, bx) - Cell(SYSSEG, 0)
           /\ \A c \in Cell(SYSSEG, 0) .. Cell(es, bx) - 1 :
                memory[c] = 1 + c - Cell(SYSSEG, 0)
  BY DEF LoadedInOrder
<1>0. PICK k, b, s : LoadingAt(n, k, b, s)
  BY WhileLoading
<1>1. /\ k \in 1 .. 9 /\ b \in 0 .. 127 /\ s \in 128 .. 1152
      /\ Aligned(k, b) /\ s = 128 * k + b
      /\ DiskPosition = s - 127 /\ LoadedTo(s)
  BY <1>0 DEF LoadingAt
<1>2. Cell(es, bx) = s
  <2>1. k \in Int /\ b \in Int /\ es = 4096 * k /\ bx = 512 * b
    BY <1>1 DEF Aligned
  <2> QED BY <1>1, <2>1, CellAt
<1>3. Cell(SYSSEG, 0) = 128 BY DEF Cell
<1>4. DiskPosition = 1 + s - 128 BY <1>1
<1>5. ASSUME NEW c \in 128 .. s - 1 PROVE memory[c] = 1 + c - 128
  <2>1. c \in Cells /\ 128 <= c /\ c < s /\ c - 127 = 1 + c - 128
    BY <1>1, AllCells
  <2> QED BY <1>1, <2>1 DEF LoadedTo
<1> QED BY <1>2, <1>3, <1>4, <1>5

LEMMA InvPlace ==
  ASSUME NEW n \in 1 .. 8, SYSSIZE = 4096 * n, Inv(n)
  PROVE  KernelInPlace
<1>1. Cell(SYSSIZE, 0) = 128 * n BY SegmentStart
<1> SUFFICES ASSUME pc = "do_pm", NEW c \in 0 .. 128 * n - 1
    PROVE  memory[c] = c + 1
  BY <1>1 DEF KernelInPlace
<1>2. MovedTo(8, n) BY DEF Inv, Moving
<1>3. c \in Cells /\ c < 128 * n /\ c < 128 * 8 BY AllCells
<1> QED BY <1>2, <1>3 DEF MovedTo

(* Every register keeps to its width, every sector to its track.           *)
THEOREM TypeCorrect == Spec => []TypeOK
<1>1. PICK n \in 1 .. 8 : SYSSIZE = 4096 * n BY Sizes
<1>2. Init => Inv(n) BY <1>1, InvInit
<1>3. Inv(n) /\ [Next]_vars => Inv(n)' BY <1>1, InvNext
<1>4. Inv(n) => TypeOK BY <1>1, InvTypes
<1> QED BY <1>2, <1>3, <1>4, PTL DEF Spec

(* No read leaves the track, the 64 KiB of its segment or the memory below *)
(* the boot sector.                                                        *)
THEOREM EveryReadFits == Spec => []ReadFits
<1>1. PICK n \in 1 .. 8 : SYSSIZE = 4096 * n BY Sizes
<1>2. Init => Inv(n) BY <1>1, InvInit
<1>3. Inv(n) /\ [Next]_vars => Inv(n)' BY <1>1, InvNext
<1>4. Inv(n) => ReadFits BY <1>1, InvFits DEF ReadFits
<1> QED BY <1>2, <1>3, <1>4, PTL DEF Spec

(* Memory is loaded from the disk without a gap, whatever reads fail.      *)
THEOREM AlwaysInOrder == Spec => []LoadedInOrder
<1>1. PICK n \in 1 .. 8 : SYSSIZE = 4096 * n BY Sizes
<1>2. Init => Inv(n) BY <1>1, InvInit
<1>3. Inv(n) /\ [Next]_vars => Inv(n)' BY <1>1, InvNext
<1>4. Inv(n) => LoadedInOrder BY <1>1, InvOrder
<1> QED BY <1>2, <1>3, <1>4, PTL DEF Spec

(* Protected mode starts with the whole system at address 0.               *)
THEOREM StartsInPlace == Spec => []KernelInPlace
<1>1. PICK n \in 1 .. 8 : SYSSIZE = 4096 * n BY Sizes
<1>2. Init => Inv(n) BY <1>1, InvInit
<1>3. Inv(n) /\ [Next]_vars => Inv(n)' BY <1>1, InvNext
<1>4. Inv(n) => KernelInPlace BY <1>1, InvPlace
<1> QED BY <1>2, <1>3, <1>4, PTL DEF Spec
-----------------------------------------------------------------------------
(* How far the loader has come.                                            *)
Reached ==
  CASE pc = "repeat_read" -> 2 * Cell(es, bx)
    [] pc = "read_track"  -> 2 * Cell(es, bx) + 1
    [] pc = "move_kernel" -> 2 * Cell(INITSEG, 0) + 1 + ax
    [] pc = "do_pm"       -> 2 * Cell(INITSEG, 0) + 2 + ax
Furthest == 2 * Cell(INITSEG, 0) + 2 + INITSEG

FailedRead == pc = "read_track" /\ UNCHANGED <<pc, place, ax>>
Further == Reached < Reached' /\ Reached' <= Furthest

(* Nothing is done twice but a read that failed, and that one of the same  *)
(* sectors to the same place: every other step brings the loader further,  *)
(* and there is an end (boot.s:143-217).                                   *)
OnlyFailuresRepeat == [][FailedRead \/ Further]_vars

LEMMA EndIs == Cell(INITSEG, 0) = 1152 /\ Furthest = 39170
BY DEF Cell, Furthest

LEMMA CellIs ==
  ASSUME NEW n, NEW k, NEW b, NEW s, LoadingAt(n, k, b, s)
  PROVE  Cell(es, bx) = s /\ s \in 128 .. 1152 /\ DiskPosition = s - 127
<1>1. k \in Int /\ b \in Int /\ es = 4096 * k /\ bx = 512 * b /\ s = 128 * k + b
  BY DEF LoadingAt, Aligned
<1> QED BY <1>1, CellAt DEF LoadingAt

LEMMA CellIsNext ==
  ASSUME NEW n, NEW k, NEW b, NEW s, LoadingAt(n, k, b, s)'
  PROVE  Cell(es, bx)' = s /\ s \in 128 .. 1152 /\ DiskPosition' = s - 127
<1>1. k \in Int /\ b \in Int /\ es' = 4096 * k /\ bx' = 512 * b /\ s = 128 * k + b
  BY DEF LoadingAt, Aligned
<1>2. Cell(es', bx') = s BY <1>1, CellAt
<1> QED BY <1>2 DEF LoadingAt, Cell

LEMMA CalcGoesOn ==
  ASSUME NEW n \in 1 .. 8, Inv(n), CalcSectors PROVE Further
<1>1. PICK k, b, s : LoadingAt(n, k, b, s) BY WhileLoading DEF CalcSectors
<1>2. Cell(es, bx) = s /\ s \in 128 .. 1152 BY <1>1, CellIs
<1>3. Cell(es, bx)' = s BY <1>2 DEF CalcSectors, place, Cell
<1>4. Reached = 2 * s BY <1>2 DEF CalcSectors, Reached
<1>5. Reached' = 2 * s + 1 BY <1>3 DEF CalcSectors, Reached
<1> QED BY <1>2, <1>4, <1>5, EndIs DEF Further

LEMMA ReadGoesOn ==
  ASSUME NEW n \in 1 .. 8, Inv(n), Inv(n)', ReadTrack PROVE Further
<1>1. PICK k, b, s : LoadingAt(n, k, b, s) BY WhileLoading DEF ReadTrack
<1>2. PICK kk, bb, t : LoadingAt(n, kk, bb, t)'
  <2>1. Loading(n)' BY DEF Inv, ReadTrack
  <2> QED BY <2>1 DEF Loading
<1>3. Cell(es, bx) = s /\ s \in 128 .. 1152 /\ DiskPosition = s - 127 BY <1>1, CellIs
<1>4. Cell(es, bx)' = t /\ t \in 128 .. 1152 /\ DiskPosition' = t - 127 BY <1>2, CellIsNext
<1>5. ax \in 1 .. 127
  <2>1. Aligned(k, b) /\ ax = SectorsToRead /\ sectors \in 0 .. TOTALSECTORS - 1
    BY <1>1 DEF LoadingAt, ReadTrack, Inv
  <2> QED BY <2>1, ReadSize
<1>6. DiskPosition' = DiskPosition + ax
  BY <1>5, NextPosition, Sizes DEF ReadTrack, Inv
<1>7. t = s + ax BY <1>3, <1>4, <1>5, <1>6
<1>8. Reached = 2 * s + 1 BY <1>3 DEF ReadTrack, Reached
<1>9. Reached' = 2 * t BY <1>4 DEF ReadTrack, Reached
<1> QED BY <1>3, <1>4, <1>5, <1>7, <1>8, <1>9, EndIs DEF Further

LEMMA LoadedGoesOn ==
  ASSUME NEW n \in 1 .. 8, Inv(n), Loaded PROVE Further
<1>1. PICK k, b, s : LoadingAt(n, k, b, s) BY WhileLoading DEF Loaded
<1>2. Cell(es, bx) = s /\ s \in 128 .. 1152 BY <1>1, CellIs
<1>3. Reached = 2 * s BY <1>2 DEF Loaded, Reached
<1>4. Reached' = 2305 BY EndIs DEF Loaded, Reached
<1> QED BY <1>2, <1>3, <1>4, EndIs DEF Further

LEMMA MovingGoesOn ==
  ASSUME NEW n \in 1 .. 8, Inv(n), MoveKernel \/ EndKernelMove PROVE Further
<1>1. PICK j \in 0 .. 8 : ax = 4096 * j /\ pc = "move_kernel"
  BY DEF Inv, Moving, MoveKernel, EndKernelMove
<1>2. Reached = 2305 + 4096 * j BY <1>1, EndIs DEF Reached
<1>3. CASE MoveKernel
  <2>1. j < 8 BY <1>1, <1>3 DEF MoveKernel, MovedAll
  <2>2. Reached' = 2305 + 4096 * j + 4096 BY <1>1, <1>3, EndIs DEF MoveKernel, Reached
  <2> QED BY <1>2, <2>1, <2>2, EndIs DEF Further
<1>4. CASE EndKernelMove
  <2>1. Reached' = 2306 + 4096 * j BY <1>1, <1>4, EndIs DEF EndKernelMove, Reached
  <2> QED BY <1>2, <2>1, EndIs DEF Further
<1> QED BY <1>3, <1>4

(* The loader gets to its end, unless one read fails for ever: no step of  *)
(* it is a read of nothing, and none is undone.                            *)
THEOREM NothingElseRepeats == Spec => OnlyFailuresRepeat
<1>1. PICK n \in 1 .. 8 : SYSSIZE = 4096 * n BY Sizes
<1>2. Init => Inv(n) BY <1>1, InvInit
<1>3. Inv(n) /\ [Next]_vars => Inv(n)' BY <1>1, InvNext
<1>4. Inv(n) /\ Inv(n)' /\ [Next]_vars => [FailedRead \/ Further]_vars
  <2> SUFFICES ASSUME Inv(n), Inv(n)', Next, vars' # vars PROVE FailedRead \/ Further
    OBVIOUS
  <2>1. CASE Progress
    BY <2>1, CalcGoesOn, ReadGoesOn, LoadedGoesOn, MovingGoesOn DEF Progress
  <2>2. CASE ReadFails BY <2>2 DEF ReadFails, FailedRead
  <2>3. ~Started BY DEF Started
  <2> QED BY <2>1, <2>2, <2>3 DEF Next
<1> QED BY <1>2, <1>3, <1>4, PTL DEF Spec, OnlyFailuresRepeat
=============================================================================
