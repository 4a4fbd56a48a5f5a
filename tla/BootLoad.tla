------------------------------- MODULE BootLoad ------------------------------
(***************************************************************************)
(* The boot sector (boot/boot.s): load_kernel reads the sectors that       *)
(* follow it on the floppy to segment SYSSEG and on, as many at a time as  *)
(* neither leave the track nor the 64 KiB that bx can reach; a read that   *)
(* the BIOS reports as failed is tried again.  move_kernel then moves what *)
(* was read to address 0.                                                  *)
(*                                                                         *)
(* Registers are 16 bits wide.  Memory is divided into cells of the size   *)
(* of a sector; a cell holds the number of the sector that it is a copy    *)
(* of, counted along the disk from the boot sector, which is 0.            *)
(***************************************************************************)
EXTENDS Integers

CONSTANTS
  TOTALSECTORS,   \* of a track
  SYSSIZE         \* of the system, as a difference of segments

SYSSEG == 4096          \* 0x1000
INITSEG == 36864        \* 0x9000: the boot sector moved itself there
ENDSEG == SYSSEG + SYSSIZE
Word == 65536
Sector == 512

ASSUME BootAssumption ==
  /\ TOTALSECTORS \in 2 .. 127
  /\ SYSSIZE \in {s \in 4096 .. INITSEG - SYSSEG : s % 4096 = 0}

VARIABLES
  pc,                      \* label
  es, bx,                  \* where the next sectors go
  ax,                      \* how many; in move_kernel the next segment
  sectors, head, track,    \* where they are; sectors of the track already read
  memory

place == <<es, bx, sectors, head, track>>
vars == <<pc, place, ax, memory>>

Old == 0                 \* what memory held before, and the boot sector
Cells == 0 .. (INITSEG \div 32) - 1
Cell(segment, offset) == (16 * segment + offset) \div Sector

(* At load_kernel.                                                         *)
Init ==
  /\ pc = "repeat_read"
  /\ es = SYSSEG /\ bx = 0 /\ ax = SYSSEG
  /\ sectors = 1 /\ head = 0 /\ track = 0
  /\ memory = [c \in Cells |-> Old]
-----------------------------------------------------------------------------
(* Sectors left in the track, if they end before bx does, or with it.      *)
LeftInTrack == TOTALSECTORS - sectors
LeftInSegment == ((Word - bx) % Word) \div Sector
EndOfRead == ((LeftInTrack * Sector) % Word) + bx
WholeTrack == LeftInTrack
SectorsToRead ==
  IF EndOfRead < Word \/ EndOfRead % Word = 0 THEN LeftInTrack ELSE LeftInSegment

CalcSectors ==
  /\ pc = "repeat_read" /\ es < ENDSEG
  /\ ax' = SectorsToRead
  /\ pc' = "read_track"
  /\ UNCHANGED <<place, memory>>

(* What the BIOS reads from: sector sectors + 1, counted from 1.           *)
DiskPosition == (2 * track + head) * TOTALSECTORS + sectors

Read(n) ==
  LET first == Cell(es, bx)
      sector == DiskPosition
  IN memory' = [c \in Cells |->
       IF c \in first .. first + n - 1 THEN sector + c - first ELSE memory[c]]

(* The BIOS may fail behind any sector; the disk is reset, the registers   *)
(* are popped, read_sectors starts anew.                                   *)
ReadFails ==
  /\ pc = "read_track"
  /\ \E n \in 0 .. ax : Read(n)
  /\ UNCHANGED <<pc, place, ax>>

TrackDone == sectors + ax = TOTALSECTORS
NextSectors == IF TrackDone THEN 0 ELSE sectors + ax
NextHeadKept == head
NextHead == IF TrackDone THEN 1 - head ELSE head
NextTrack == IF TrackDone /\ head = 1 THEN track + 1 ELSE track

NextSegment == IF bx + ax * Sector >= Word THEN es + 4096 ELSE es
NextOffsetOver == bx + ax * Sector
NextOffset == IF bx + ax * Sector >= Word THEN 0 ELSE bx + ax * Sector

ReadTrack ==
  /\ pc = "read_track"
  /\ Read(ax)
  /\ sectors' = NextSectors /\ head' = NextHead /\ track' = NextTrack
  /\ es' = NextSegment /\ bx' = NextOffset
  /\ pc' = "repeat_read"
  /\ UNCHANGED ax

Loaded ==
  /\ pc = "repeat_read" /\ es >= ENDSEG
  /\ pc' = "move_kernel" /\ ax' = 0
  /\ UNCHANGED <<place, memory>>
-----------------------------------------------------------------------------
(* One segment after the other is moved down by one.                       *)
Moved(segment) ==
  LET first == Cell(segment, 0)
      size == Word \div Sector
  IN [c \in Cells |->
       IF c \in first .. first + size - 1 THEN memory[c + size] ELSE memory[c]]

MovedAllOfSize == ax + 4096 = SYSSIZE
MovedAll == ax + 4096 = INITSEG
MoveKernel ==
  /\ pc = "move_kernel" /\ ~MovedAll
  /\ memory' = Moved(ax)
  /\ ax' = ax + 4096
  /\ UNCHANGED <<pc, place>>

EndKernelMove ==
  /\ pc = "move_kernel" /\ MovedAll
  /\ pc' = "do_pm"
  /\ UNCHANGED <<place, ax, memory>>

Started == pc = "do_pm" /\ UNCHANGED vars

Progress == CalcSectors \/ ReadTrack \/ Loaded \/ MoveKernel \/ EndKernelMove
Next == Progress \/ ReadFails \/ Started

Spec == Init /\ [][Next]_vars

(* The processor goes on; a read that is tried again and again succeeds.   *)
Fairness == WF_vars(Progress) /\ SF_vars(ReadTrack)
FairSpec == Spec /\ Fairness
-----------------------------------------------------------------------------
TypeOK ==
  /\ pc \in {"repeat_read", "read_track", "move_kernel", "do_pm"}
  /\ es \in SYSSEG .. ENDSEG /\ bx \in 0 .. Word - 1 /\ ax \in 0 .. INITSEG
  /\ sectors \in 0 .. TOTALSECTORS - 1 /\ head \in {0, 1} /\ track \in Nat
  /\ memory \in [Cells -> Nat]

(* A read stays within the track and within the 64 KiB of its segment,     *)
(* which the DMA cannot leave, and below the boot sector's code.           *)
ReadFits ==
  pc = "read_track" =>
    /\ ax > 0 /\ sectors + ax <= TOTALSECTORS
    /\ bx + ax * Sector <= Word
    /\ Cell(es, bx) + ax - 1 \in Cells

(* What is in memory is the disk from sector 1 on, without a gap, and the  *)
(* sector that is read next belongs behind it.                             *)
LoadedInOrder ==
  pc \in {"repeat_read", "read_track"} =>
    /\ DiskPosition = 1 + Cell(es, bx) - Cell(SYSSEG, 0)
    /\ \A c \in Cell(SYSSEG, 0) .. Cell(es, bx) - 1 :
         memory[c] = 1 + c - Cell(SYSSEG, 0)

(* When protected mode is entered, the system is at 0, all of it.          *)
KernelInPlace ==
  pc = "do_pm" => \A c \in 0 .. Cell(SYSSIZE, 0) - 1 : memory[c] = c + 1

(* ... and that it will be.                                                *)
Boots == <>(pc = "do_pm")
=============================================================================
