---------------------------- MODULE CyclicBuffer ----------------------------
(***************************************************************************)
(* circular_buf_t (kernel/cyclic_buffer.c): the ring buffer behind the     *)
(* read and write queues of the tty.  Its users run with interrupts off    *)
(* (do_kb and everything it calls), so an operation is one step.           *)
(*                                                                         *)
(* head and tail are u32ints: differences wrap modulo WordMod, and the     *)
(* mask & (CIRC_BUFF_SIZE - 1) of a power of two is a remainder.           *)
(*                                                                         *)
(* Names that Terminal has too begin with CB: TerminalProofs extends both. *)
(***************************************************************************)
EXTENDS Integers, Sequences

CONSTANTS
  Size,      \* CIRC_BUFF_SIZE, 1024
  WordMod,   \* u32int arithmetic: 2^32
  Bytes,     \* the characters pushed
  Failed     \* (u8int)-1, which is also the character 255

ASSUME CBSizeAssumption ==
  /\ Size \in Nat /\ Size > 1
  /\ WordMod \in Nat \ {0} /\ WordMod % Size = 0
ASSUME CBBytesAssumption == {0, Failed} \subseteq Bytes

VARIABLES
  data,   \* the array
  head,   \* where the next push stores
  tail,   \* where the next pop reads
  ret     \* what the last cb_push or cb_pop returned

cbvars == <<data, head, tail, ret>>

Index == 0 .. Size - 1

NoMask(x) == x
Mask(x) == x % Size
Word(x) == x % WordMod

(* A static buffer: all zero.                                              *)
CBInit ==
  /\ data = [i \in Index |-> 0]
  /\ head = 0 /\ tail = 0
  /\ ret = 0
----------------------------------------------------------------------------
IsFullNoGap == Mask(Word(tail - head)) = 0
IsFull  == Mask(Word(tail - head - 1)) = 0
IsEmpty == head = tail
Count   == Mask(Word(head - tail))

(* cb_init: memset and both indices to zero.                              *)
InitBuffer ==
  /\ data' = [i \in Index |-> 0]
  /\ head' = 0 /\ tail' = 0
  /\ UNCHANGED ret

(* cb_push: refused when full, else store at head and advance it.          *)
Push(e) ==
  \/ IsFull /\ ret' = -1 /\ UNCHANGED <<data, head, tail>>
  \/ /\ ~IsFull
     /\ data' = [data EXCEPT ![head] = e]
     /\ head' = Mask(head + 1)
     /\ ret' = 0
     /\ UNCHANGED tail

(* cb_pop: (u8int)-1 when empty, else read at tail and advance it.         *)
Pop ==
  \/ IsEmpty /\ ret' = Failed /\ UNCHANGED <<data, head, tail>>
  \/ /\ ~IsEmpty
     /\ ret' = data[tail]
     /\ tail' = Mask(tail + 1)
     /\ UNCHANGED <<data, head>>

CBNext == InitBuffer \/ Pop \/ \E e \in Bytes : Push(e)

CBSpec == CBInit /\ [][CBNext]_cbvars
----------------------------------------------------------------------------
(* The indices stay inside the array, the array keeps bytes.               *)
CBTypeOK ==
  /\ data \in [Index -> Bytes]
  /\ head \in Index /\ tail \in Index
  /\ ret \in Bytes \cup {0, -1}

(* The buffer is a FIFO of Size - 1 characters: one slot stays free to     *)
(* tell full from empty (cyclic_buffer.c:53,64).                           *)
Contents == [i \in 1 .. Count |-> data[Mask(tail + i - 1)]]

Fifo == INSTANCE BoundedFifo
          WITH Capacity <- Size - 1, Elements <- Bytes, Nothing <- Failed, q <- Contents

ImplementsFifo == Fifo!Spec
=============================================================================
