--------------------------- MODULE TerminalProofs ----------------------------
(***************************************************************************)
(* Proofs about Terminal, for every size of the screen, every tab width,   *)
(* every keyboard and every layout, and about the tty's cyclic buffers.    *)
(***************************************************************************)
EXTENDS Terminal, CyclicBuffer, SequenceTheorems, TLAPS

Printable == Char \ {"other"}

(* What the key in hand means: the character that its echo shows.          *)
Due == Echo(IF last.shift THEN shift_kbdus[last.key] ELSE kbdus[last.key])

(* The queues hold the key in hand or its echo, and nothing else.          *)
Phases ==
  /\ write_queue \in Seq(Printable) /\ shown \in Seq(Char)
  /\ stage = "idle" => read_queue = <<>> /\ write_queue = <<>>
  /\ stage = "parse" =>
       /\ write_queue = <<>>
       /\ \/ read_queue = <<>>
          \/ shown = <<>> /\ \E c \in Char : read_queue = <<c>>
  /\ stage = "write" => read_queue = <<>> /\ char_count = Len(write_queue)

(* ... of which what is shown is the first part.                           *)
EchoInHand ==
  stage # "idle" =>
    /\ last.key \in Keys /\ last.shift \in BOOLEAN
    /\ ~right =>
         /\ stage = "parse" /\ read_queue = <<>> => shown = Due
         /\ stage = "parse" /\ read_queue # <<>> => Echo(Head(read_queue)) = Due
         /\ stage = "write" => shown \o write_queue = Due

(* Without a right shift do_kb knows whether the left one is down.         *)
ShiftKnown == ~right => (("KM_LSHIFT" \in key_mode) <=> LeftShiftHeld)

Inv == TypeOK /\ Phases /\ EchoInHand /\ ShiftKnown /\ ModifiersHeld
-----------------------------------------------------------------------------
LEMMA Sizes ==
  /\ Columns \in Int /\ Columns >= 1 /\ Lines \in Int /\ Lines >= 1
  /\ TabWidth \in Int /\ TabWidth >= 1
BY SizeAssumption

(* A place in a row, and the row, from the number of a cell.               *)
LEMMA Division ==
  ASSUME NEW d \in Int, d >= 1, NEW q \in Int, NEW r \in Int, 0 <= r, r < d
  PROVE  (q * d + r) % d = r
<1> DEFINE n == q * d + r
<1>1. n \in Int OBVIOUS
<1>2. n % d \in Int /\ 0 <= n % d /\ n % d < d /\ n \div d \in Int
  BY <1>1
<1>3. n = d * (n \div d) + (n % d) BY <1>1
<1>4. PICK k \in Int, m \in Int : k = n \div d /\ m = n % d BY <1>2
<1>5. d * (q - k) = m - r BY <1>1, <1>2, <1>3, <1>4
<1>6. q - k = 0
  <2>1. m - r < d /\ m - r > -d BY <1>2, <1>4
  <2>2. CASE q - k >= 1
    <3>1. d * (q - k) >= d BY <2>2
    <3> QED BY <1>5, <2>1, <3>1
  <2>3. CASE q - k <= -1
    <3>1. d * (q - k) <= -d BY <2>3
    <3> QED BY <1>5, <2>1, <3>1
  <2> QED BY <2>2, <2>3
<1>7. m = r BY <1>5, <1>6, <1>4
<1> QED BY <1>4, <1>7

LEMMA Distributes ==
  ASSUME NEW a \in Int, NEW d \in Int
  PROVE  /\ (a + 1) * d = a * d + d /\ (a - 1) * d = a * d - d
         /\ a * d \in Int /\ 0 * d = 0
OBVIOUS

(* Rows and cells.                                                         *)
LEMMA Rows ==
  ASSUME NEW y \in Int, 0 <= y, y <= Lines - 1
  PROVE  /\ 0 <= y * Columns /\ y * Columns \in Int /\ Lines * Columns \in Int
         /\ y * Columns + Columns <= Lines * Columns
         /\ y < Lines - 1 => y * Columns + 2 * Columns <= Lines * Columns
         /\ y = Lines - 1 => y * Columns + Columns = Lines * Columns
<1> USE Sizes
<1>1. \A k, d \in Nat : k * d \in Nat OBVIOUS
<1>2. y * Columns \in Nat BY <1>1
<1>3. (Lines - 1 - y) * Columns \in Nat BY <1>1
<1>4. (Lines - 1 - y) * Columns = Lines * Columns - Columns - y * Columns OBVIOUS
<1>5. Lines * Columns \in Int OBVIOUS
<1>6. ASSUME y < Lines - 1 PROVE y * Columns + 2 * Columns <= Lines * Columns
  <2>1. (Lines - 2 - y) * Columns \in Nat BY <1>1, <1>6
  <2>2. (Lines - 2 - y) * Columns = Lines * Columns - 2 * Columns - y * Columns OBVIOUS
  <2> QED BY <2>1, <2>2, <1>2, <1>5
<1>7. ASSUME y = Lines - 1 PROVE y * Columns + Columns = Lines * Columns
  BY <1>7, Distributes
<1> QED BY <1>2, <1>3, <1>4, <1>5, <1>6, <1>7

(* A character that goes from what is due to what is shown.                *)
LEMMA HeadMoves ==
  ASSUME NEW S, NEW a \in Seq(S), NEW b \in Seq(S), b # <<>>
  PROVE  Append(a, Head(b)) \o Tail(b) = a \o b
<1>1. Head(b) \in S /\ Tail(b) \in Seq(S) /\ Len(b) > 0
  BY HeadTailProperties, EmptySeq
<1>2. Append(a, Head(b)) = a \o <<Head(b)>> BY <1>1, AppendIsConcat
<1>3. <<Head(b)>> \o Tail(b) = b
  <2>1. <<Head(b)>> \in Seq(S) BY <1>1
  <2>2. Len(<<Head(b)>> \o Tail(b)) = Len(b) BY <1>1, <2>1, ConcatProperties, HeadTailProperties
  <2> QED BY <1>1, <2>1, <2>2, ConcatProperties, HeadTailProperties, SeqEqual
<1> QED BY <1>1, <1>2, <1>3, ConcatAssociative
-----------------------------------------------------------------------------
LEMMA EchoPrintable == ASSUME NEW c PROVE Echo(c) \in Seq(Printable)
<1>1. "newline" \in Printable /\ "return" \in Printable /\ "backspace" \in Printable
  BY DEF Printable, Char, Control
<1>2. \A g \in Glyph : g \in Printable BY CharAssumption DEF Printable, Char, Control
<1> QED BY <1>1, <1>2 DEF Echo

LEMMA InitInv == Init => Inv
<1> SUFFICES ASSUME Init PROVE Inv OBVIOUS
<1>1. TypeOK
  <2>1. csr_x \in 0 .. Columns - 1 /\ csr_y \in 0 .. Lines - 1 BY Sizes DEF Init
  <2>2. /\ read_queue \in Seq(Char) /\ write_queue \in Seq(Char)
        /\ key_mode \subseteq Modifier /\ held \subseteq Keys
        /\ stage \in {"idle", "parse", "write"}
    BY DEF Init
  <2>3. vram \in [Cells -> Char \cup {Blank}] BY DEF Init
  <2>4. char_count \in Nat /\ right \in BOOLEAN BY DEF Init
  <2> QED BY <2>1, <2>2, <2>3, <2>4 DEF TypeOK
<1>2. Phases BY DEF Init, Phases
<1>3. EchoInHand BY DEF Init, EchoInHand
<1>4. ShiftKnown BY DEF Init, ShiftKnown, LeftShiftHeld
<1>5. ModifiersHeld BY DEF Init, ModifiersHeld
<1> QED BY <1>1, <1>2, <1>3, <1>4, <1>5 DEF Inv

(* print_c leaves the cursor on the screen.                                *)
LEMMA PrintTypes ==
  ASSUME TypeOK, NEW c \in Char, PrintC(c)
  PROVE  /\ csr_x' \in 0 .. Columns - 1 /\ csr_y' \in 0 .. Lines - 1
         /\ vram' \in [Cells -> Char \cup {Blank}]
<1> USE Sizes
<1>1. csr_x \in Int /\ 0 <= csr_x /\ csr_x <= Columns - 1 /\ csr_y \in Int /\ 0 <= csr_y
      /\ csr_y <= Lines - 1 /\ vram \in [Cells -> Char \cup {Blank}]
  BY DEF TypeOK
<1>2. TabStop \in Int /\ TabStop > csr_x /\ TabStop <= Columns
  <2>1. csr_x % TabWidth \in Int /\ csr_x % TabWidth < TabWidth BY <1>1
  <2>2. TabStopUncapped \in Int /\ TabStopUncapped > csr_x BY <1>1, <2>1 DEF TabStopUncapped
  <2> QED BY <1>1, <2>2 DEF TabStop
<1>3. Column(c) \in Int /\ 0 <= Column(c) BY <1>1, <1>2 DEF Column
<1>4. Wrote(c) \in [Cells -> Char \cup {Blank}]
  <2>1. \A x : BlanksTo(x) \in [Cells -> Char \cup {Blank}] BY <1>1 DEF BlanksTo
  <2> QED BY <1>1, <2>1 DEF Wrote
<1>5. ScrolledDown(Wrote(c)) \in [Cells -> Char \cup {Blank}] BY <1>4 DEF ScrolledDown
<1>6. CASE c = "backspace" /\ csr_x = 0 /\ csr_y = 0
  BY <1>1, <1>6 DEF PrintC, console
<1>7. CASE ~(c = "backspace" /\ csr_x = 0 /\ csr_y = 0) /\ Column(c) < Columns
  BY <1>1, <1>3, <1>4, <1>7 DEF PrintC
<1>8. CASE ~(c = "backspace" /\ csr_x = 0 /\ csr_y = 0) /\ ~(Column(c) < Columns)
  <2>1. csr_x' = 0 /\ (IF LastRow THEN csr_y' = csr_y /\ vram' = ScrolledDown(Wrote(c))
                       ELSE csr_y' = csr_y + 1 /\ vram' = Wrote(c))
    BY <1>8 DEF PrintC
  <2> QED BY <1>1, <1>4, <1>5, <2>1 DEF LastRow
<1> QED BY <1>6, <1>7, <1>8
(* Keys change neither the queues nor the screen, ...                      *)
LEMMA KeyUpInv == ASSUME Inv, NEW k \in Keys, KeyUp(k) PROVE Inv'
<1>1. TypeOK'
  <2>1. right' \in BOOLEAN BY Zenon DEF KeyUp
  <2> QED BY <2>1 DEF Inv, TypeOK, KeyUp, queues, console
<1>2. Phases' BY DEF Inv, Phases, KeyUp, queues
<1>3. EchoInHand' BY DEF EchoInHand, KeyUp
<1>4. keytable[k] \in KeyType BY KeyAssumption
<1>5. ShiftKnown'
  <2>1. CASE keytable[k] = "KT_LSHIFT"
    <3>1. "KM_LSHIFT" \notin key_mode' BY <2>1 DEF KeyUp, Released
    <3>2. ~LeftShiftHeld'
      BY <2>1, KeyAssumption DEF KeyUp, LeftShiftHeld, Inv, TypeOK
    <3> QED BY <3>1, <3>2 DEF ShiftKnown
  <2>2. CASE keytable[k] # "KT_LSHIFT"
    <3>1. right' <=> right BY <2>2 DEF KeyUp
    <3>2. "KM_LSHIFT" \in key_mode' <=> "KM_LSHIFT" \in key_mode
      BY <2>2, <1>4 DEF KeyUp, Released
    <3>3. LeftShiftHeld' <=> LeftShiftHeld BY <2>2 DEF KeyUp, LeftShiftHeld
    <3> QED BY <3>1, <3>2, <3>3 DEF ShiftKnown, Inv
  <2> QED BY <2>1, <2>2
<1>6. ModifiersHeld'
  <2> SUFFICES ASSUME NEW m \in key_mode'
               PROVE  \/ \E j \in held' : m \in Pressed(keytable[j])
                      \/ m = "KM_LSHIFT" /\ right'
    BY DEF ModifiersHeld
  <2>1. m \in key_mode /\ m \notin Released(keytable[k]) BY DEF KeyUp
  <2>2. CASE m = "KM_LSHIFT"
    <3>1. right' \/ LeftShiftHeld' BY <1>5, <2>2 DEF ShiftKnown
    <3> QED BY <2>2, <3>1 DEF LeftShiftHeld, Pressed
  <2>3. CASE m # "KM_LSHIFT"
    <3>1. PICK j \in held : m \in Pressed(keytable[j]) BY <2>1, <2>3 DEF Inv, ModifiersHeld
    <3>2. keytable[j] \notin {"KT_LSHIFT", "KT_RSHIFT"} BY <2>3, <3>1 DEF Pressed
    <3>3. j # k BY <2>1, <3>1, <3>2 DEF Pressed, Released
    <3> QED BY <3>1, <3>3 DEF KeyUp
  <2> QED BY <2>2, <2>3
<1> QED BY <1>1, <1>2, <1>3, <1>5, <1>6 DEF Inv

LEMMA ModifierDownInv == ASSUME Inv, NEW k \in Keys, ModifierDown(k) PROVE Inv'
<1>1. TypeOK'
  <2>1. right' \in BOOLEAN BY Zenon DEF ModifierDown
  <2>2. Pressed(keytable[k]) \subseteq Modifier BY DEF Pressed, Modifier
  <2> QED BY <2>1, <2>2 DEF Inv, TypeOK, ModifierDown, queues, console
<1>2. Phases' BY DEF Inv, Phases, ModifierDown, queues
<1>3. EchoInHand' BY DEF EchoInHand, ModifierDown
<1>4. ShiftKnown'
  <2>1. CASE keytable[k] = "KT_RSHIFT" BY <2>1 DEF ModifierDown, ShiftKnown
  <2>2. CASE keytable[k] = "KT_LSHIFT"
    BY <2>2 DEF ModifierDown, ShiftKnown, LeftShiftHeld, Pressed
  <2>3. CASE keytable[k] \notin {"KT_LSHIFT", "KT_RSHIFT"}
    <3>1. "KM_LSHIFT" \in key_mode' <=> "KM_LSHIFT" \in key_mode
      BY <2>3 DEF ModifierDown, Pressed
    <3>2. (right' <=> right) /\ (LeftShiftHeld' <=> LeftShiftHeld)
      BY <2>3 DEF ModifierDown, LeftShiftHeld
    <3> QED BY <3>1, <3>2 DEF ShiftKnown, Inv
  <2> QED BY <2>1, <2>2, <2>3
<1>5. ModifiersHeld' BY DEF Inv, ModifiersHeld, ModifierDown
<1> QED BY <1>1, <1>2, <1>3, <1>4, <1>5 DEF Inv

LEMMA KeyDownInv == ASSUME Inv, NEW k \in Keys, KeyDown(k) PROVE Inv'
<1>1. read_queue = <<>> /\ write_queue = <<>> /\ stage = "idle" BY DEF Inv, Phases, KeyDown
<1>2. Meaning(k) \in Char BY KeyAssumption DEF Meaning
<1>3. read_queue' = <<Meaning(k)>> BY <1>1 DEF KeyDown
<1>4. TypeOK' BY <1>2, <1>3 DEF Inv, TypeOK, KeyDown, keyboard, console
<1>5. Phases' BY <1>1, <1>2, <1>3 DEF Inv, Phases, KeyDown
<1>6. LeftShiftHeld \in BOOLEAN BY DEF LeftShiftHeld
<1>7. EchoInHand'
  <2>1. last'.key = k /\ last'.shift = LeftShiftHeld BY DEF KeyDown
  <2>2. ASSUME ~right PROVE Echo(Head(read_queue')) = Due'
    <3>1. Meaning(k) = IF LeftShiftHeld THEN shift_kbdus[k] ELSE kbdus[k]
      BY <2>2 DEF Meaning, Inv, ShiftKnown
    <3> QED BY <1>3, <2>1, <3>1 DEF Due
  <2>3. stage' = "parse" /\ (right' <=> right) /\ read_queue' # <<>>
    BY <1>3 DEF KeyDown, keyboard
  <2> QED BY <1>6, <2>1, <2>2, <2>3 DEF EchoInHand
<1>8. ShiftKnown' /\ ModifiersHeld'
  BY DEF Inv, ShiftKnown, ModifiersHeld, LeftShiftHeld, KeyDown, keyboard
<1> QED BY <1>4, <1>5, <1>7, <1>8 DEF Inv

(* ... and the handler's steps only move the character on.                 *)
LEMMA ParseKeyInv == ASSUME Inv, ParseKey PROVE Inv'
<1>1. PICK c \in Char : read_queue = <<c>> BY DEF Inv, Phases, ParseKey
<1>2. shown = <<>> /\ write_queue = <<>> BY <1>1 DEF Inv, Phases, ParseKey
<1>3. Echo(c) \in Seq(Printable) /\ Echo(c) \in Seq(Char)
  <2>1. Printable \subseteq Char BY DEF Printable
  <2> QED BY <2>1, EchoPrintable
<1>4. read_queue' = <<>> /\ write_queue' = Echo(c)
  <2>1. Head(read_queue) = c /\ Tail(read_queue) = <<>> BY <1>1
  <2> QED BY <1>2, <1>3, <2>1, ConcatEmptySeq DEF ParseKey
<1>5. Len(Echo(c)) \in Nat BY <1>3
<1>6. TypeOK'
  <2>1. read_queue' \in Seq(Char) /\ write_queue' \in Seq(Char) BY <1>3, <1>4
  <2>2. char_count' \in Nat /\ stage' = "write" BY <1>4, <1>5 DEF ParseKey
  <2> QED BY <2>1, <2>2 DEF Inv, TypeOK, ParseKey, keyboard, console
<1>7. Phases' BY <1>3, <1>4 DEF Inv, Phases, ParseKey
<1>8. EchoInHand'
  <2>1. ASSUME ~right PROVE shown' \o write_queue' = Due'
    <3>1. Echo(c) = Due BY <1>1, <2>1 DEF Inv, EchoInHand, ParseKey
    <3>2. Due' = Due BY DEF Due, ParseKey
    <3> QED BY <1>2, <1>3, <1>4, <3>1, <3>2, ConcatEmptySeq DEF ParseKey
  <2>2. (right' <=> right) /\ stage' = "write" /\ last' = last /\ stage = "parse"
    BY DEF ParseKey, keyboard
  <2> QED BY <2>1, <2>2 DEF Inv, EchoInHand
<1>9. ShiftKnown' /\ ModifiersHeld'
  BY DEF Inv, ShiftKnown, ModifiersHeld, LeftShiftHeld, ParseKey, keyboard
<1> QED BY <1>6, <1>7, <1>8, <1>9 DEF Inv

LEMMA WriteCharInv == ASSUME Inv, WriteChar PROVE Inv'
<1>1. /\ stage = "write" /\ read_queue = <<>> /\ char_count = Len(write_queue)
      /\ char_count > 0 /\ write_queue \in Seq(Printable) /\ shown \in Seq(Char)
  BY DEF Inv, Phases, WriteChar, Remaining
<1>2. /\ write_queue # <<>> /\ Head(write_queue) \in Printable
      /\ Tail(write_queue) \in Seq(Printable)
      /\ Len(Tail(write_queue)) = Len(write_queue) - 1
  BY <1>1, HeadTailProperties
<1>3. Printable \subseteq Char BY DEF Printable
<1>4. TypeOK'
  <2>1. /\ csr_x' \in 0 .. Columns - 1 /\ csr_y' \in 0 .. Lines - 1
        /\ vram' \in [Cells -> Char \cup {Blank}]
    BY <1>2, <1>3, PrintTypes DEF Inv, WriteChar
  <2>2. write_queue' \in Seq(Char) /\ char_count' \in Nat
    BY <1>1, <1>2, <1>3 DEF WriteChar, Inv, TypeOK
  <2> QED BY <2>1, <2>2 DEF Inv, TypeOK, WriteChar, keyboard
<1>5. Phases'
  <2>1. shown' \in Seq(Char) BY <1>1, <1>2, <1>3 DEF WriteChar
  <2> QED BY <1>1, <1>2, <2>1 DEF Phases, WriteChar
<1>6. EchoInHand'
  <2>1. shown' \o write_queue' = shown \o write_queue
    BY <1>1, <1>2, <1>3, HeadMoves DEF WriteChar
  <2>2. Due' = Due BY DEF Due, WriteChar
  <2>3. (right' <=> right) /\ stage' = "write" /\ last' = last BY <1>1 DEF WriteChar, keyboard
  <2> QED BY <1>1, <2>1, <2>2, <2>3 DEF Inv, EchoInHand
<1>7. ShiftKnown' /\ ModifiersHeld'
  BY DEF Inv, ShiftKnown, ModifiersHeld, LeftShiftHeld, WriteChar, keyboard
<1> QED BY <1>4, <1>5, <1>6, <1>7 DEF Inv

LEMMA WriteDoneInv == ASSUME Inv, WriteDone PROVE Inv'
<1>1. write_queue = <<>> /\ read_queue = <<>> /\ shown \in Seq(Char)
  <2>1. write_queue \in Seq(Printable) /\ ~(Len(write_queue) > 0) /\ read_queue = <<>>
    BY DEF Inv, Phases, WriteDone, Remaining
  <2> QED BY <2>1, EmptySeq DEF Inv, Phases
<1>2. TypeOK' BY DEF Inv, TypeOK, WriteDone, keyboard, queues, console
<1>3. Phases' BY <1>1 DEF Inv, Phases, WriteDone, queues
<1>4. EchoInHand'
  <2>1. shown \o write_queue = shown BY <1>1, ConcatEmptySeq
  <2>2. Due' = Due BY DEF Due, WriteDone
  <2>3. /\ (right' <=> right) /\ stage = "write" /\ stage' = "parse" /\ last' = last
        /\ read_queue' = <<>> /\ shown' = shown
    BY <1>1 DEF WriteDone, keyboard, queues
  <2> QED BY <2>1, <2>2, <2>3 DEF Inv, EchoInHand
<1>5. ShiftKnown' /\ ModifiersHeld'
  BY DEF Inv, ShiftKnown, ModifiersHeld, LeftShiftHeld, WriteDone, keyboard
<1> QED BY <1>2, <1>3, <1>4, <1>5 DEF Inv

LEMMA KeyDoneInv == ASSUME Inv, KeyDone PROVE Inv'
<1>1. TypeOK' BY DEF Inv, TypeOK, KeyDone, keyboard, queues, console
<1>2. Phases' BY EmptySeq DEF Inv, Phases, KeyDone, queues
<1>3. EchoInHand' BY DEF EchoInHand, KeyDone
<1>4. ShiftKnown' /\ ModifiersHeld'
  BY DEF Inv, ShiftKnown, ModifiersHeld, LeftShiftHeld, KeyDone, keyboard
<1> QED BY <1>1, <1>2, <1>3, <1>4 DEF Inv

LEMMA KernelPrintsInv == ASSUME Inv, NEW c \in Char, KernelPrints(c) PROVE Inv'
<1>1. TypeOK'
  <2>1. /\ csr_x' \in 0 .. Columns - 1 /\ csr_y' \in 0 .. Lines - 1
        /\ vram' \in [Cells -> Char \cup {Blank}]
    BY PrintTypes DEF Inv, KernelPrints
  <2> QED BY <2>1 DEF Inv, TypeOK, KernelPrints, keyboard, queues
<1>2. Phases' BY DEF Inv, Phases, KernelPrints, queues
<1>3. EchoInHand' BY DEF EchoInHand, KernelPrints
<1>4. ShiftKnown' /\ ModifiersHeld'
  BY DEF Inv, ShiftKnown, ModifiersHeld, LeftShiftHeld, KernelPrints, keyboard
<1> QED BY <1>1, <1>2, <1>3, <1>4 DEF Inv

LEMMA NextInv == Inv /\ [Next]_vars => Inv'
<1> SUFFICES ASSUME Inv, [Next]_vars PROVE Inv'
  OBVIOUS
<1>1. CASE UNCHANGED vars
  BY <1>1 DEF vars, keyboard, queues, console, Inv, TypeOK, Phases, EchoInHand, Due,
              ShiftKnown, ModifiersHeld, LeftShiftHeld
<1>2. CASE Next
  BY <1>2, KeyUpInv, ModifierDownInv, KeyDownInv, ParseKeyInv, WriteCharInv,
     WriteDoneInv, KeyDoneInv, KernelPrintsInv DEF Next
<1> QED BY <1>1, <1>2

LEMMA Invariant == Spec => []Inv
BY InitInv, NextInv, PTL DEF Spec

(* The cursor is on the screen, and every queue and cell holds what it     *)
(* may, whatever is printed.                                               *)
THEOREM TypeCorrect == Spec => []TypeOK
<1>1. Inv => TypeOK BY DEF Inv
<1> QED BY <1>1, Invariant, PTL

(* A key prints what is on it, for every keyboard and layout.              *)
THEOREM KeyEchoed == Spec => []EchoOfKey
<1>1. Inv => EchoOfKey BY DEF Inv, Phases, EchoInHand, Due, EchoOfKey
<1> QED BY <1>1, Invariant, PTL

(* do_kb takes no modifier for down that is up, but for the right shift.   *)
THEOREM ModifiersAlwaysHeld == Spec => []ModifiersHeld
<1>1. Inv => ModifiersHeld BY DEF Inv
<1> QED BY <1>1, Invariant, PTL
-----------------------------------------------------------------------------
(* print_c is a step of the screen.  First the place: row and column of    *)
(* dest, and a row that is written from csr_x to x.                        *)
LEMMA OnScreen ==
  ASSUME TypeOK
  PROVE  /\ csr_x \in Int /\ 0 <= csr_x /\ csr_x < Columns
         /\ csr_y \in Int /\ 0 <= csr_y /\ csr_y <= Lines - 1
         /\ Columns \in Int /\ Columns >= 1 /\ Lines \in Int
BY Sizes DEF TypeOK

LEMMA Place ==
  ASSUME TypeOK
  PROVE  /\ csr_x \in Int /\ 0 <= csr_x /\ csr_x < Columns
         /\ csr_y \in Int /\ 0 <= csr_y /\ csr_y <= Lines - 1
         /\ dest \in Int /\ dest = csr_y * Columns + csr_x
         /\ csr_y * Columns \in Int /\ 0 <= csr_y * Columns
         /\ dest % Columns = csr_x
         /\ Window!LineStart(dest) = csr_y * Columns
<1>1. /\ csr_x \in Int /\ 0 <= csr_x /\ csr_x < Columns
      /\ csr_y \in Int /\ 0 <= csr_y /\ csr_y <= Lines - 1
  BY Sizes DEF TypeOK
<1>2. csr_y * Columns \in Int /\ 0 <= csr_y * Columns BY <1>1, Rows
<1>3. dest % Columns = csr_x BY <1>1, Sizes, Division DEF dest
<1> QED BY <1>1, <1>2, <1>3 DEF dest, Window!LineStart

LEMMA Step ==
  ASSUME TypeOK, NEW x \in Int, csr_x <= x, x <= Columns,
         NEW new, DOMAIN new = Cells, new = [n \in Cells |-> new[n]],
         IF x < Columns THEN csr_x' = x /\ csr_y' = csr_y /\ vram' = new
         ELSE /\ csr_x' = 0
              /\ IF LastRow THEN csr_y' = csr_y /\ vram' = ScrolledDown(new)
                 ELSE csr_y' = csr_y + 1 /\ vram' = new
  PROVE  Window!Shown(new, csr_y * Columns + x)
<1> USE Sizes
<1> DEFINE size == Lines * Columns
           p == csr_y * Columns + x
<1>1. size \in Int /\ p \in Int /\ Window!Size = size /\ Cells = 0 .. size - 1
  BY Place, Rows DEF Window!Size, Cells
<1>2. /\ csr_y * Columns \in Int /\ csr_y * Columns + Columns <= size
      /\ csr_y < Lines - 1 => csr_y * Columns + 2 * Columns <= size
      /\ csr_y = Lines - 1 => csr_y * Columns + Columns = size
  BY Place, Rows
<1>3. dest' = csr_y' * Columns + csr_x' BY DEF dest
<1>4. CASE x < Columns \/ ~LastRow
  <2>1. vram' = new BY <1>4
  <2>2. p # size
    <3>1. CASE x < Columns BY <3>1, <1>1, <1>2
    <3>2. CASE ~LastRow
      <4>1. csr_y * Columns + 2 * Columns <= size BY <3>2, <1>2, Place DEF LastRow
      <4> QED BY <4>1, <1>1, <1>2
    <3> QED BY <1>4, <3>1, <3>2
  <2>3. dest' = p - 0
    <3>1. CASE x < Columns BY <3>1, <1>3, Place
    <3>2. CASE ~(x < Columns)
      <4>1. x = Columns /\ csr_x' = 0 /\ csr_y' = csr_y + 1 BY <3>2, <1>4
      <4>2. (csr_y + 1) * Columns = csr_y * Columns + Columns BY Place, Distributes
      <4> QED BY <4>1, <4>2, <1>2, <1>3
    <3> QED BY <3>1, <3>2
  <2>4. vram' = [n \in 0 .. size - 1 |-> IF n + 0 < size THEN new[n + 0] ELSE Blank]
    BY <2>1, <1>1
  <2> HIDE DEF p, size
  <2> QED BY <2>2, <2>3, <2>4, <1>1 DEF Window!Shown, p
<1>5. CASE ~(x < Columns) /\ LastRow
  <2>1. x = Columns /\ csr_x' = 0 /\ csr_y' = csr_y /\ vram' = ScrolledDown(new)
    BY <1>5
  <2>2. csr_y = Lines - 1
    <3>1. csr_y >= Lines - 1 BY <1>5 DEF LastRow
    <3> QED BY <3>1, OnScreen
  <2>3. p = size BY <2>1, <2>2, <1>2
  <2>4. dest' = p - Columns BY <2>1, <1>2, <1>3
  <2>5. vram' = [n \in 0 .. size - 1 |-> IF n + Columns < size THEN new[n + Columns] ELSE Blank]
    <3>1. \A n \in 0 .. size - 1 : (n + Columns \in 0 .. size - 1) <=> (n + Columns < size)
      BY <1>1
    <3> HIDE DEF size
    <3> QED BY <2>1, <3>1, <1>1 DEF ScrolledDown
  <2> HIDE DEF p, size
  <2> QED BY <2>3, <2>4, <2>5, <1>1 DEF Window!Shown, p
<1> QED BY <1>4, <1>5

(* What print_c does for a character that ends at x, but for backspace.    *)
LEMMA PrintStep ==
  ASSUME TypeOK, NEW c \in Char, c # "backspace", PrintC(c), c # "return",
         NEW x \in Int, Column(c) = x, csr_x <= x, x <= Columns,
         NEW new, Wrote(c) = new, DOMAIN new = Cells, new = [n \in Cells |-> new[n]]
  PROVE  Window!Shown(new, csr_y * Columns + x)
<1>1. IF x < Columns
      THEN csr_x' = x /\ csr_y' = csr_y /\ vram' = new
      ELSE /\ csr_x' = 0
           /\ IF LastRow THEN csr_y' = csr_y /\ vram' = ScrolledDown(new)
              ELSE csr_y' = csr_y + 1 /\ vram' = new
  BY DEF PrintC
<1> QED BY <1>1, Step

LEMMA Blanks ==
  ASSUME TypeOK, NEW x \in Int
  PROVE  /\ DOMAIN BlanksTo(x) = Cells /\ BlanksTo(x) = [n \in Cells |-> BlanksTo(x)[n]]
         /\ BlanksTo(x) = [n \in 0 .. Window!Size - 1 |->
                             IF n \in dest .. (csr_y * Columns + x) - 1 THEN Blank ELSE vram[n]]
<1>1. dest + (x - csr_x) - 1 = (csr_y * Columns + x) - 1 BY Place
<1> QED BY <1>1 DEF BlanksTo, Cells, Window!Size

LEMMA NewLineStep == ASSUME TypeOK, PrintC("newline") PROVE Window!NewLine
<1>1. Column("newline") = Columns /\ Wrote("newline") = BlanksTo(Columns)
  BY DEF Column, Wrote
<1>2. "newline" \in Char BY DEF Char, Control
<1>3. PICK new : new = BlanksTo(Columns) OBVIOUS
<1>4. /\ DOMAIN new = Cells /\ new = [n \in Cells |-> new[n]]
      /\ Columns \in Int /\ csr_x <= Columns
  BY <1>3, Blanks, OnScreen
<1>5. Window!Shown(new, csr_y * Columns + Columns)
  BY <1>1, <1>2, <1>3, <1>4, PrintStep, OnScreen
<1> QED BY <1>3, <1>5, Blanks, Place, Sizes DEF Window!NewLine, Window!BlankTo

LEMMA ReturnStep == ASSUME TypeOK, PrintC("return") PROVE Window!Return
<1>1. csr_x' = 0 /\ csr_y' = csr_y /\ vram' = vram
  BY Sizes DEF PrintC, Column, Wrote
<1>2. dest' = csr_y * Columns BY <1>1, Place DEF dest
<1> QED BY <1>1, <1>2, Place DEF Window!Return

LEMMA EraseStep ==
  ASSUME TypeOK, PrintC("backspace")
  PROVE  Window!Erase \/ (vram' = vram /\ dest' = dest)
<1>1. CASE csr_x = 0 /\ csr_y = 0 BY <1>1 DEF PrintC, console, dest
<1>2. CASE ~(csr_x = 0 /\ csr_y = 0)
  <2>1. /\ vram' = [vram EXCEPT ![dest - 1] = Blank]
        /\ csr_x' = IF csr_x = 0 THEN Columns - 1 ELSE csr_x - 1
        /\ csr_y' = IF csr_x = 0 THEN csr_y - 1 ELSE csr_y
    BY <1>2, Place, Sizes DEF PrintC, Column, Wrote
  <2>2. dest > 0 /\ dest' = dest - 1
    <3>1. dest' = csr_y' * Columns + csr_x' BY DEF dest
    <3>2. CASE csr_x = 0
      <4>1. (csr_y - 1) * Columns = csr_y * Columns - Columns BY Place, Sizes, Distributes
      <4>2. csr_y - 1 \in Int /\ 0 <= csr_y - 1 /\ csr_y - 1 <= Lines - 1
        BY <1>2, <3>2, OnScreen
      <4>3. (csr_y - 1) * Columns >= 0 BY <4>2, Rows
      <4>4. csr_y' = csr_y - 1 /\ csr_x' = Columns - 1 BY <2>1, <3>2
      <4>5. dest' = (csr_y - 1) * Columns + (Columns - 1) BY <3>1, <4>4
      <4>6. dest = csr_y * Columns /\ csr_y * Columns \in Int BY <3>2, Place
      <4> QED BY <4>1, <4>3, <4>5, <4>6, OnScreen
    <3>3. CASE csr_x # 0 BY <2>1, <3>1, <3>3, Place
    <3> QED BY <3>2, <3>3
  <2> QED BY <2>1, <2>2 DEF Window!Erase
<1> QED BY <1>1, <1>2

LEMMA PutStep ==
  ASSUME TypeOK, NEW g \in Glyph, PrintC(g)
  PROVE  Window!Put(g)
<1>1. g \notin Control /\ g \in Char BY CharAssumption DEF Char
<1>2. Column(g) = csr_x + 1 /\ Wrote(g) = [vram EXCEPT ![dest] = g]
  BY <1>1 DEF Column, Wrote, Control
<1>3. DOMAIN Wrote(g) = Cells /\ Wrote(g) = [n \in Cells |-> Wrote(g)[n]]
  BY <1>2 DEF TypeOK
<1>4. PICK new : new = Wrote(g) OBVIOUS
<1>5. PICK x \in Int : x = csr_x + 1 BY OnScreen
<1>6. csr_x <= x /\ x <= Columns BY <1>5, OnScreen
<1>7. g # "backspace" /\ g # "return" BY <1>1 DEF Control
<1>8. Window!Shown(new, csr_y * Columns + x)
  BY <1>1, <1>2, <1>3, <1>4, <1>5, <1>6, <1>7, PrintStep
<1>9. csr_y * Columns + x = dest + 1 BY <1>5, Place
<1> QED BY <1>2, <1>4, <1>8, <1>9 DEF Window!Put

(* The next multiple of the tab width, or the end of the line.             *)
LEMMA TabStops ==
  ASSUME NEW x \in Int, NEW d \in Int, d >= 1, x >= 0
  PROVE  /\ x - (x % d) + d \in Int /\ x - (x % d) + d > x
         /\ (x - (x % d) + d) % d = 0
         /\ \A y \in Int : x < y /\ y < x - (x % d) + d => y % d # 0
<1>1. /\ x % d \in Int /\ 0 <= x % d /\ x % d < d /\ x \div d \in Int
      /\ x = d * (x \div d) + (x % d)
  OBVIOUS
<1>2. PICK k \in Int, m \in Int : k = x \div d /\ m = x % d BY <1>1
<1>3. x = k * d + m /\ 0 <= m /\ m < d BY <1>1, <1>2
<1>4. x - m + d = (k + 1) * d + 0 BY <1>3, Distributes
<1>5. ((k + 1) * d + 0) % d = 0 BY Division
<1>6. ASSUME NEW y \in Int, x < y, y < x - m + d PROVE y % d # 0
  <2>1. y = k * d + (y - k * d) BY Distributes
  <2>2. PICK r \in Int : r = y - k * d BY Distributes
  <2>3. k * d \in Int BY Distributes
  <2>4. 0 < r /\ r < d BY <1>3, <1>6, <2>2, <2>3
  <2>5. y = k * d + r BY <2>2, <2>3
  <2>6. (k * d + r) % d = r BY <2>4, Division
  <2> QED BY <2>4, <2>5, <2>6
<1> QED BY <1>2, <1>3, <1>4, <1>5, <1>6

LEMMA TabStep == ASSUME TypeOK, PrintC("tab") PROVE Window!Tab
<1> USE Sizes
<1>1. Column("tab") = TabStop /\ Wrote("tab") = BlanksTo(TabStop)
  BY DEF Column, Wrote
<1>2. "tab" \in Char BY DEF Char, Control
<1>3. /\ TabStopUncapped \in Int /\ TabStopUncapped > csr_x
      /\ TabStopUncapped % TabWidth = 0
      /\ \A y \in Int : csr_x < y /\ y < TabStopUncapped => y % TabWidth # 0
  <2>1. TabStopUncapped = csr_x - (csr_x % TabWidth) + TabWidth
    <3>1. csr_x % TabWidth \in Int BY Place
    <3> QED BY <3>1, Place DEF TabStopUncapped
  <2> QED BY <2>1, TabStops, Place
<1>4. /\ TabStop \in Int /\ TabStop > csr_x /\ TabStop <= Columns
      /\ TabStop <= TabStopUncapped
      /\ TabStop = Columns \/ TabStop = TabStopUncapped
  BY <1>3, Place DEF TabStop
<1>5. PICK p \in Int : p = csr_y * Columns + TabStop BY <1>4, Place
<1>6. p \in dest + 1 .. Window!LineStart(dest) + Columns BY <1>4, <1>5, Place
<1>7. Window!Shown(BlanksTo(TabStop), p)
  <2>0. PICK new : new = BlanksTo(TabStop) OBVIOUS
  <2>1. PICK x \in Int : x = TabStop BY <1>4
  <2>2. DOMAIN new = Cells /\ new = [n \in Cells |-> new[n]] BY <2>0, <1>4, Blanks
  <2>3. csr_x <= x /\ x <= Columns BY <1>4, <2>1, OnScreen
  <2>4. Window!Shown(new, csr_y * Columns + x)
    BY <1>1, <1>2, <2>0, <2>1, <2>2, <2>3, PrintStep
  <2> QED BY <1>5, <2>0, <2>1, <2>4
<1>8. Window!BlankTo(p) BY <1>4, <1>5, <1>7, Blanks DEF Window!BlankTo
<1>9. (p % Columns) % TabWidth = 0
  <2>1. CASE TabStop = Columns
    <3>1. (csr_y + 1) * Columns + 0 = p BY <1>5, <2>1, Place, Distributes
    <3>2. ((csr_y + 1) * Columns + 0) % Columns = 0 BY Division, OnScreen
    <3>3. p % Columns = 0 BY <3>1, <3>2
    <3>4. 0 % TabWidth = 0 OBVIOUS
    <3> QED BY <3>3, <3>4
  <2>2. CASE TabStop # Columns
    <3>1. 0 <= TabStop /\ TabStop < Columns BY <1>4, <2>2, OnScreen
    <3>2. (csr_y * Columns + TabStop) % Columns = TabStop BY <1>4, <3>1, Division, OnScreen
    <3>3. p % Columns = TabStop BY <1>5, <3>2
    <3> QED BY <1>3, <1>4, <2>2, <3>3
  <2> QED BY <2>1, <2>2
<1>10. ASSUME NEW q \in dest + 1 .. p - 1 PROVE (q % Columns) % TabWidth # 0
  <2>1. PICK y \in Int : y = q - csr_y * Columns BY Place
  <2>2. csr_x < y /\ y < TabStop BY <1>5, <2>1, <1>4, Place
  <2>3. q = csr_y * Columns + y BY <2>1, Place
  <2>4. 0 <= y /\ y < Columns BY <1>4, <2>2, OnScreen
  <2>5. (csr_y * Columns + y) % Columns = y BY <2>4, Division, OnScreen
  <2>6. q % Columns = y BY <2>3, <2>5
  <2> QED BY <1>3, <1>4, <2>2, <2>6
<1> QED BY <1>6, <1>8, <1>9, <1>10 DEF Window!Tab

LEMMA PrintImplements ==
  ASSUME TypeOK, NEW c \in Printable, PrintC(c)
  PROVE  [Window!Next]_<<vram, dest>>
<1>1. c \in Glyph \/ c \in {"newline", "return", "tab", "backspace"}
  BY DEF Printable, Char, Control
<1> QED BY <1>1, NewLineStep, ReturnStep, EraseStep, PutStep, TabStep DEF Window!Next

(* On every screen print_c writes a text from left to right and from top   *)
(* to bottom, and moves it up by a line when the screen is full.           *)
THEOREM Refinement == Spec => ImplementsScreen
<1>1. Init => Window!Init
  <2> SUFFICES ASSUME Init PROVE Window!Init
    OBVIOUS
  <2>1. 0 * Columns = 0 BY Sizes, Distributes
  <2> QED BY <2>1 DEF Init, Window!Init, Window!Size, Cells, dest
<1>2. Inv /\ [Next]_vars => [Window!Next]_<<vram, dest>>
  <2> SUFFICES ASSUME Inv, [Next]_vars PROVE [Window!Next]_<<vram, dest>>
    OBVIOUS
  <2>1. CASE UNCHANGED console BY <2>1 DEF console, dest
  <2>2. ASSUME NEW c \in Char \ {"other"}, KernelPrints(c)
        PROVE  [Window!Next]_<<vram, dest>>
    BY <2>2, PrintImplements DEF Inv, Printable, KernelPrints
  <2>3. CASE WriteChar
    <3>1. Head(write_queue) \in Printable
      <4>1. write_queue \in Seq(Printable) /\ Len(write_queue) > 0
        BY <2>3 DEF Inv, Phases, WriteChar, Remaining
      <4> QED BY <4>1
    <3> QED BY <2>3, <3>1, PrintImplements DEF Inv, WriteChar
  <2> QED BY <2>1, <2>2, <2>3
      DEF Next, vars, KeyUp, ModifierDown, KeyDown, ParseKey, WriteDone, KeyDone
<1> QED BY <1>1, <1>2, Invariant, PTL DEF Spec, ImplementsScreen, Window!Spec
-----------------------------------------------------------------------------
(* The tty's queues.  Terminal takes each of the two for a sequence of     *)
(* characters: here is what the cyclic buffer behind it is to its users,   *)
(* for every size and every word width that is a multiple of the size.     *)
USE CBSizeAssumption, CBBytesAssumption

------------------------------------------------------------------------------
(* Remainders by a symbolic Size.                                          *)
LEMMA MulPositive == ASSUME NEW d \in Int, d >= 1 PROVE Size * d >= Size
OBVIOUS

LEMMA MulNegative == ASSUME NEW d \in Int, d <= -1 PROVE Size * d <= -Size
OBVIOUS

LEMMA DivMod ==
  ASSUME NEW x \in Int
  PROVE  \E e \in Int, m \in Index : x = Size * e + m /\ Mask(x) = m
<1>1. x = Size * (x \div Size) + (x % Size) /\ x \div Size \in Int /\ x % Size \in 0 .. Size - 1
  OBVIOUS
<1> QED BY <1>1 DEF Mask, Index

(* A remainder is determined by the number up to multiples of Size.        *)
LEMMA MaskUnique ==
  ASSUME NEW x \in Int, NEW q \in Int, NEW r \in Index, x = Size * q + r PROVE Mask(x) = r
<1>1. Size * q \in Int /\ r \in Int BY DEF Index
<1>2. PICK e \in Int, m \in Index : x = Size * e + m /\ Mask(x) = m BY DivMod
<1>3. Size * e \in Int /\ m \in 0 .. Size - 1 /\ r \in 0 .. Size - 1 BY DEF Index
<1>4. Size * (q - e) = Size * q - Size * e OBVIOUS
<1>5. Size * (q - e) = m - r BY <1>1, <1>2, <1>3, <1>4
<1>6. q - e = 0
  <2>1. m - r < Size /\ m - r > -Size BY <1>3
  <2> QED BY <1>5, <2>1, MulPositive, MulNegative
<1>7. Size * (q - e) = 0 BY <1>6
<1>8. m = r BY <1>3, <1>5, <1>7
<1> QED BY <1>2, <1>8

LEMMA WordIsMultiple == \E k \in Nat : k >= 1 /\ WordMod = Size * k
<1>1. PICK e \in Int, m \in Index : WordMod = Size * e + m /\ Mask(WordMod) = m
  <2>1. WordMod \in Int OBVIOUS
  <2> QED BY ONLY <2>1, DivMod
<1>2. WordMod = Size * e BY <1>1 DEF Mask, Index
<1>3. e >= 1 BY <1>2, MulNegative
<1> QED BY <1>2, <1>3

(* The difference of two indices, or that less one, in unsigned words.     *)
LEMMA MaskWord ==
  ASSUME NEW x \in -Size .. Size - 1
  PROVE  Mask(Word(x)) = IF x >= 0 THEN x ELSE IF x = -Size THEN 0 ELSE x + Size
<1>1. PICK k \in Nat : k >= 1 /\ WordMod = Size * k BY WordIsMultiple
<1>2. Size * k \in Nat /\ Size * k >= Size BY <1>1, MulPositive
<1>3. CASE x >= 0
  <2>1. Word(x) = x BY <1>1, <1>2, <1>3 DEF Word
  <2> QED BY <1>3, <2>1 DEF Mask
<1>4. CASE x < 0
  <2> DEFINE q == k - 1
             w == Word(x)
  <2>1. q \in Int /\ Size * q = Size * k - Size OBVIOUS
  <2>2. w = Size * k + x BY <1>1, <1>2, <1>4 DEF Word
  <2> HIDE DEF q, w
  <2>3. PICK r \in Index : r = (IF x = -Size THEN 0 ELSE x + Size)
    BY <1>4 DEF Index
  <2>4. CASE x # -Size
    <3>1. w = Size * q + r /\ w \in Int BY <1>2, <2>1, <2>2, <2>3, <2>4
    <3>2. Mask(w) = r BY ONLY <2>1, <3>1, MaskUnique
    <3> QED BY <1>4, <2>3, <2>4, <3>2 DEF w
  <2>5. CASE x = -Size
    <3>1. w = Size * q + r /\ w \in Int BY <1>2, <2>1, <2>2, <2>3, <2>5
    <3>2. Mask(w) = r BY ONLY <2>1, <3>1, MaskUnique
    <3> QED BY <1>4, <2>3, <2>5, <3>2 DEF w
  <2> QED BY <2>4, <2>5
<1> QED BY <1>3, <1>4

LEMMA MaskSum ==
  ASSUME NEW x \in 0 .. 2 * Size - 1
  PROVE  Mask(x) = (IF x >= Size THEN x - Size ELSE x) /\ Mask(x) \in Index
BY DEF Mask, Index

------------------------------------------------------------------------------
(* What the predicates and the count of the code mean, for any indices h   *)
(* (head) and t (tail) and any array d.                                    *)
LEMMA CountOf ==
  ASSUME NEW h \in Index, NEW t \in Index
  PROVE  /\ Mask(Word(h - t)) = IF h >= t THEN h - t ELSE h - t + Size
         /\ Mask(Word(h - t)) \in 0 .. Size - 1
<1>1. h - t \in -Size .. Size - 1 BY DEF Index
<1> QED BY <1>1, MaskWord DEF Index

LEMMA CountMeaning ==
  ASSUME head \in Index, tail \in Index
  PROVE  /\ Count = IF head >= tail THEN head - tail ELSE head - tail + Size
         /\ Count \in 0 .. Size - 1
         /\ IsEmpty <=> Count = 0
         /\ IsFull <=> Count = Size - 1
<1>1. /\ Count = IF head >= tail THEN head - tail ELSE head - tail + Size
      /\ Count \in 0 .. Size - 1
  BY CountOf DEF Count
<1>2. tail - head - 1 \in -Size .. Size - 1 BY DEF Index
<1>3. IsFull <=> (tail - head - 1 = 0 \/ tail - head - 1 = -Size)
  BY <1>2, MaskWord DEF IsFull, Index
<1> QED BY <1>1, <1>3 DEF IsEmpty, Index

LEMMA ContentsOf ==
  ASSUME NEW d \in [Index -> Bytes], NEW h \in Index, NEW t \in Index,
         NEW n, n = Mask(Word(h - t)),
         NEW c, c = [i \in 1 .. n |-> d[Mask(t + i - 1)]]
  PROVE  c \in Seq(Bytes) /\ Len(c) = n /\ n \in Nat
<1>1. n \in Nat /\ n <= Size - 1 BY CountOf
<1>2. \A i \in 1 .. n : Mask(t + i - 1) \in Index
  <2> TAKE i \in 1 .. n
  <2> DEFINE y == t + i - 1
  <2>1. y \in 0 .. 2 * Size - 1 BY <1>1 DEF Index
  <2> HIDE DEF y
  <2>2. Mask(y) \in Index BY <2>1, MaskSum
  <2> QED BY <2>2 DEF y
<1>3. \A i \in 1 .. n : d[Mask(t + i - 1)] \in Bytes BY <1>2
<1>4. c \in Seq(Bytes) BY <1>1, <1>3
<1>5. Len(c) = n BY <1>1
<1> QED BY <1>1, <1>4, <1>5

------------------------------------------------------------------------------
LEMMA RingInit == CBInit => CBTypeOK
BY DEF CBInit, CBTypeOK, Index

LEMMA RingStep == CBTypeOK /\ [CBNext]_cbvars => CBTypeOK'
<1> SUFFICES ASSUME CBTypeOK, [CBNext]_cbvars PROVE CBTypeOK' OBVIOUS
<1>1. ASSUME NEW x \in Index PROVE Mask(x + 1) \in Index BY MaskSum DEF Index
<1>2. CASE InitBuffer BY <1>2 DEF InitBuffer, CBTypeOK, Index
<1>3. CASE Pop BY <1>1, <1>3 DEF Pop, CBTypeOK
<1>4. ASSUME NEW e \in Bytes, Push(e) PROVE CBTypeOK' BY <1>1, <1>4 DEF Push, CBTypeOK
<1>5. CASE UNCHANGED cbvars BY <1>5 DEF cbvars, CBTypeOK
<1> QED BY <1>2, <1>3, <1>4, <1>5 DEF CBNext

(* head and tail stay inside the array, in every reachable state.          *)
THEOREM RingTypeCorrect == CBSpec => []CBTypeOK
BY RingInit, RingStep, PTL DEF CBSpec


LEMMA ContentsType ==
  ASSUME CBTypeOK PROVE Contents \in Seq(Bytes) /\ Len(Contents) = Count /\ Count \in Nat
BY ContentsOf DEF CBTypeOK, Contents, Count

LEMMA ContentsTypeNext ==
  ASSUME CBTypeOK' PROVE Contents' \in Seq(Bytes) /\ Len(Contents') = Count' /\ Count' \in Nat
BY ContentsOf DEF CBTypeOK, Contents, Count

(* The i-th slot from tail, for i up to Size, and whether it is head.      *)
LEMMA Slot ==
  ASSUME CBTypeOK, NEW i \in 1 .. Size
  PROVE  /\ Mask(tail + i - 1) = IF tail + i - 1 >= Size THEN tail + i - 1 - Size ELSE tail + i - 1
         /\ Mask(tail + i - 1) \in Index
         /\ Mask(tail + i - 1) = head <=> i = Count + 1
<1>1. tail + i - 1 \in 0 .. 2 * Size - 1 BY DEF CBTypeOK, Index
<1>2. /\ Mask(tail + i - 1) = IF tail + i - 1 >= Size THEN tail + i - 1 - Size ELSE tail + i - 1
      /\ Mask(tail + i - 1) \in Index
  <2> DEFINE y == tail + i - 1
  <2>1. y \in 0 .. 2 * Size - 1 BY <1>1
  <2> HIDE DEF y
  <2>2. Mask(y) = (IF y >= Size THEN y - Size ELSE y) /\ Mask(y) \in Index BY <2>1, MaskSum
  <2>3. tail \in Int /\ i \in Int BY DEF CBTypeOK, Index
  <2> QED BY <2>2, <2>3 DEF y
<1>3. Count = IF head >= tail THEN head - tail ELSE head - tail + Size
  BY CountMeaning DEF CBTypeOK
<1>4. Mask(tail + i - 1) = head <=> i = Count + 1 BY <1>2, <1>3 DEF CBTypeOK, Index
<1> QED BY <1>2, <1>4

(* A push that is not refused appends.                                     *)
LEMMA PushAppends ==
  ASSUME CBTypeOK, CBTypeOK', NEW e \in Bytes, ~IsFull,
         data' = [data EXCEPT ![head] = e], head' = Mask(head + 1), tail' = tail
  PROVE  Contents' = Append(Contents, e)
<1>1. Count' = Count + 1 /\ Count \in 0 .. Size - 2
  <2>1. head' = IF head = Size - 1 THEN 0 ELSE head + 1
    BY MaskSum DEF CBTypeOK, Index
  <2>2. /\ Count < Size - 1 /\ Count \in 0 .. Size - 1
        /\ Count = IF head >= tail THEN head - tail ELSE head - tail + Size
    BY CountMeaning DEF CBTypeOK
  <2>3. Count' = IF head' >= tail THEN head' - tail ELSE head' - tail + Size
    BY CountOf DEF CBTypeOK, Count
  <2> QED BY <2>1, <2>2, <2>3 DEF CBTypeOK, Index
<1>2. /\ Contents \in Seq(Bytes) /\ Len(Contents) = Count
      /\ Contents' \in Seq(Bytes) /\ Len(Contents') = Count'
  BY ContentsType, ContentsTypeNext
<1>3. \A i \in 1 .. Count + 1 : Contents'[i] = IF i = Count + 1 THEN e ELSE Contents[i]
  <2> TAKE i \in 1 .. Count + 1
  <2>1. Contents'[i] = data'[Mask(tail + i - 1)] BY <1>1 DEF Contents
  <2>2. Mask(tail + i - 1) \in Index /\ (Mask(tail + i - 1) = head <=> i = Count + 1)
    BY <1>1, Slot
  <2>3. i # Count + 1 => Contents[i] = data[Mask(tail + i - 1)] BY <1>1 DEF Contents
  <2> QED BY <2>1, <2>2, <2>3 DEF CBTypeOK
<1> DEFINE a == Append(Contents, e)
<1>4. /\ a \in Seq(Bytes) /\ Len(a) = Count + 1
      /\ \A i \in 1 .. Count + 1 : a[i] = IF i = Count + 1 THEN e ELSE Contents[i]
  BY <1>1, <1>2, AppendProperties
<1> HIDE DEF a
<1>5. Contents' = a BY <1>1, <1>2, <1>3, <1>4, SeqEqual
<1> QED BY <1>5 DEF a

(* A pop from a non-empty buffer takes the first element.                  *)
LEMMA PopTakesHead ==
  ASSUME CBTypeOK, CBTypeOK', ~IsEmpty, tail' = Mask(tail + 1), data' = data, head' = head
  PROVE  Contents # <<>> /\ Contents' = Tail(Contents) /\ Head(Contents) = data[tail]
<1>1. tail' = IF tail = Size - 1 THEN 0 ELSE tail + 1 BY MaskSum DEF CBTypeOK, Index
<1>2. Count' = Count - 1 /\ Count \in 1 .. Size - 1
  <2>1. /\ Count # 0 /\ Count \in 0 .. Size - 1
        /\ Count = IF head >= tail THEN head - tail ELSE head - tail + Size
    BY CountMeaning DEF CBTypeOK
  <2>2. Count' = IF head >= tail' THEN head - tail' ELSE head - tail' + Size
    BY CountOf DEF CBTypeOK, Count
  <2> QED BY <1>1, <2>1, <2>2 DEF CBTypeOK, Index
<1>3. /\ Contents \in Seq(Bytes) /\ Len(Contents) = Count /\ Contents # <<>>
      /\ Contents' \in Seq(Bytes) /\ Len(Contents') = Count'
  BY <1>2, ContentsType, ContentsTypeNext
<1>4. \A i \in 1 .. Count - 1 : Contents'[i] = Contents[i + 1]
  <2> TAKE i \in 1 .. Count - 1
  <2>1. Contents'[i] = data[Mask(tail' + i - 1)] BY <1>2 DEF Contents
  <2>2. Contents[i + 1] = data[Mask(tail + (i + 1) - 1)] BY <1>2 DEF Contents
  <2>3. tail' + i - 1 \in 0 .. 2 * Size - 1 /\ tail + (i + 1) - 1 \in 0 .. 2 * Size - 1
    BY <1>1, <1>2 DEF CBTypeOK, Index
  <2>4. Mask(tail' + i - 1) = Mask(tail + (i + 1) - 1)
    BY <1>1, <1>2, <2>3, MaskSum DEF CBTypeOK, Index
  <2> QED BY <2>1, <2>2, <2>4
<1>5. /\ Tail(Contents) \in Seq(Bytes) /\ Len(Tail(Contents)) = Count - 1
      /\ \A i \in 1 .. Count - 1 : Tail(Contents)[i] = Contents[i + 1]
  BY <1>3, HeadTailProperties
<1>6. Contents' = Tail(Contents) BY <1>2, <1>3, <1>4, <1>5, SeqEqual
<1>7. Head(Contents) = data[tail]
  <2>1. Head(Contents) = Contents[1] BY <1>3
  <2>2. Contents[1] = data[Mask(tail + 1 - 1)] BY <1>2 DEF Contents
  <2>3. Mask(tail + 1 - 1) = tail BY MaskSum DEF CBTypeOK, Index
  <2> QED BY <2>1, <2>2, <2>3
<1> QED BY <1>3, <1>6, <1>7

(* The ring buffer implements the bounded FIFO of Size - 1 characters, for *)
(* any power-of-two size: no character is lost, invented or reordered, a   *)
(* push is refused exactly when Size - 1 are waiting.                      *)
THEOREM RingImplementsFifo == CBSpec => ImplementsFifo
<1>1. CBInit => Fifo!Init
  <2> SUFFICES ASSUME CBInit PROVE Contents = <<>> /\ ret = 0 BY DEF Fifo!Init
  <2>1. CBTypeOK BY RingInit
  <2>2. Count = 0 BY <2>1, CountMeaning DEF CBInit, CBTypeOK
  <2>3. Contents \in Seq(Bytes) /\ Len(Contents) = 0 BY <2>1, <2>2, ContentsType
  <2> QED BY <2>3, EmptySeq DEF CBInit
<1>2. CBTypeOK /\ [CBNext]_cbvars => [Fifo!Next]_<<Contents, ret>>
  <2> SUFFICES ASSUME CBTypeOK, [CBNext]_cbvars PROVE Fifo!Next \/ UNCHANGED <<Contents, ret>>
    OBVIOUS
  <2>1. CBTypeOK' BY RingStep
  <2>2. Contents \in Seq(Bytes) /\ Len(Contents) = Count /\ Count \in Nat BY ContentsType
  <2>3. (IsFull <=> Count = Size - 1) /\ (IsEmpty <=> Count = 0) /\ Count \in 0 .. Size - 1
    BY CountMeaning DEF CBTypeOK
  <2>4. CASE InitBuffer
    <3>1. head' = tail' BY <2>4 DEF InitBuffer
    <3>2. Count' = 0 BY <2>1, <3>1, CountOf DEF Count, CBTypeOK, Index
    <3>3. Contents' = <<>> BY <2>1, <3>2, ContentsTypeNext, EmptySeq
    <3> QED BY <2>4, <3>3 DEF InitBuffer, Fifo!Next, Fifo!Clear
  <2>5. CASE Pop
    <3>1. CASE IsEmpty
      <4>1. Contents = <<>> BY <2>2, <2>3, <3>1, EmptySeq
      <4>2. Contents' = Contents /\ ret' = Failed
        BY <2>5, <3>1 DEF Pop, Contents, Count
      <4> QED BY <4>1, <4>2 DEF Fifo!Next, Fifo!Get
    <3>2. CASE ~IsEmpty
      <4>1. Contents # <<>> /\ Contents' = Tail(Contents) /\ Head(Contents) = data[tail]
        BY <2>1, <2>5, <3>2, PopTakesHead DEF Pop
      <4>2. ret' = data[tail] BY <2>5, <3>2 DEF Pop
      <4> QED BY <4>1, <4>2 DEF Fifo!Next, Fifo!Get
    <3> QED BY <3>1, <3>2
  <2>6. ASSUME NEW e \in Bytes, Push(e) PROVE Fifo!Next
    <3>1. CASE IsFull
      <4>1. Contents' = Contents /\ ret' = -1 BY <2>6, <3>1 DEF Push, Contents, Count
      <4> QED BY <2>2, <2>3, <3>1, <4>1 DEF Fifo!Next, Fifo!Put
    <3>2. CASE ~IsFull
      <4>1. Contents' = Append(Contents, e) /\ ret' = 0
        BY <2>1, <2>6, <3>2, PushAppends DEF Push
      <4>2. Len(Contents) < Size - 1 BY <2>2, <2>3, <3>2
      <4> QED BY <4>1, <4>2 DEF Fifo!Next, Fifo!Put
    <3> QED BY <3>1, <3>2
  <2>7. CASE UNCHANGED cbvars BY <2>7 DEF cbvars, Contents, Count
  <2> QED BY <2>4, <2>5, <2>6, <2>7 DEF CBNext
<1> QED BY <1>1, <1>2, RingTypeCorrect, PTL DEF CBSpec, ImplementsFifo, Fifo!Spec
=============================================================================
