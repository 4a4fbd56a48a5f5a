------------------------------ MODULE Terminal -------------------------------
(***************************************************************************)
(* From a key to the screen: the keyboard handler (kernel/keyboard.c), the *)
(* line discipline (kernel/tty.c) and print_c with what it writes to video *)
(* memory (kernel/console.c).  Handlers run with interrupts disabled; the  *)
(* kernel's own characters are printed here between interrupts.  What      *)
(* happens when one comes in the middle of them is in module Console.      *)
(*                                                                         *)
(* The tty's two cyclic buffers are sequences, as TerminalProofs allows    *)
(* (RingImplementsFifo); they hold two characters at most.  A cell is its  *)
(* character: attributes are left out.                                     *)
(***************************************************************************)
EXTENDS Integers, Sequences

CONSTANTS
  Columns, Lines, TabWidth,
  Keys,                 \* the keys of the keyboard,
  keytable,             \* ... their types,
  kbdus, shift_kbdus,   \* ... and what they mean, without and with shift
  Glyph                 \* the characters from 32 on

Blank == "blank"
Control == {"newline", "return", "tab", "backspace", "other"}
Char == Glyph \cup Control
Modifier == {"KM_LSHIFT", "KM_CTRL", "KM_ALT"}
KeyType == {"KT_NORMAL", "KT_LSHIFT", "KT_RSHIFT", "KT_LCTRL", "KT_ALT", "KT_NONE"}

ASSUME SizeAssumption == {Columns, Lines, TabWidth} \subseteq Nat \ {0}
ASSUME CharAssumption == Control \cap Glyph = {} /\ Blank \notin Char
ASSUME KeyAssumption ==
  /\ keytable \in [Keys -> KeyType]
  /\ kbdus \in [Keys -> Char] /\ shift_kbdus \in [Keys -> Char]
  /\ \A j, k \in Keys : keytable[j] = "KT_LSHIFT" /\ keytable[k] = "KT_LSHIFT" => j = k

VARIABLES
  key_mode,             \* the modifiers that do_kb believes are down
  read_queue, write_queue,
  char_count,           \* tty_write's local
  stage,                \* where the handler is; "idle" outside it
  csr_x, csr_y, vram,   \* the console
  held,                 \* history: the modifier keys that are down
  right,                \* ... a right shift was pressed since the last
                        \*     release of a left one
  last, shown           \* ... the key being handled, what it has printed

keyboard == <<key_mode, held, right>>
queues == <<read_queue, write_queue>>
console == <<csr_x, csr_y, vram>>
vars == <<keyboard, queues, char_count, stage, console, last, shown>>

NoKey == [key |-> "none", shift |-> FALSE]
Cells == 0 .. Lines * Columns - 1

(* clear_screen and set_cursor(0, 0).                                      *)
Init ==
  /\ key_mode = {} /\ held = {} /\ right = FALSE
  /\ read_queue = <<>> /\ write_queue = <<>> /\ char_count = 0
  /\ stage = "idle" /\ last = NoKey /\ shown = <<>>
  /\ csr_x = 0 /\ csr_y = 0 /\ vram = [n \in Cells |-> Blank]
-----------------------------------------------------------------------------
(* print_c.  The cells it writes, from dest on, and where it puts csr_x.   *)
dest == csr_y * Columns + csr_x

TabStopUncapped == csr_x + TabWidth - (csr_x % TabWidth)
TabStop == IF TabStopUncapped < Columns THEN TabStopUncapped ELSE Columns

BlanksTo(x) ==
  [n \in Cells |-> IF n \in dest .. dest + (x - csr_x) - 1 THEN Blank ELSE vram[n]]

Wrote(c) ==
  CASE c = "return" -> vram
    [] c = "newline" -> BlanksTo(Columns)
    [] c = "tab" -> BlanksTo(TabStop)
    [] c = "backspace" -> [vram EXCEPT ![dest - 1] = Blank]
    [] OTHER -> [vram EXCEPT ![dest] = c]

Column(c) ==
  CASE c = "return" -> 0
    [] c = "newline" -> Columns
    [] c = "tab" -> TabStop
    [] c = "backspace" -> IF csr_x = 0 THEN Columns - 1 ELSE csr_x - 1
    [] OTHER -> csr_x + 1

ScrolledDown(v) ==
  [n \in Cells |-> IF n + Columns \in Cells THEN v[n + Columns] ELSE Blank]

LastRowLate == csr_y >= Lines
LastRow == csr_y >= Lines - 1
PrintC(c) ==
  IF c = "backspace" /\ csr_x = 0 /\ csr_y = 0 THEN UNCHANGED console
  ELSE IF Column(c) < Columns
  THEN /\ csr_x' = Column(c)
       /\ csr_y' = IF c = "backspace" /\ csr_x = 0 THEN csr_y - 1 ELSE csr_y
       /\ vram' = Wrote(c)
  ELSE /\ csr_x' = 0
       /\ IF LastRow
          THEN csr_y' = csr_y /\ vram' = ScrolledDown(Wrote(c))
          ELSE csr_y' = csr_y + 1 /\ vram' = Wrote(c)

(* printk, between interrupts; no text of the kernel has other characters. *)
KernelPrints(c) ==
  /\ stage = "idle"
  /\ PrintC(c)
  /\ UNCHANGED <<keyboard, queues, char_count, stage, last, shown>>
-----------------------------------------------------------------------------
(* do_kb.  A release clears the modifier; that of a right shift has no     *)
(* case.                                                                   *)
ReleasedNothing(type) == {}
Released(type) ==
  CASE type = "KT_LSHIFT" -> {"KM_LSHIFT"}
    [] type = "KT_LCTRL" -> {"KM_CTRL"}
    [] type = "KT_ALT" -> {"KM_ALT"}
    [] OTHER -> {}

KeyUp(k) ==
  /\ stage = "idle"
  /\ k \in held
  /\ key_mode' = key_mode \ Released(keytable[k])
  /\ held' = held \ {k}
  /\ right' = (right /\ keytable[k] # "KT_LSHIFT")
  /\ UNCHANGED <<queues, char_count, stage, console, last, shown>>

Pressed(type) ==
  CASE type \in {"KT_LSHIFT", "KT_RSHIFT"} -> {"KM_LSHIFT"}
    [] type = "KT_LCTRL" -> {"KM_CTRL"}
    [] type = "KT_ALT" -> {"KM_ALT"}
    [] OTHER -> {}

ModifierDown(k) ==
  /\ stage = "idle"
  /\ keytable[k] # "KT_NORMAL"
  /\ key_mode' = key_mode \cup Pressed(keytable[k])
  /\ held' = held \cup {k}
  /\ right' = (right \/ keytable[k] = "KT_RSHIFT")
  /\ UNCHANGED <<queues, char_count, stage, console, last, shown>>

Meaning(k) == IF "KM_LSHIFT" \in key_mode THEN shift_kbdus[k] ELSE kbdus[k]

LeftShiftHeld == \E k \in held : keytable[k] = "KT_LSHIFT"

(* A key that stands for a character; it repeats while it is down.         *)
KeyDown(k) ==
  /\ stage = "idle"
  /\ keytable[k] = "KT_NORMAL"
  /\ read_queue' = Append(read_queue, Meaning(k))
  /\ stage' = "parse"
  /\ last' = [key |-> k, shift |-> LeftShiftHeld] /\ shown' = <<>>
  /\ UNCHANGED <<keyboard, write_queue, char_count, console>>

(* parse_key, with c_iflag 0 and ECHO set: what it pushes for a character. *)
Echo(c) ==
  CASE c = "newline" -> <<"newline", "return">>
    [] c \in Glyph \cup {"backspace"} -> <<c>>
    [] OTHER -> <<>>

ParseKey ==
  /\ stage = "parse" /\ read_queue # <<>>
  /\ read_queue' = Tail(read_queue)
  /\ write_queue' = write_queue \o Echo(Head(read_queue))
  /\ char_count' = Len(write_queue')          \* tty_write
  /\ stage' = "write"
  /\ UNCHANGED <<keyboard, console, last, shown>>

(* while (char_count--) print_c(cb_pop(&tty->write_queue), ...)            *)
RemainingAfterFirst(n) == n > 1
Remaining(n) == n > 0
WriteChar ==
  /\ stage = "write" /\ Remaining(char_count)
  /\ PrintC(Head(write_queue))
  /\ write_queue' = Tail(write_queue) /\ char_count' = char_count - 1
  /\ shown' = Append(shown, Head(write_queue))
  /\ UNCHANGED <<keyboard, read_queue, stage, last>>

WriteDone ==
  /\ stage = "write" /\ ~Remaining(char_count)
  /\ stage' = "parse"
  /\ UNCHANGED <<keyboard, queues, char_count, console, last, shown>>

KeyDone ==
  /\ stage = "parse" /\ read_queue = <<>>
  /\ stage' = "idle" /\ char_count' = 0 /\ last' = NoKey /\ shown' = <<>>
  /\ UNCHANGED <<keyboard, queues, console>>

Next ==
  \/ \E c \in Char \ {"other"} : KernelPrints(c)
  \/ \E k \in Keys : KeyUp(k) \/ ModifierDown(k) \/ KeyDown(k)
  \/ ParseKey \/ WriteChar \/ WriteDone \/ KeyDone

Spec == Init /\ [][Next]_vars
-----------------------------------------------------------------------------
(* Types, and the cursor on the screen.                                    *)
TypeOK ==
  /\ key_mode \subseteq Modifier /\ held \subseteq Keys /\ right \in BOOLEAN
  /\ read_queue \in Seq(Char) /\ write_queue \in Seq(Char)
  /\ char_count \in Nat /\ stage \in {"idle", "parse", "write"}
  /\ csr_x \in 0 .. Columns - 1 /\ csr_y \in 0 .. Lines - 1
  /\ vram \in [Cells -> Char \cup {Blank}]

(* When the handler is through, the key has printed what is on it - the    *)
(* upper character if and only if a left shift is down - and Enter a       *)
(* newline and a return, in this order; nothing is left for the next key.  *)
(* The right shift is excepted: do_kb does not see it come up again.       *)
EchoOfKey ==
  stage = "parse" /\ read_queue = <<>> =>
    /\ write_queue = <<>>
    /\ ~right =>
         shown = Echo(IF last.shift THEN shift_kbdus[last.key] ELSE kbdus[last.key])

(* A modifier that do_kb believes is down has a key that is down, but for  *)
(* the right shift.                                                        *)
ModifiersHeld ==
  \A m \in key_mode :
    \/ \E k \in held : m \in Pressed(keytable[k])
    \/ m = "KM_LSHIFT" /\ right

(* The console is a window on a text, and csr_x, csr_y are a place in it.  *)
Window == INSTANCE Screen WITH cell <- vram, at <- dest
ImplementsScreen == Window!Spec
=============================================================================
