------------------------------- MODULE Console -------------------------------
(***************************************************************************)
(* The cursor and the CRT controller's copy of it (kernel/console.c), the  *)
(* static buffer of printk (kernel/printk.c), and the interrupts that come *)
(* while a task prints: the timer saves and restores the cursor, the       *)
(* keyboard echoes characters, other handlers print a message.             *)
(*                                                                         *)
(* Handlers run with interrupts disabled (set_intr_gate) and are not       *)
(* interrupted; the task is, between any two of its accesses to csr_x,     *)
(* csr_y, ptr, buffer and the controller, in the order gcc -O0 makes them. *)
(* What is in video memory is in module Terminal.                          *)
(***************************************************************************)
EXTENDS Integers, Sequences

CONSTANTS
  Columns, Lines,    \* of the screen: COLUMNS, LINES
  Byte,              \* values of a byte of the controller's registers: 256
  Texts,             \* what the task's printk may print
  Messages,          \* what printk may print in handlers
  BufferSize         \* sizeof buffer

Char == {"plain", "newline", "return", "backspace"}
Nul == "nul"

ASSUME ScreenAssumption ==
  {Columns, Lines, Byte} \subseteq Nat \ {0}
ASSUME TextAssumption ==
  /\ Texts \cup Messages \subseteq Seq({"plain", "newline"})
  /\ BufferSize \in Nat
  /\ \A t \in Texts \cup {<<>>}, m \in Messages \cup {<<>>} : Len(t) + Len(m) < BufferSize

VARIABLES
  csr_x, csr_y,        \* the cursor
  index, low, high,    \* the controller: selected register, cursor position
  buffer, ptr,         \* printk's statics
  pc, text, i, ch, r,  \* the task: next access, fmt, locals, a register
  ax, ay,              \* ... the arguments of set_cursor
  echo,                \* what the interrupt handler has yet to print
  torn                 \* history: a handler moved the cursor in set_cursor

cursor == <<csr_x, csr_y>>
crtc == <<index, low, high>>
statics == <<buffer, ptr>>
locals == <<text, i, ch, r, ax, ay>>
vars == <<cursor, crtc, statics, pc, locals, echo, torn>>

CursorLow == 15    \* the controller's registers 0x0f and 0x0e
CursorHigh == 14

Position(x, y) == y * Columns + x
LowByte(p) == p % Byte
HighByte(p) == (p \div Byte) % Byte

(* console_init ends with the cursor at home.                              *)
Init ==
  /\ csr_x = 0 /\ csr_y = 0
  /\ index = CursorHigh /\ low = 0 /\ high = 0
  /\ buffer = [n \in 0 .. BufferSize - 1 |-> Nul] /\ ptr = -1
  /\ pc = "idle" /\ text = <<>> /\ i = 0 /\ ch = Nul
  /\ r = 0 /\ ax = 0 /\ ay = 0
  /\ echo = <<>> /\ torn = FALSE
-----------------------------------------------------------------------------
(* set_cursor, run by a handler.                                           *)
SetCursor(x, y) ==
  /\ csr_x' = x /\ csr_y' = y
  /\ index' = CursorHigh
  /\ low' = LowByte(Position(x, y)) /\ high' = HighByte(Position(x, y))

(* print_c: the column that the character leads to, and the row.           *)
Column(c) ==
  CASE c = "return" -> 0
    [] c = "newline" -> Columns
    [] c = "backspace" -> IF csr_x = 0 THEN Columns - 1 ELSE csr_x - 1
    [] OTHER -> csr_x + 1
Row(c) == IF c = "backspace" /\ csr_x = 0 THEN csr_y - 1 ELSE csr_y

NextRowTooFar(y) == IF y <= Lines - 1 THEN y + 1 ELSE y
NextRow(y) == IF y < Lines - 1 THEN y + 1 ELSE y

AtOrigin(c) == c = "backspace" /\ csr_x = 0 /\ csr_y = 0   \* returns at once
HandlerPrintC(c) ==
  IF AtOrigin(c) THEN UNCHANGED <<cursor, crtc>>
  ELSE IF Column(c) >= Columns THEN SetCursor(0, NextRow(Row(c)))
  ELSE SetCursor(Column(c), Row(c))

InSetCursor ==
  pc \in {"argX", "setX", "setY", "posY", "posX", "selectLow", "writeLow",
          "selectHigh", "writeHigh"}

(* do_timer: get_cursor, set_cursor(71, 24) near the lower right corner,   *)
(* of which nothing is left after set_cursor back.                         *)
ForgetCursor == SetCursor(Columns - 1, Lines - 1)
RestoreCursor == SetCursor(csr_x, csr_y)
TimerInterrupt ==
  /\ echo = <<>>
  /\ RestoreCursor
  /\ torn' = (torn /\ InSetCursor)
  /\ UNCHANGED <<statics, pc, locals, echo>>

(* do_kb, parse_key and tty_write: the echo of a key.                      *)
Echoes == {<<"plain">>, <<"newline", "return">>, <<"backspace">>}
KeyInterrupt ==
  /\ echo = <<>>
  /\ echo' \in Echoes
  /\ UNCHANGED <<cursor, crtc, statics, pc, locals, torn>>

(* A handler that calls printk, such as hd_interrupt: it formats ...       *)
MessageInterrupt(m) ==
  /\ echo = <<>>
  /\ ptr' = Len(m)
  /\ buffer' = [n \in DOMAIN buffer |->
                  IF n < Len(m) THEN m[n + 1] ELSE IF n = Len(m) THEN Nul ELSE buffer[n]]
  /\ echo' = m
  /\ UNCHANGED <<cursor, crtc, pc, locals, torn>>

(* ... and prints, character by character.                                 *)
HandlerPrints ==
  /\ echo # <<>>
  /\ HandlerPrintC(Head(echo))
  /\ echo' = Tail(echo)
  /\ torn' = IF AtOrigin(Head(echo)) THEN torn ELSE InSetCursor
  /\ UNCHANGED <<statics, pc, locals>>
-----------------------------------------------------------------------------
(* The task's access at pc = from, then the one at to.                     *)
Step(from, to) == echo = <<>> /\ pc = from /\ pc' = to
Load(v) == r' = v /\ UNCHANGED <<text, i, ch, ax, ay>>

KeepPtr == UNCHANGED ptr
ResetPtr == ptr' = 0
Printk(t) ==
  /\ Step("idle", "format")
  /\ ResetPtr
  /\ text' = t /\ i' = 0
  /\ UNCHANGED <<cursor, crtc, buffer, ch, r, ax, ay, torn, echo>>

(* buffer[ptr++] = fmt[i], or = '\0' after the last: the value of ptr is   *)
(* loaded, ptr stored, the buffer written at the old value.                *)
FormatLoad ==
  /\ Step("format", IF i < Len(text) THEN "advance" ELSE "terminate")
  /\ Load(ptr)
  /\ UNCHANGED <<cursor, crtc, statics, echo, torn>>

FormatAdvance ==
  /\ Step("advance", "append")
  /\ ptr' = r + 1
  /\ UNCHANGED <<cursor, crtc, buffer, locals, echo, torn>>

FormatAppend ==
  /\ Step("append", "format")
  /\ buffer' = [buffer EXCEPT ![r] = text[i + 1]]
  /\ i' = i + 1 /\ r' = 0
  /\ UNCHANGED <<cursor, crtc, ptr, text, ch, ax, ay, echo, torn>>

FormatEnd ==
  /\ Step("terminate", "printTest")
  /\ buffer' = [buffer EXCEPT ![r] = Nul]
  /\ i' = 0 /\ r' = 0 /\ text' = <<>>
  /\ UNCHANGED <<cursor, crtc, ptr, ch, ax, ay, echo, torn>>

(* for (i = 0; i < ptr; ++i) print_c(buffer[i])                            *)
PrintTest ==
  /\ Step("printTest", IF i < ptr THEN "fetch" ELSE "idle")
  /\ i' = IF i < ptr THEN i ELSE 0
  /\ UNCHANGED <<cursor, crtc, statics, text, ch, r, ax, ay, echo, torn>>

Fetch ==
  /\ Step("fetch", IF buffer[i] = "newline" THEN "fillTest" ELSE "columnLoad")
  /\ ch' = buffer[i]
  /\ UNCHANGED <<cursor, crtc, statics, text, i, r, ax, ay, echo, torn>>
-----------------------------------------------------------------------------
(* print_c of a newline: for (; csr_x < COLUMNS; ++csr_x).                 *)
FillTest ==
  /\ Step("fillTest", IF csr_x < Columns THEN "columnLoad" ELSE "wrapTest")
  /\ UNCHANGED <<cursor, crtc, statics, locals, echo, torn>>

(* ++csr_x, of the loop or of a plain character.                           *)
ColumnLoad ==
  /\ Step("columnLoad", "columnStore")
  /\ Load(csr_x)
  /\ UNCHANGED <<cursor, crtc, statics, echo, torn>>

ColumnStore ==
  /\ Step("columnStore", IF ch = "newline" THEN "fillTest" ELSE "wrapTest")
  /\ csr_x' = r + 1 /\ r' = 0
  /\ UNCHANGED <<csr_y, crtc, statics, text, i, ch, ax, ay, echo, torn>>

(* The end of the line: csr_x = 0, then ++csr_y or scroll_down.            *)
WrapTest ==
  /\ Step("wrapTest", IF csr_x >= Columns THEN "home" ELSE "argY")
  /\ ch' = Nul
  /\ UNCHANGED <<cursor, crtc, statics, text, i, r, ax, ay, echo, torn>>

Home ==
  /\ Step("home", "rowTest")
  /\ csr_x' = 0
  /\ UNCHANGED <<csr_y, crtc, statics, locals, echo, torn>>

RowTest ==
  /\ Step("rowTest", IF NextRow(csr_y) = csr_y THEN "argY" ELSE "rowLoad")
  /\ UNCHANGED <<cursor, crtc, statics, locals, echo, torn>>

RowLoad ==
  /\ Step("rowLoad", "rowStore")
  /\ Load(csr_y)
  /\ UNCHANGED <<cursor, crtc, statics, echo, torn>>

RowStore ==
  /\ Step("rowStore", "argY")
  /\ csr_y' = r + 1 /\ r' = 0
  /\ UNCHANGED <<csr_x, crtc, statics, text, i, ch, ax, ay, echo, torn>>

(* set_cursor(csr_x, csr_y): the arguments, the cursor, position, which    *)
(* needs the cursor again, and two registers of the controller.            *)
ArgumentY ==
  /\ Step("argY", "argX")
  /\ ay' = csr_y /\ torn' = FALSE
  /\ UNCHANGED <<cursor, crtc, statics, text, i, ch, r, ax, echo>>

ArgumentX ==
  /\ Step("argX", "setX")
  /\ ax' = csr_x
  /\ UNCHANGED <<cursor, crtc, statics, text, i, ch, r, ay, echo, torn>>

SetX ==
  /\ Step("setX", "setY")
  /\ csr_x' = ax /\ ax' = 0
  /\ UNCHANGED <<csr_y, crtc, statics, text, i, ch, r, ay, echo, torn>>

SetY ==
  /\ Step("setY", "posY")
  /\ csr_y' = ay /\ ay' = 0
  /\ UNCHANGED <<csr_x, crtc, statics, text, i, ch, r, ax, echo, torn>>

PositionY ==
  /\ Step("posY", "posX")
  /\ Load(csr_y)
  /\ UNCHANGED <<cursor, crtc, statics, echo, torn>>

PositionX ==
  /\ Step("posX", "selectLow")
  /\ Load(Position(csr_x, r))
  /\ UNCHANGED <<cursor, crtc, statics, echo, torn>>

Select(from, to, register) ==
  /\ Step(from, to)
  /\ index' = register
  /\ UNCHANGED <<cursor, low, high, statics, locals, echo, torn>>

(* outb(v, 0x3d5): to the register selected, by whomever.                  *)
WriteSelected(v) ==
  IF index = CursorLow THEN low' = v /\ high' = high ELSE high' = v /\ low' = low

WriteLow ==
  /\ Step("writeLow", "selectHigh")
  /\ WriteSelected(LowByte(r))
  /\ UNCHANGED <<cursor, index, statics, locals, echo, torn>>

WriteHigh ==
  /\ Step("writeHigh", "printTest")
  /\ WriteSelected(HighByte(r))
  /\ r' = 0 /\ i' = i + 1
  /\ UNCHANGED <<cursor, index, statics, text, ch, ax, ay, echo, torn>>

TaskStep ==
  \/ \E t \in Texts : Printk(t)
  \/ FormatLoad \/ FormatAdvance \/ FormatAppend \/ FormatEnd
  \/ PrintTest \/ Fetch
  \/ FillTest \/ ColumnLoad \/ ColumnStore \/ WrapTest \/ Home
  \/ RowTest \/ RowLoad \/ RowStore
  \/ ArgumentY \/ ArgumentX \/ SetX \/ SetY \/ PositionY \/ PositionX
  \/ Select("selectLow", "writeLow", CursorLow) \/ WriteLow
  \/ Select("selectHigh", "writeHigh", CursorHigh) \/ WriteHigh

Next ==
  \/ TaskStep
  \/ TimerInterrupt \/ KeyInterrupt \/ HandlerPrints
  \/ \E m \in Messages : MessageInterrupt(m)

Spec == Init /\ [][Next]_vars
-----------------------------------------------------------------------------
Labels ==
  {"idle", "format", "advance", "append", "terminate", "printTest", "fetch",
   "fillTest", "columnLoad", "columnStore", "wrapTest", "home", "rowTest",
   "rowLoad", "rowStore", "argY"} \cup
  {"argX", "setX", "setY", "posY", "posX", "selectLow", "writeLow",
   "selectHigh", "writeHigh"}

(* Types and ranges.  The cursor leaves the screen by at most one line,    *)
(* whatever comes between the accesses of print_c.                         *)
TypeOK ==
  /\ csr_x \in 0 .. Columns /\ csr_y \in 0 .. Lines
  /\ index \in {CursorLow, CursorHigh}
  /\ low \in 0 .. Byte - 1 /\ high \in 0 .. Byte - 1
  /\ buffer \in [0 .. BufferSize - 1 -> Char \cup {Nul}] /\ ptr \in Int
  /\ pc \in Labels /\ text \in Texts \cup {<<>>} /\ i \in Nat
  /\ ch \in Char \cup {Nul} /\ r \in Int
  /\ ax \in 0 .. Columns /\ ay \in 0 .. Lines
  /\ echo \in Seq(Char) /\ torn \in BOOLEAN

(* A text that a handler's message interrupts, at any of its accesses to   *)
(* ptr, still ends within the buffer.                                      *)
TextFits ==
  /\ ptr < BufferSize
  /\ pc \in {"append", "terminate"} => r \in 0 .. BufferSize - 1

(* Between two characters the screen shows the cursor where it is, unless  *)
(* a handler printed while the task was inside set_cursor, and then at the *)
(* latest from the next tick or echo on.  Ticks alone never do harm.       *)
CursorShown ==
  ~torn /\ pc \in {"idle", "format", "printTest"} =>
    low = LowByte(Position(csr_x, csr_y)) /\ high = HighByte(Position(csr_x, csr_y))
=============================================================================
