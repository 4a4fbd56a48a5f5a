---------------------------- MODULE ConsoleProofs ----------------------------
(***************************************************************************)
(* Proofs about Console, for every size of the screen, of printk's buffer  *)
(* and of a byte, all texts and all messages.                              *)
(***************************************************************************)
EXTENDS Console, SequenceTheorems, TLAPS

LEMMA Sizes ==
  /\ Columns \in Nat \ {0} /\ Lines \in Nat \ {0} /\ Byte \in Nat \ {0}
  /\ BufferSize \in Nat
BY ScreenAssumption, TextAssumption

USE Sizes

(* Where print_c is before its end-of-line test; outside it the column is  *)
(* on the screen.  A row read for ++csr_y is at most the last: handlers    *)
(* stop there too.                                                         *)
Ranges ==
  /\ csr_x = Columns => pc \in {"fillTest", "wrapTest", "home"}
  /\ pc = "columnStore" => r \in 0 .. Columns - 1
  /\ pc = "rowLoad" => csr_y < Lines
  /\ pc = "rowStore" => r \in 0 .. Lines - 1
  /\ ax < Columns

(* While a text is formatted, ptr is at most a message further than the    *)
(* text, and so is the old value in the register.                          *)
Ahead(n) == \E m \in Messages \cup {<<>>} : n <= Len(m) + i
Fits ==
  /\ ptr < BufferSize /\ (pc # "idle" => ptr >= 0)
  /\ pc = "format" => Ahead(ptr) /\ i <= Len(text)
  /\ pc = "advance" => Ahead(ptr) /\ Ahead(r) /\ r >= 0 /\ i < Len(text)
  /\ pc = "append" => Ahead(ptr - 1) /\ Ahead(r) /\ r >= 0 /\ i < Len(text)
  /\ pc = "terminate" => r \in 0 .. BufferSize - 1
  /\ pc = "fetch" => i < BufferSize
  /\ pc \in {"format", "advance", "append"} => text \in Texts

Inv == TypeOK /\ Ranges /\ Fits

LEMMA ByteType ==
  ASSUME NEW x \in Int, NEW y \in Int
  PROVE  /\ Position(x, y) \in Int
         /\ LowByte(Position(x, y)) \in 0 .. Byte - 1
         /\ HighByte(Position(x, y)) \in 0 .. Byte - 1
<1>1. Position(x, y) \in Int BY DEF Position
<1>2. \A p \in Int : LowByte(p) \in 0 .. Byte - 1 BY DEF LowByte
<1>3. \A p \in Int : p \div Byte \in Int OBVIOUS
<1>4. \A p \in Int : HighByte(p) \in 0 .. Byte - 1 BY <1>3 DEF HighByte
<1> QED BY <1>1, <1>2, <1>4

(* The length of what fits is that of the texts together.                  *)
LEMMA AheadFits ==
  ASSUME TypeOK, text \in Texts, NEW n \in Int, Ahead(n), i <= Len(text)
  PROVE  n < BufferSize /\ n <= BufferSize - 1 - Len(text) + i
<1>1. PICK m \in Messages \cup {<<>>} : n <= Len(m) + i BY DEF Ahead
<1>2. Len(text) + Len(m) < BufferSize BY TextAssumption
<1>3. Len(text) \in Nat /\ Len(m) \in Nat /\ i \in Nat /\ BufferSize \in Nat
  BY TextAssumption DEF TypeOK
<1> QED BY <1>1, <1>2, <1>3

LEMMA InitInv == Init => Inv
<1> SUFFICES ASSUME Init PROVE Inv OBVIOUS
<1>1. <<>> \in Seq(Char) OBVIOUS
<1>2. buffer \in [0 .. BufferSize - 1 -> Char \cup {Nul}] BY DEF Init
<1>3. torn \in BOOLEAN /\ echo \in Seq(Char) BY <1>1 DEF Init
<1>4. /\ csr_x \in 0 .. Columns /\ csr_y \in 0 .. Lines
      /\ low \in 0 .. Byte - 1 /\ high \in 0 .. Byte - 1
      /\ ptr \in Int /\ i \in Nat /\ r \in Int
      /\ ax \in 0 .. Columns /\ ay \in 0 .. Lines
  BY DEF Init
<1>5. TypeOK BY <1>2, <1>3, <1>4 DEF Init, TypeOK, Labels
<1> QED BY <1>5 DEF Init, Inv, Ranges, Fits

LEMMA CursorSet ==
  ASSUME NEW x \in Int, NEW y \in Int, SetCursor(x, y)
  PROVE  /\ csr_x' = x /\ csr_y' = y /\ index' \in {CursorLow, CursorHigh}
         /\ low' \in 0 .. Byte - 1 /\ high' \in 0 .. Byte - 1
<1>1. /\ LowByte(Position(x, y)) \in 0 .. Byte - 1
      /\ HighByte(Position(x, y)) \in 0 .. Byte - 1
  BY ByteType
<1> QED BY <1>1 DEF SetCursor

(* A character printed by a handler leaves the cursor on its line or one   *)
(* line from it, and never takes it off the screen.                        *)
LEMMA HandlerCursor ==
  ASSUME TypeOK, NEW c \in Char, HandlerPrintC(c)
  PROVE  /\ csr_x' \in 0 .. Columns - 1 /\ csr_y' \in 0 .. Lines
         /\ csr_y < Lines => csr_y' < Lines
         /\ index' \in {CursorLow, CursorHigh}
         /\ low' \in 0 .. Byte - 1 /\ high' \in 0 .. Byte - 1
<1> USE DEF TypeOK
<1>1. CASE AtOrigin(c) BY <1>1 DEF HandlerPrintC, AtOrigin, cursor, crtc
<1>2. CASE ~AtOrigin(c)
  <2>1. Column(c) \in 0 .. Columns + 1 /\ Row(c) \in 0 .. Lines
    <3>1. CASE c = "backspace"
      <4>1. Column(c) = (IF csr_x = 0 THEN Columns - 1 ELSE csr_x - 1)
        BY <3>1 DEF Column
      <4>2. Row(c) = IF csr_x = 0 THEN csr_y - 1 ELSE csr_y BY <3>1 DEF Row
      <4>3. csr_x = 0 => csr_y # 0 BY <1>2, <3>1 DEF AtOrigin
      <4> QED BY <4>1, <4>2, <4>3
    <3>2. CASE c = "return"
      <4>1. Column(c) = 0 /\ Row(c) = csr_y BY <3>2 DEF Column, Row
      <4> QED BY <4>1
    <3>3. CASE c = "newline" BY <3>3 DEF Column, Row
    <3>4. CASE c = "plain" BY <3>4 DEF Column, Row
    <3> QED BY <3>1, <3>2, <3>3, <3>4 DEF Char
  <2>2. Row(c) <= csr_y BY DEF Row
  <2>3. CASE Column(c) >= Columns
    <3>1. NextRow(Row(c)) \in 0 .. Lines /\ (csr_y < Lines => NextRow(Row(c)) < Lines)
      BY <2>1, <2>2 DEF NextRow
    <3>2. SetCursor(0, NextRow(Row(c))) BY <1>2, <2>3 DEF HandlerPrintC
    <3> QED BY <3>1, <3>2, CursorSet
  <2>4. CASE ~(Column(c) >= Columns)
    <3>1. SetCursor(Column(c), Row(c)) BY <1>2, <2>4 DEF HandlerPrintC
    <3>2. Column(c) \in 0 .. Columns - 1 BY <2>1, <2>4
    <3> QED BY <2>1, <2>2, <3>1, <3>2, CursorSet
  <2> QED BY <2>3, <2>4
<1> QED BY <1>1, <1>2

(* What each action does to types, column and row.                        *)
LEMMA StepTypes == ASSUME Inv, [Next]_vars PROVE TypeOK' /\ Ranges'
<1> USE DEF Inv, cursor, crtc, statics, locals, Step, Load
<1>1. ASSUME NEW t \in Texts, Printk(t) PROVE TypeOK' /\ Ranges'
  BY <1>1 DEF Printk, ResetPtr, TypeOK, Ranges, Labels
<1>2. CASE FormatLoad
  BY <1>2 DEF TypeOK, Ranges, Fits, Labels, FormatLoad
<1>3. CASE FormatAdvance
  BY <1>3 DEF TypeOK, Ranges, Fits, Labels, FormatAdvance
<1>4. CASE FormatAppend
  <2>1. text[i + 1] \in Char
    <3>1. text \in Seq({"plain", "newline"}) /\ i + 1 \in 1 .. Len(text)
      BY <1>4, TextAssumption DEF TypeOK, Fits, FormatAppend
    <3> QED BY <3>1 DEF Char
  <2>2. buffer' \in [0 .. BufferSize - 1 -> Char \cup {Nul}]
    BY <1>4, <2>1 DEF TypeOK, FormatAppend
  <2> QED BY <1>4, <2>2 DEF TypeOK, Ranges, Labels, FormatAppend
<1>5. CASE FormatEnd
  BY <1>5 DEF TypeOK, Ranges, Fits, Labels, FormatEnd
<1>6. CASE PrintTest
  BY <1>6 DEF TypeOK, Ranges, Fits, Labels, PrintTest
<1>7. CASE Fetch
  BY <1>7 DEF TypeOK, Ranges, Fits, Labels, Fetch
<1>8. CASE FillTest
  BY <1>8 DEF TypeOK, Ranges, Fits, Labels, FillTest
<1>9. CASE ColumnLoad
  BY <1>9 DEF TypeOK, Ranges, Fits, Labels, ColumnLoad
<1>10. CASE ColumnStore
  BY <1>10 DEF TypeOK, Ranges, Fits, Labels, ColumnStore
<1>11. CASE WrapTest
  BY <1>11 DEF TypeOK, Ranges, Fits, Labels, WrapTest
<1>12. CASE Home
  BY <1>12 DEF TypeOK, Ranges, Fits, Labels, Home
<1>13. CASE RowTest
  BY <1>13 DEF TypeOK, Ranges, Fits, Labels, RowTest, NextRow
<1>14. CASE RowLoad
  BY <1>14 DEF TypeOK, Ranges, Fits, Labels, RowLoad
<1>15. CASE RowStore
  BY <1>15 DEF TypeOK, Ranges, Fits, Labels, RowStore
<1>16. CASE ArgumentY
  BY <1>16 DEF TypeOK, Ranges, Fits, Labels, ArgumentY
<1>17. CASE ArgumentX
  BY <1>17 DEF TypeOK, Ranges, Fits, Labels, ArgumentX
<1>18. CASE SetX
  BY <1>18 DEF TypeOK, Ranges, Fits, Labels, SetX
<1>19. CASE SetY
  BY <1>19 DEF TypeOK, Ranges, Fits, Labels, SetY
<1>20. CASE PositionY
  BY <1>20 DEF TypeOK, Ranges, Fits, Labels, PositionY
<1>21. CASE PositionX
  BY <1>21, ByteType DEF TypeOK, Ranges, Labels, PositionX
<1>22. CASE Select("selectLow", "writeLow", CursorLow)
  BY <1>22 DEF TypeOK, Ranges, Labels, Select
<1>23. CASE Select("selectHigh", "writeHigh", CursorHigh)
  BY <1>23 DEF TypeOK, Ranges, Labels, Select
<1>24. \A p \in Int : LowByte(p) \in 0 .. Byte - 1 /\ HighByte(p) \in 0 .. Byte - 1
  <2>1. \A p \in Int : p \div Byte \in Int OBVIOUS
  <2> QED BY <2>1 DEF LowByte, HighByte
<1>25. CASE WriteLow
  BY <1>24, <1>25 DEF TypeOK, Ranges, Labels, WriteLow, WriteSelected
<1>26. CASE WriteHigh
  <2>1. HighByte(r) \in 0 .. Byte - 1 BY <1>24 DEF TypeOK
  <2>2. low' \in 0 .. Byte - 1 /\ high' \in 0 .. Byte - 1
    BY <1>26, <2>1 DEF TypeOK, WriteHigh, WriteSelected
  <2> QED BY <1>26, <2>2 DEF TypeOK, Ranges, Labels, WriteHigh
<1>27. CASE TimerInterrupt
  <2>1. torn' \in BOOLEAN BY <1>27 DEF TimerInterrupt, TypeOK
  <2>2. SetCursor(csr_x, csr_y) BY <1>27 DEF TimerInterrupt, RestoreCursor
  <2>3. UNCHANGED <<statics, pc, locals, echo>> BY <1>27 DEF TimerInterrupt
  <2>4. csr_x \in Int /\ csr_y \in Int BY DEF TypeOK
  <2>5. /\ csr_x' = csr_x /\ csr_y' = csr_y /\ index' \in {CursorLow, CursorHigh}
        /\ low' \in 0 .. Byte - 1 /\ high' \in 0 .. Byte - 1
    BY <2>2, <2>4, CursorSet
  <2>6. Ranges' BY <2>3, <2>5 DEF Ranges
  <2>7. TypeOK' BY <2>1, <2>3, <2>5 DEF TypeOK
  <2> QED BY <2>6, <2>7
<1>28. CASE KeyInterrupt
  <2>1. Echoes \subseteq Seq(Char) BY DEF Echoes, Char
  <2> QED BY <1>28, <2>1 DEF TypeOK, Ranges, Labels, KeyInterrupt
<1>29. CASE HandlerPrints
  <2>1. Head(echo) \in Char /\ Tail(echo) \in Seq(Char)
    BY <1>29, HeadTailProperties DEF TypeOK, HandlerPrints
  <2>2. torn' \in BOOLEAN
    <3>1. torn' = torn \/ torn' = InSetCursor BY <1>29 DEF HandlerPrints
    <3>2. InSetCursor \in BOOLEAN BY DEF InSetCursor
    <3> QED BY <3>1, <3>2 DEF TypeOK
  <2> QED BY <1>29, <2>1, <2>2, HandlerCursor DEF TypeOK, Ranges, Labels, HandlerPrints
<1>30. ASSUME NEW m \in Messages, MessageInterrupt(m) PROVE TypeOK' /\ Ranges'
  <2>1. m \in Seq({"plain", "newline"}) BY TextAssumption
  <2>2. \A n \in 0 .. BufferSize - 1 : n < Len(m) => m[n + 1] \in Char
    BY <2>1 DEF Char
  <2>3. buffer' \in [0 .. BufferSize - 1 -> Char \cup {Nul}]
    BY <1>30, <2>2 DEF MessageInterrupt, TypeOK
  <2>4. m \in Seq(Char) /\ Len(m) \in Int BY <2>1 DEF Char
  <2> QED BY <1>30, <2>3, <2>4 DEF TypeOK, Ranges, Labels, MessageInterrupt
<1>31. CASE UNCHANGED vars BY <1>31 DEF TypeOK, Ranges, vars
<1> QED
  BY <1>1, <1>2, <1>3, <1>4, <1>5, <1>6, <1>7, <1>8, <1>9, <1>10, <1>11, <1>12, <1>13, <1>14, <1>15, <1>16, <1>17, <1>18, <1>19, <1>20, <1>21, <1>22, <1>23,
     <1>25, <1>26, <1>27, <1>28, <1>29, <1>30, <1>31 DEF Next, TaskStep

(* What each action does to the text being formatted.                      *)
LEMMA StepFits == ASSUME Inv, [Next]_vars PROVE Fits'
<1> USE DEF Inv, TypeOK, cursor, crtc, statics, locals, Step, Load
<1>1. ASSUME NEW t \in Texts, Printk(t) PROVE Fits'
  <2>1. t \in Seq({"plain", "newline"}) BY TextAssumption
  <2>2. <<>> \in Messages \cup {<<>>} /\ Len(<<>>) = 0 /\ Len(t) \in Nat BY <2>1
  <2>3. 0 < BufferSize BY <2>1, TextAssumption
  <2>4. Ahead(ptr)' BY <1>1, <2>2 DEF Ahead, Printk, ResetPtr
  <2> QED BY <1>1, <2>2, <2>3, <2>4 DEF Printk, ResetPtr, Fits
<1>2. CASE FormatLoad
  BY <1>2, AheadFits, TextAssumption DEF Fits, FormatLoad, Ahead
<1>3. CASE FormatAdvance
  BY <1>3, AheadFits, TextAssumption DEF Fits, FormatAdvance, Ahead
<1>4. CASE FormatAppend
  BY <1>4, AheadFits, TextAssumption DEF Fits, FormatAppend, Ahead
<1>5. CASE FormatEnd
  BY <1>5, AheadFits DEF Fits, FormatEnd
<1>6. CASE PrintTest
  BY <1>6 DEF Fits, PrintTest
<1>7. CASE Fetch
  BY <1>7 DEF Fits, Fetch
<1>8. CASE FillTest
  BY <1>8 DEF Fits, FillTest
<1>9. CASE ColumnLoad
  BY <1>9 DEF Fits, ColumnLoad
<1>10. CASE ColumnStore
  BY <1>10 DEF Fits, ColumnStore
<1>11. CASE WrapTest
  BY <1>11 DEF Fits, WrapTest
<1>12. CASE Home
  BY <1>12 DEF Fits, Home
<1>13. CASE RowTest
  BY <1>13 DEF Fits, RowTest
<1>14. CASE RowLoad
  BY <1>14 DEF Fits, RowLoad
<1>15. CASE RowStore
  BY <1>15 DEF Fits, RowStore
<1>16. CASE ArgumentY
  BY <1>16 DEF Fits, ArgumentY
<1>17. CASE ArgumentX
  BY <1>17 DEF Fits, ArgumentX
<1>18. CASE SetX
  BY <1>18 DEF Fits, SetX
<1>19. CASE SetY
  BY <1>19 DEF Fits, SetY
<1>20. CASE PositionY
  BY <1>20 DEF Fits, PositionY
<1>21. CASE PositionX
  BY <1>21 DEF Fits, PositionX
<1>22. CASE Select("selectLow", "writeLow", CursorLow)
  BY <1>22 DEF Fits, Select
<1>23. CASE Select("selectHigh", "writeHigh", CursorHigh)
  BY <1>23 DEF Fits, Select
<1>24. CASE WriteLow BY <1>24 DEF Fits, WriteLow
<1>25. CASE WriteHigh BY <1>25 DEF Fits, WriteHigh
<1>26. CASE TimerInterrupt BY <1>26 DEF Fits, Ahead, TimerInterrupt
<1>27. CASE KeyInterrupt BY <1>27 DEF Fits, Ahead, KeyInterrupt
<1>28. CASE HandlerPrints BY <1>28 DEF Fits, Ahead, HandlerPrints
<1>29. ASSUME NEW m \in Messages, MessageInterrupt(m) PROVE Fits'
  <2>1. m \in Seq({"plain", "newline"}) /\ Len(m) \in Nat BY TextAssumption
  <2>2. Ahead(ptr)' /\ Ahead(ptr - 1)'
    BY <1>29, <2>1 DEF Ahead, MessageInterrupt
  <2>3. Len(<<>>) + Len(m) < BufferSize /\ Len(<<>>) = 0 BY TextAssumption
  <2>4. Ahead(r) => Ahead(r)' BY <1>29 DEF Ahead, MessageInterrupt
  <2>5. ptr' \in 0 .. BufferSize - 1 BY <1>29, <2>1, <2>3 DEF MessageInterrupt
  <2> QED BY <1>29, <2>2, <2>4, <2>5 DEF Fits, MessageInterrupt
<1>30. CASE UNCHANGED vars BY <1>30 DEF Fits, Ahead, vars
<1> QED
  BY <1>1, <1>2, <1>3, <1>4, <1>5, <1>6, <1>7, <1>8, <1>9, <1>10, <1>11, <1>12, <1>13, <1>14, <1>15, <1>16, <1>17, <1>18, <1>19, <1>20, <1>21, <1>22, <1>23, <1>24, <1>25, <1>26, <1>27, <1>28, <1>29, <1>30 DEF Next, TaskStep

(* What the controller shows, and how far set_cursor has got with it.      *)
LowShown == low = LowByte(Position(csr_x, csr_y))
HighShown == high = HighByte(Position(csr_x, csr_y))
Shows ==
  /\ pc = "writeHigh" => index = CursorHigh
  /\ ~torn =>
       /\ pc \in {"idle", "format", "advance", "append", "terminate", "printTest", "fetch"}
            => LowShown /\ HighShown
       /\ pc \in {"argX", "setX", "setY"} => ay = csr_y
       /\ pc = "setX" => ax = csr_x
       /\ pc = "posX" => r = csr_y
       /\ pc \in {"selectLow", "writeLow", "selectHigh", "writeHigh"}
            => r = Position(csr_x, csr_y)
       /\ pc = "writeLow" => index = CursorLow \/ LowShown
       /\ pc \in {"selectHigh", "writeHigh"} => LowShown

LEMMA StepShows == ASSUME Inv, Shows, [Next]_vars PROVE Shows'
<1> USE DEF cursor, crtc, statics, locals, Step, Load, LowShown, HighShown,
            CursorLow, CursorHigh
<1>1. ASSUME NEW t \in Texts, Printk(t) PROVE Shows'
  BY <1>1 DEF Printk, Shows
<1>2. CASE FormatLoad BY <1>2 DEF Shows, FormatLoad
<1>3. CASE FormatAdvance BY <1>3 DEF Shows, FormatAdvance
<1>4. CASE FormatAppend BY <1>4 DEF Shows, FormatAppend
<1>5. CASE FormatEnd BY <1>5 DEF Shows, FormatEnd
<1>6. CASE PrintTest BY <1>6 DEF Shows, PrintTest
<1>7. CASE Fetch BY <1>7 DEF Shows, Fetch
<1>8. CASE FillTest BY <1>8 DEF Shows, FillTest
<1>9. CASE ColumnLoad BY <1>9 DEF Shows, ColumnLoad
<1>10. CASE ColumnStore BY <1>10 DEF Shows, ColumnStore
<1>11. CASE WrapTest BY <1>11 DEF Shows, WrapTest
<1>12. CASE Home BY <1>12 DEF Shows, Home
<1>13. CASE RowTest BY <1>13 DEF Shows, RowTest
<1>14. CASE RowLoad BY <1>14 DEF Shows, RowLoad
<1>15. CASE RowStore BY <1>15 DEF Shows, RowStore
<1>16. CASE ArgumentY BY <1>16 DEF Shows, ArgumentY
<1>17. CASE ArgumentX BY <1>17 DEF Shows, ArgumentX
<1>18. CASE SetX BY <1>18 DEF Shows, SetX
<1>19. CASE SetY BY <1>19 DEF Shows, SetY
<1>20. CASE PositionY BY <1>20 DEF Shows, PositionY
<1>21. CASE PositionX BY <1>21 DEF Shows, PositionX
<1>22. CASE Select("selectLow", "writeLow", CursorLow)
  BY <1>22 DEF Shows, Select
<1>23. CASE Select("selectHigh", "writeHigh", CursorHigh)
  BY <1>23 DEF Shows, Select
<1>24. CASE WriteLow BY <1>24 DEF Shows, WriteLow, WriteSelected
<1>25. CASE WriteHigh BY <1>25 DEF Shows, WriteHigh, WriteSelected
<1>26. CASE TimerInterrupt
  BY <1>26 DEF Shows, TimerInterrupt, RestoreCursor, SetCursor, InSetCursor
<1>27. CASE KeyInterrupt BY <1>27 DEF Shows, KeyInterrupt
<1>28. CASE HandlerPrints
  <2>1. CASE AtOrigin(Head(echo))
    BY <1>28, <2>1 DEF Shows, HandlerPrints, HandlerPrintC
  <2>2. CASE ~AtOrigin(Head(echo))
    <3>1. PICK x, y : SetCursor(x, y)
      BY <1>28, <2>2 DEF HandlerPrints, HandlerPrintC
    <3>2. LowShown' /\ HighShown' /\ index' = CursorHigh BY <3>1 DEF SetCursor
    <3>3. torn' = InSetCursor /\ pc' = pc BY <1>28, <2>2 DEF HandlerPrints
    <3> QED BY <3>2, <3>3 DEF Shows, InSetCursor
  <2> QED BY <2>1, <2>2
<1>29. ASSUME NEW m \in Messages, MessageInterrupt(m) PROVE Shows'
  BY <1>29 DEF Shows, MessageInterrupt
<1>30. CASE UNCHANGED vars BY <1>30 DEF Shows, vars
<1> QED
  BY <1>1, <1>2, <1>3, <1>4, <1>5, <1>6, <1>7, <1>8, <1>9, <1>10, <1>11, <1>12, <1>13, <1>14, <1>15, <1>16, <1>17, <1>18, <1>19, <1>20, <1>21, <1>22, <1>23, <1>24, <1>25, <1>26, <1>27, <1>28, <1>29, <1>30 DEF Next, TaskStep

LEMMA InitShows == Init => Shows
<1> SUFFICES ASSUME Init PROVE Shows OBVIOUS
<1>1. Position(0, 0) = 0 BY DEF Position
<1>2. LowByte(0) = 0 /\ HighByte(0) = 0
  <2>1. 0 % Byte = 0 /\ 0 \div Byte = 0 OBVIOUS
  <2> QED BY <2>1 DEF LowByte, HighByte
<1> QED BY <1>1, <1>2 DEF Init, Shows, LowShown, HighShown

LEMMA Invariant == Spec => [](Inv /\ Shows)
<1>1. Init => Inv /\ Shows BY InitInv, InitShows
<1>2. Inv /\ Shows /\ [Next]_vars => Inv' /\ Shows'
  BY StepTypes, StepFits, StepShows DEF Inv
<1> QED BY <1>1, <1>2, PTL DEF Spec

(* Whatever interrupts print_c, and wherever, the cursor leaves the screen *)
(* by at most one line.                                                    *)
THEOREM TypeCorrect == Spec => []TypeOK
<1>1. Inv => TypeOK BY DEF Inv
<1> QED BY <1>1, Invariant, PTL

(* printk stays within its buffer although handlers print into it.         *)
THEOREM TextAlwaysFits == Spec => []TextFits
<1>1. Inv => TextFits
  <2> SUFFICES ASSUME Inv PROVE TextFits OBVIOUS
  <2> USE DEF Inv, Fits, TypeOK
  <2>1. CASE pc = "append"
    <3>1. r < BufferSize BY <2>1, AheadFits
    <3> QED BY <2>1, <3>1 DEF TextFits
  <2>2. CASE pc # "append" BY <2>2 DEF TextFits
  <2> QED BY <2>1, <2>2
<1> QED BY <1>1, Invariant, PTL

(* A cursor shown in the wrong place was torn by a handler that printed.   *)
THEOREM CursorAlwaysShown == Spec => []CursorShown
<1>1. Shows => CursorShown BY DEF Shows, CursorShown, LowShown, HighShown
<1> QED BY <1>1, Invariant, PTL
=============================================================================
