------------------------------- MODULE Screen --------------------------------
(***************************************************************************)
(* What a text screen promises: a window of Lines * Columns cells that is  *)
(* written from left to right and top to bottom and moves down by a line   *)
(* when it is full.                                                        *)
(***************************************************************************)
EXTENDS Integers

CONSTANTS Columns, Lines, TabWidth, Glyph, Blank

VARIABLES cell, at   \* the window, the cell that is written next

Size == Lines * Columns
LineStart(p) == p - (p % Columns)

(* Blanks up to cell p, which is then the next; a full window moves.       *)
Shown(new, p) ==
  LET up == IF p = Size THEN Columns ELSE 0 IN
  /\ at' = p - up
  /\ cell' = [n \in 0 .. Size - 1 |-> IF n + up < Size THEN new[n + up] ELSE Blank]

BlankTo(p) == Shown([n \in 0 .. Size - 1 |-> IF n \in at .. p - 1 THEN Blank ELSE cell[n]], p)

Put(g) == Shown([cell EXCEPT ![at] = g], at + 1)
NewLine == BlankTo(LineStart(at) + Columns)
Tab == \E p \in at + 1 .. LineStart(at) + Columns :
         /\ (p % Columns) % TabWidth = 0
         /\ \A q \in at + 1 .. p - 1 : (q % Columns) % TabWidth # 0
         /\ BlankTo(p)
Return == at' = LineStart(at) /\ UNCHANGED cell
Erase == at > 0 /\ at' = at - 1 /\ cell' = [cell EXCEPT ![at - 1] = Blank]

Init == cell = [n \in 0 .. Size - 1 |-> Blank] /\ at = 0
Next == NewLine \/ Tab \/ Return \/ Erase \/ \E g \in Glyph : Put(g)
Spec == Init /\ [][Next]_<<cell, at>>
=============================================================================
