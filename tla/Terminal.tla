------------------------------ MODULE Terminal ----------------------------
(***************************************************************************)
(* What a text screen promises to those who print on it: Rows rows of Cols *)
(* cells and a head that is at a cell.  A character is written where the   *)
(* head is, the head moves on, and behind the last row the rows move up.   *)
(* A head that a caller has moved off the screen promises nothing until it *)
(* is back.  asked is what was asked for last, and by it the rows and the  *)
(* head must be what they are.                                             *)
(***************************************************************************)
EXTENDS Integers

CONSTANTS Rows, Cols, Blank

VARIABLES rows, head, asked

terminalVars == <<rows, head, asked>>

BlankRow == [c \in 0 .. Cols - 1 |-> Blank]
Empty == [r \in 0 .. Rows - 1 |-> BlankRow]
At(r, c) == [row |-> r, col |-> c]
Home == At(0, 0)
Off  == At(-1, -1)

Init == rows = Empty /\ head = Home /\ asked = [do |-> "nothing"]

(* The head comes to a place that may be behind its row or behind the last *)
(* row, when the rows are text.                                            *)
Settle(text, at) ==
  LET next == IF at.col >= Cols THEN At(at.row + 1, at.col - Cols) ELSE at
      up   == next.row = Rows
  IN  /\ rows' = IF up THEN [r \in DOMAIN rows |-> IF r = Rows - 1 THEN BlankRow ELSE text[r + 1]]
                 ELSE text
      /\ head' = IF up THEN [next EXCEPT !.row = Rows - 1] ELSE next

Put == Settle([rows EXCEPT ![head.row][head.col] = asked'.cell], At(head.row, head.col + 1))

NewLine == Settle(rows, At(head.row + 1, 0))

(* Four cells, some of them perhaps on the next row. *)
Tab ==
  LET behind(r, c) == (r - head.row) * Cols + c - head.col
  IN  Settle([r \in DOMAIN rows |-> [c \in 0 .. Cols - 1 |->
                IF behind(r, c) \in 0 .. 3 THEN asked'.cell ELSE rows[r][c]]],
             At(head.row, head.col + 4))

(* The cell in front of the head is blanked, and the head is there.  There *)
(* is none in front of the first.                                          *)
Back ==
  IF head = Home THEN head' = Off
  ELSE LET to == IF head.col > 0 THEN At(head.row, head.col - 1) ELSE At(head.row - 1, Cols - 1)
       IN  rows' = [rows EXCEPT ![to.row][to.col] = asked'.cell] /\ head' = to

Write ==
  CASE asked'.do = "put"     -> Put
    [] asked'.do = "newline" -> NewLine
    [] asked'.do = "tab"     -> Tab
    [] asked'.do = "back"    -> Back
    [] OTHER                 -> FALSE

Move == asked'.do = "move" /\ head' = asked'.at /\ UNCHANGED rows

Clear == asked'.do = "clear" /\ head' = Home /\ rows' = Empty

Next == (head # Off /\ Write) \/ head = Off \/ Move \/ Clear

Spec == Init /\ [][Next]_terminalVars
============================================================================
