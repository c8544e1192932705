------------------------------ MODULE Screen ------------------------------
(***************************************************************************)
(* The screen driver core/drivers/screen.c.  The text buffer is a function *)
(* from cells to <<character, text colour, back colour>>; offsets count    *)
(* cells, half of the code's byte offsets, and wrap at Half = 2^31.  The   *)
(* cursor is kept in two byte registers of the display controller.  The    *)
(* driver runs inside an interrupt gate, so a character is one step.       *)
(***************************************************************************)
EXTENDS Integers

CONSTANTS
  Rows, Cols,   (* ROWS_NUM and COLS_NUM                                   *)
  CursorRange,  (* values of the cursor registers: 2^16                    *)
  Half          (* cells that a u_dword byte offset can address: 2^31      *)

ASSUME ScreenAssumption ==
  /\ Rows \in Nat \ {0} /\ Cols \in Nat /\ Cols > 4
  /\ CursorRange \in Nat /\ CursorRange > Rows * Cols + Cols
  /\ Half \in Nat /\ Half > CursorRange + Cols + 1 /\ Half % CursorRange = 0

VARIABLES
  vm,       (* the text buffer                                             *)
  cursor,   (* the display controller's cursor                             *)
  outside   (* history: cells outside the buffer that were written to,     *)
            (* counted from its start                                      *)

screenVars == <<vm, cursor, outside>>

Size == Rows * Cols
BLACK == 0
LIGHT_GRAY == 7
Blank == <<" ", LIGHT_GRAY, BLACK>>

ScreenInit ==
  /\ vm = [cell \in 0 .. Size - 1 |-> Blank] /\ cursor = 0 /\ outside = {}

(* A pointer in front of the buffer is a large offset. *)
CellOf(offset) == IF offset > CursorRange + Cols THEN offset - Half ELSE offset

(* Mutant: an offset behind the screen is kept. *)
ScrollNever(offset, text) == <<offset, text>>

(* The rows move up by one, however far the offset is behind the screen. *)
Scroll(offset, text) ==
  IF offset < Size THEN <<offset, text>>
  ELSE <<offset - Cols, [cell \in DOMAIN text |->
                          IF cell < Size - Cols THEN text[cell + Cols] ELSE Blank]>>

(* Mutant: a tab writes one cell too many. *)
EffectWideTab(c) ==
  CASE c = "newline"   -> [cells |-> {}, next |-> Cols * (cursor \div Cols + 1)]
    [] c = "backspace" -> [cells |-> {(cursor - 1) % Half}, next |-> (cursor - 1) % Half]
    [] c = "tab"       -> [cells |-> cursor .. cursor + 4, next |-> cursor + 4]
    [] OTHER           -> [cells |-> {cursor}, next |-> cursor + 1]

(* The cells that a character writes and the offset behind it. *)
Effect(c) ==
  CASE c = "newline"   -> [cells |-> {}, next |-> Cols * (cursor \div Cols + 1)]
    [] c = "backspace" -> [cells |-> {(cursor - 1) % Half}, next |-> (cursor - 1) % Half]
    [] c = "tab"       -> [cells |-> cursor .. cursor + 3, next |-> cursor + 4]
    [] OTHER           -> [cells |-> {cursor}, next |-> cursor + 1]

Shown(c) == IF c \in {"backspace", "tab"} THEN " " ELSE c

(* Mutant: the colours change places. *)
PaintedSwapped(c, cells, text_color, back_color) ==
  [cell \in DOMAIN vm |->
    IF cell \in cells THEN <<Shown(c), back_color, text_color>> ELSE vm[cell]]

Painted(c, cells, text_color, back_color) ==
  [cell \in DOMAIN vm |->
    IF cell \in cells THEN <<Shown(c), text_color, back_color>> ELSE vm[cell]]

print_char_color(c, text_color, back_color) ==
  LET effect == Effect(c)
      after  == Scroll(effect.next, Painted(c, effect.cells, text_color, back_color))
  IN  /\ vm' = after[2] /\ cursor' = after[1] % CursorRange
      /\ outside' = outside \cup ({CellOf(cell) : cell \in effect.cells} \ DOMAIN vm)

(* No check: the offset is cut to the registers. *)
set_cursor_offset(offset) == cursor' = offset % CursorRange /\ UNCHANGED <<vm, outside>>

clear_screen ==
  /\ vm' = [cell \in DOMAIN vm |-> Blank] /\ cursor' = 0
  /\ UNCHANGED outside

(* get_char is only called for row 0, column 0.  Its result is a blank's   *)
(* code or another.                                                        *)
get_char == IF vm[0][1] = " " THEN 32 ELSE 33
============================================================================
