------------------------------ MODULE Console -----------------------------
(***************************************************************************)
(* Console output: print_formatted of lib/base/stdio.h and direct system   *)
(* calls, composed of Format, Syscall and Screen, with screen_callback of  *)
(* core/drivers/screen.c, which reads its arguments from the caller's      *)
(* stack.  One context prints; Interrupts shows that nobody else enters    *)
(* the driver meanwhile.                                                   *)
(***************************************************************************)
EXTENDS Format, Syscall, Screen

CONSTANTS
  SystemCalls,  (* arguments of direct calls of int 48                     *)
  Strings,      (* pointers to constant strings, with what they point to   *)
  MaxCalls      (* calls, to bound the run                                 *)

(* Arguments that screen_callback reads for a call of a type. *)
ArgumentsRead(type) == CASE type = 1 -> 4 [] type = 2 -> 5 [] type = 4 -> 2 [] OTHER -> 1

(* Callers pass what the callback reads, an offset is a u_dword, and calls *)
(* of print_formatted are numbered from 1.                                 *)
ASSUME ConsoleAssumption ==
  /\ \A passed \in SystemCalls :
       /\ Len(passed) \in Nat /\ Len(passed) >= ArgumentsRead(passed[1])
       /\ passed[1] = 4 => passed[2] \in Nat
  /\ 0 \notin DOMAIN Requests

VARIABLES
  pc,       (* where the caller or the driver is                           *)
  call,     (* the arguments that the caller has passed                    *)
  i,        (* loop index of print_string_color                            *)
  ret,      (* ret_value of the last call                                  *)
  calls,    (* calls made                                                  *)
  served,   (* history: what the driver has returned                       *)
  asked     (* history: what the caller has asked of the screen last       *)

vars == <<formatVars, syscallVars, screenVars, pc, call, i, ret, calls, served, asked>>

Init ==
  /\ FormatInit /\ SyscallInit /\ ScreenInit
  /\ pc = "idle" /\ call = <<>> /\ i = 0
  /\ ret = 0 /\ calls = 0 /\ served = 0 /\ asked = [do |-> "nothing"]

(***************************************************************************)
(* The caller                                                              *)
(***************************************************************************)

PrintFormatted(r) ==
  /\ pc = "idle" /\ calls < MaxCalls
  /\ FormatBegin(r)
  /\ pc' = "format" /\ calls' = calls + 1
  /\ UNCHANGED <<syscallVars, screenVars, call, i, ret, served, asked>>

Formatting ==
  /\ pc = "format"
  /\ \/ (FormatChar \/ FormatPlaceholder \/ FormatPlain) /\ UNCHANGED pc
     \/ FormatEnd /\ pc' = "call"
  /\ UNCHANGED <<syscallVars, screenVars, call, i, ret, calls, served, asked>>

SET_CHARS == 2

(* call_system(48, 5, 2, formatted, font, back, 0); the array of arguments *)
(* is on the heap for a moment.                                            *)
PrintCall ==
  /\ pc = "call"
  /\ call' = <<SET_CHARS, "formatted", Requests[request].font, BLACK, 0>>
  /\ CallSystem(call')
  /\ HeapTraffic(replaced)
  /\ pc' = "callback"
  /\ UNCHANGED <<request, j, printed, argumentor, result, screenVars, i, ret,
                 calls, served, asked>>

SystemCall(passed) ==
  /\ pc = "idle" /\ calls < MaxCalls
  /\ call' = passed
  /\ CallSystem(passed)
  /\ HeapTraffic(replaced)
  /\ pc' = "callback" /\ calls' = calls + 1
  /\ UNCHANGED <<request, j, printed, argumentor, result, screenVars, i, ret, served, asked>>

Return ==
  /\ pc = "return"
  /\ ret' = ReturnedValue
  /\ SystemReturn
  /\ pc' = IF request = 0 THEN "idle" ELSE "free"
  /\ UNCHANGED <<formatVars, screenVars, call, i, calls, served, asked>>

Release ==
  /\ pc = "free"
  /\ FormatGone
  /\ pc' = "idle"
  /\ UNCHANGED <<syscallVars, screenVars, call, i, ret, calls, served, asked>>

(***************************************************************************)
(* screen_callback                                                         *)
(***************************************************************************)

Memory(pointer) == IF pointer = "formatted" THEN result ELSE Strings[pointer]

(* What a character, with its colours, asks of the screen. *)
AskedFor(c, font, back) ==
  [do   |-> CASE c = "newline" -> "newline" [] c = "backspace" -> "back"
              [] c = "tab" -> "tab" [] OTHER -> "put",
   cell |-> <<Shown(c), font, back>>]

PlaceOf(offset) == IF offset < Size THEN [row |-> offset \div Cols, col |-> offset % Cols]
                   ELSE [row |-> -1, col |-> -1]

Answer(value) == SystemPush(value) /\ served' = value /\ pc' = "return" /\ UNCHANGED <<ebp, args_num>>

Called(type) == pc = "callback" /\ system_get_arg(0) = type

GetChar ==
  /\ Called(0)
  /\ Answer(get_char)
  /\ UNCHANGED <<formatVars, screenVars, call, i, ret, calls, asked>>

SetChar ==
  /\ Called(1)
  /\ print_char_color(system_get_arg(1), system_get_arg(2), system_get_arg(3))
  /\ asked' = AskedFor(call[2], call[3], call[4])
  /\ Answer(0)
  /\ UNCHANGED <<formatVars, call, i, ret, calls>>

SetChars ==
  /\ Called(SET_CHARS)
  /\ pc' = "chars" /\ i' = 0
  /\ UNCHANGED <<formatVars, syscallVars, screenVars, call, ret, calls, served, asked>>

More == LET length == system_get_arg(4)
        IN  i < (IF length = 0 THEN Len(Memory(system_get_arg(1))) ELSE length)

(* Mutant: the index stays behind a backspace. *)
PrintCharStuck ==
  /\ pc = "chars" /\ More
  /\ print_char_color(Memory(system_get_arg(1))[i + 1], system_get_arg(2), system_get_arg(3))
  /\ asked' = AskedFor(Memory(call[2])[i + 1], call[3], call[4])
  /\ i' = IF asked'.do = "back" THEN i ELSE i + 1
  /\ UNCHANGED <<formatVars, syscallVars, pc, call, ret, calls, served>>

PrintChar ==
  /\ pc = "chars" /\ More
  /\ print_char_color(Memory(system_get_arg(1))[i + 1], system_get_arg(2), system_get_arg(3))
  /\ asked' = AskedFor(Memory(call[2])[i + 1], call[3], call[4])
  /\ i' = i + 1
  /\ UNCHANGED <<formatVars, syscallVars, pc, call, ret, calls, served>>

(* There is no break behind SET_CHARS: it returns the cursor. *)
CharsDone ==
  /\ pc = "chars" /\ ~More
  /\ Answer(cursor) /\ i' = 0
  /\ UNCHANGED <<formatVars, screenVars, call, ret, calls, asked>>

GetCursor ==
  /\ Called(3)
  /\ Answer(cursor)
  /\ UNCHANGED <<formatVars, screenVars, call, i, ret, calls, asked>>

SetCursor ==
  /\ Called(4)
  /\ set_cursor_offset(system_get_arg(1))
  /\ asked' = [do |-> "move", at |-> PlaceOf(call[2])]
  /\ Answer(0)
  /\ UNCHANGED <<formatVars, call, i, ret, calls>>

ClearScreen ==
  /\ Called(5)
  /\ clear_screen
  /\ asked' = [do |-> "clear"]
  /\ Answer(0)
  /\ UNCHANGED <<formatVars, call, i, ret, calls>>

UnknownCall ==
  /\ pc = "callback" /\ system_get_arg(0) \notin 0 .. 5
  /\ Answer(0)
  /\ UNCHANGED <<formatVars, screenVars, call, i, ret, calls, asked>>

(***************************************************************************)
(* Specification                                                           *)
(***************************************************************************)

Callback == \/ GetChar \/ SetChar \/ SetChars \/ PrintChar \/ CharsDone
            \/ GetCursor \/ SetCursor \/ ClearScreen \/ UnknownCall

Step == Formatting \/ PrintCall \/ Callback \/ Return \/ Release

(* The bound on calls is reached. *)
Rest == pc = "idle" /\ calls = MaxCalls /\ UNCHANGED vars

Next == \/ Step
        \/ \E k \in DOMAIN Requests : PrintFormatted(k)
        \/ \E passed \in SystemCalls : SystemCall(passed)
        \/ Rest

Spec == Init /\ [][Next]_vars

(* The CPU executes; callers need not call.  This is WF_vars(Step): as no   *)
(* reachable state is a deadlock, Step is enabled wherever pc is not idle.  *)
FairSpec == Spec /\ ([]<>(pc = "idle") \/ []<><<Step>>_vars)

(***************************************************************************)
(* Properties                                                              *)
(***************************************************************************)

T == INSTANCE Terminal WITH
       rows <- [r \in 0 .. Rows - 1 |-> [c \in 0 .. Cols - 1 |-> vm[r * Cols + c]]],
       head <- PlaceOf(cursor)

(* Whatever is printed appears on the screen as on a terminal, in the      *)
(* colours asked for, with wrapped lines, tabs and scrolling, and the      *)
(* cursor is behind it: the offset arithmetic of print_char_color and      *)
(* scroll, fed through the stack, implements Terminal.                     *)
ImplementsTerminal == T!Spec

(* A cursor that was moved off the screen, by SET_CURSOR or by a backspace *)
(* at the first cell, is not lost: printing never moves it further away.   *)
OffScreenReturns == [][(pc = "chars" /\ cursor >= Size) => cursor' < cursor]_cursor

(* While the cursor is on the screen the driver writes outside the text    *)
(* buffer in two cases only: a tab in the last cells writes at most three  *)
(* cells behind it, and a backspace at the first cell the one in front.    *)
WritesNearBuffer ==
  [][cursor < Size => \A cell \in outside' \ outside :
       \/ asked'.do = "tab" /\ cell \in Size .. Size + 2
       \/ asked'.do = "back" /\ cursor = 0 /\ cell = -1]_screenVars

(* A call leaves the caller's stack and frame pointer as they were and no  *)
(* block on the heap, and with one argument call_system_ret returns what   *)
(* the driver has returned.                                                *)
CallLeavesNoTrace ==
  /\ pc = "idle" => stack = <<"caller">> /\ ebp = 1 /\ blocks = 0
  /\ pc = "idle" /\ args_num = 1 => ret = served

(* The formatted text is the template with its placeholders replaced, each *)
(* by its own argument: percent signs that start no placeholder, adjacent  *)
(* placeholders and the two dwords of a double included.                   *)
TemplateExpanded ==
  pc \in {"call", "callback", "chars", "return", "free"} /\ request # 0 =>
    result = Expansion(template, args)

(* Numbers read back, in every base and at both ends of the range, and so  *)
(* do floats whose whole part is not 0 and whose fraction has no leading   *)
(* zero.                                                                   *)
NumbersReadBack ==
  \A n \in Placeholders(template) :
    LET kind == template[n + 1]
        arg  == args[Ordinal(template, n)]
    IN  /\ kind = "d" => ReadsBack(arg, 10)
        /\ kind = "h" => ReadsBack(arg, 16)
        /\ kind = "b" => ReadsBack(arg, 2)
        /\ kind = "f" /\ arg.whole > 0 /\ arg.fraction >= mult(10)[AfterComma - 1] =>
             FloatReadsBack(arg)

(* However long the template, printing never holds more than four blocks:  *)
(* what a print needs of a nearly full heap does not grow.                 *)
FootprintBounded == peak <= 4

(* Every call returns. *)
CallsReturn == pc # "idle" ~> pc = "idle"
============================================================================
