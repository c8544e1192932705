--------------------------- MODULE ConsoleProofs --------------------------
(***************************************************************************)
(* Proofs about console output, for screens, registers, texts and calls of *)
(* every size.                                                             *)
(***************************************************************************)
EXTENDS Console, FormatProofs

Calling == pc \in {"callback", "chars", "return"}

(* The caller's stack while a call is served: the arguments, the last one  *)
(* lowest, between the saved registers and the saved frame pointer; when   *)
(* the driver has answered, its answer is in the place of argument 0.      *)
Framed ==
  LET n == Len(call)
  IN  /\ n \in Nat /\ n >= ArgumentsRead(call[1])
      /\ call[1] = 4 => call[2] \in Nat
      /\ args_num = n /\ ebp = n + 3
      /\ stack = [k \in 1 .. n + 3 |-> stack[k]]
      /\ stack[1] = "caller" /\ stack[n + 3] = 1
      /\ pc # "return" => \A k \in 1 .. n : stack[n + 3 - k] = call[k]
      /\ pc = "return" => stack[n + 2] = served
      /\ pc = "chars" => call[1] = SET_CHARS

StackInv ==
  /\ pc \in {"idle", "format", "call", "free", "callback", "chars", "return"}
  /\ IF Calling THEN Framed
     ELSE /\ stack = <<"caller">> /\ ebp = 1
          /\ args_num = 1 => ret = served

(* One block, the text, while a print is under way. *)
BlocksInv ==
  /\ pc = "idle" => request = 0
  /\ pc \in {"format", "call", "free"} => request # 0
  /\ blocks = IF request = 0 THEN 0 ELSE 1
  /\ peak \in 0 .. 4

(* The text buffer is Size cells, and the cursor fits its registers. *)
ScreenInv ==
  /\ vm = [cell \in 0 .. Size - 1 |-> vm[cell]]
  /\ cursor \in 0 .. CursorRange - 1

ConsoleInv == StackInv /\ BlocksInv /\ ScreenInv

(***************************************************************************)
(* Blocks                                                                  *)
(***************************************************************************)

(* Max of FiniteSetsExt, of two numbers. *)
LEMMA MaxOfTwo ==
  ASSUME NEW a \in Int, NEW b \in Int
  PROVE  Max({a, b}) = IF a >= b THEN a ELSE b
<1> DEFINE P(x) == x \in {a, b} /\ \A y \in {a, b} : x >= y
           m == IF a >= b THEN a ELSE b
           x == CHOOSE z : P(z)
<1>1. P(x)
  <2>1. P(m) OBVIOUS
  <2> HIDE DEF P, m
  <2> QED BY <2>1
<1>2. x = m
  <2> HIDE DEF x
  <2> QED BY <1>1
<1> QED BY <1>2 DEF Max

(* One traffic behind another. *)
LEMMA ThenIs ==
  ASSUME NEW l1 \in Int, NEW m1 \in Int, NEW l2 \in Int, NEW m2 \in Int
  PROVE  Then(Traffic(l1, m1), Traffic(l2, m2))
           = Traffic(l1 + l2, IF m1 >= l1 + m2 THEN m1 ELSE l1 + m2)
BY MaxOfTwo DEF Then, Traffic

(* The traffic of the functions that make and join texts. *)
LEMMA TrafficOfTexts ==
  /\ ralloc = Traffic(1, 1) /\ unalloc = Traffic(-1, 0)
  /\ replaced = Traffic(0, 1) /\ joined = Traffic(-1, 1)
  /\ Joined(ralloc) = Traffic(0, 2)
  /\ FloatTraffic = Traffic(1, 3)
<1>1. ralloc = Traffic(1, 1) /\ unalloc = Traffic(-1, 0)
  BY DEF ralloc, unalloc
<1>2. replaced = Traffic(0, 1)
  BY <1>1, ThenIs DEF replaced
<1>3. joined = Traffic(-1, 1)
  BY <1>1, <1>2, ThenIs DEF joined
<1>4. Joined(ralloc) = Traffic(0, 2)
  BY <1>1, <1>3, ThenIs DEF Joined
<1>5. Then(ralloc, replaced) = Traffic(1, 2)
  BY <1>1, <1>2, ThenIs
<1>6. Then(ralloc, joined) = Traffic(0, 2)
  BY <1>1, <1>3, ThenIs
<1>7. FloatTraffic = Traffic(1, 3)
  BY <1>5, <1>6, ThenIs DEF FloatTraffic
<1> QED BY <1>1, <1>2, <1>3, <1>4, <1>7

(* A conversion leaves its text and holds at most three blocks. *)
Modest(traffic) == \E m \in 1 .. 3 : traffic = Traffic(1, m)

LEMMA ConvertedModest ==
  ASSUME NEW kind \in Kinds, NEW arg
  PROVE  Modest(Converted(kind, arg).traffic)
<1>1. \A text : Block(text).traffic = Traffic(1, 1)
  BY TrafficOfTexts DEF Block
<1>2. ASSUME NEW prefix, NEW number, Modest(number.traffic)
      PROVE  Modest(Prefixed(prefix, number).traffic)
  <2>1. PICK m \in 1 .. 3 : number.traffic = Traffic(1, m)
    BY <1>2 DEF Modest
  <2>2. Prefixed(prefix, number).traffic = Then(Traffic(1, m), Traffic(0, 1))
    BY <2>1, TrafficOfTexts DEF Prefixed
  <2>3. Prefixed(prefix, number).traffic = Traffic(1, IF m >= 2 THEN m ELSE 2)
    BY <2>2, ThenIs
  <2> QED BY <2>3 DEF Modest
<1>3. \A text : Modest(Block(text).traffic)
  BY <1>1 DEF Modest
<1>4. ASSUME NEW num, NEW sys \in {2, 10, 16}
      PROVE  Modest(number_to_string(num, sys).traffic)
  <2> DEFINE number == IF num = 0 THEN Block(<<atom_to_char(0)>>)
                       ELSE Block(int_to_string((IF num < 0 THEN -num ELSE num) % Word, sys))
             based  == CASE sys = 10 -> number
                         [] sys = 16 -> Prefixed("0x", number)
                         [] sys = 2  -> Prefixed("0b", number)
  <2>1. Modest(number.traffic)
    BY <1>3
  <2>2. Modest(based.traffic)
    <3> HIDE DEF number
    <3>1. CASE sys = 10
      BY <2>1, <3>1
    <3>2. CASE sys = 16
      BY <1>2, <2>1, <3>2
    <3>3. CASE sys = 2
      BY <1>2, <2>1, <3>3
    <3> QED BY <3>1, <3>2, <3>3
  <2>3. number_to_string(num, sys) = IF num < 0 THEN Prefixed("-", based) ELSE based
    BY DEF number_to_string
  <2> HIDE DEF based
  <2>4. CASE num < 0
    BY <1>2, <2>2, <2>3, <2>4
  <2> QED BY <2>2, <2>3, <2>4
<1>5. Modest(float_to_string(arg).traffic)
  BY TrafficOfTexts DEF float_to_string, Modest
<1>6. Modest(pointer_to_string(arg).traffic)
  BY <1>2, <1>3 DEF pointer_to_string
<1>7. Modest(boolean_to_string(arg).traffic)
  BY <1>3 DEF boolean_to_string
<1>8. CASE kind = "l" BY <1>7, <1>8 DEF Converted
<1>9. CASE kind = "p" BY <1>6, <1>9 DEF Converted
<1>10. CASE kind = "d" BY <1>4, <1>10 DEF Converted
<1>11. CASE kind = "h" BY <1>4, <1>11 DEF Converted
<1>12. CASE kind = "b" BY <1>4, <1>12 DEF Converted
<1>13. CASE kind = "f" BY <1>5, <1>13 DEF Converted
<1>14. CASE kind = "c" BY <1>3, <1>14 DEF Converted
<1>15. CASE kind = "s" BY <1>3, <1>15 DEF Converted
<1> QED BY <1>8, <1>9, <1>10, <1>11, <1>12, <1>13, <1>14, <1>15 DEF Kinds

(* A placeholder joins two texts and leaves no block behind. *)
LEMMA PlaceholderTraffic ==
  ASSUME NEW t, Modest(t)
  PROVE  \E m \in 2 .. 3 : Then(Joined(ralloc), Joined(t)) = Traffic(0, m)
<1>1. PICK m \in 1 .. 3 : t = Traffic(1, m)
  BY DEF Modest
<1>2. Joined(t) = Traffic(0, IF m >= 2 THEN m ELSE 2)
  <2>1. Joined(t) = Then(Traffic(1, m), Traffic(-1, 1))
    BY <1>1, TrafficOfTexts DEF Joined
  <2>2. m \in Int /\ -1 \in Int
    OBVIOUS
  <2>3. Then(Traffic(1, m), Traffic(-1, 1))
          = Traffic(1 + -1, IF m >= 1 + 1 THEN m ELSE 1 + 1)
    BY <2>2, ThenIs
  <2> QED BY <2>1, <2>3
<1>3. Then(Joined(ralloc), Joined(t)) = Traffic(0, IF m >= 2 THEN m ELSE 2)
  <2> DEFINE h == IF m >= 2 THEN m ELSE 2
  <2>1. h \in Int /\ h >= 2
    OBVIOUS
  <2>2. Then(Joined(ralloc), Joined(t)) = Then(Traffic(0, 2), Traffic(0, h))
    BY <1>2, TrafficOfTexts
  <2> HIDE DEF h
  <2>3. Then(Traffic(0, 2), Traffic(0, h)) = Traffic(0 + 0, IF 2 >= 0 + h THEN 2 ELSE 0 + h)
    BY <2>1, ThenIs
  <2>4. (IF 2 >= 0 + h THEN 2 ELSE 0 + h) = h
    BY <2>1
  <2> QED BY <2>2, <2>3, <2>4 DEF h
<1> QED BY <1>1, <1>3

(* What a traffic does to the number of blocks. *)
LEMMA TrafficCounts ==
  ASSUME blocks \in 0 .. 1, peak \in 0 .. 4, NEW l \in -1 .. 1, NEW m \in 0 .. 3,
         HeapTraffic(Traffic(l, m))
  PROVE  blocks' = blocks + l /\ peak' \in 0 .. 4
<1>1. blocks' = blocks + l /\ peak' = Max({peak, blocks + m})
  BY DEF HeapTraffic, Traffic
<1> QED BY <1>1, MaxOfTwo

(***************************************************************************)
(* The stack                                                               *)
(***************************************************************************)

(* call_system pushes the arguments so that the handler finds the k-th one *)
(* at its place below the saved frame pointer.                             *)
LEMMA PushedFrame ==
  ASSUME NEW passed, Len(passed) \in Nat
  PROVE  LET n == Len(passed)
             s == <<"caller">> \o <<"pusha">> \o Reverse(passed) \o <<1>>
         IN  /\ Len(s) = n + 3 /\ s = [k \in 1 .. n + 3 |-> s[k]]
             /\ s[1] = "caller" /\ s[n + 3] = 1
             /\ \A k \in 1 .. n : s[n + 3 - k] = passed[k]
<1> DEFINE n == Len(passed)
           r == Reverse(passed)
           D == {"caller", "pusha", 1} \cup {passed[k] : k \in 1 .. n}
           a == <<"caller">> \o <<"pusha">>
           b == a \o r
           s == b \o <<1>>
<1>1. r = [e \in 1 .. n |-> passed[(n - e) + 1]]
  BY DEF Reverse
<1>2. r \in Seq(D) /\ Len(r) = n /\ \A e \in 1 .. n : r[e] = passed[(n - e) + 1]
  <2>1. \A e \in 1 .. n : passed[(n - e) + 1] \in D
    <3>1. \A e \in 1 .. n : (n - e) + 1 \in 1 .. n
      OBVIOUS
    <3> QED BY <3>1
  <2> HIDE DEF D, n, r
  <2> QED BY <1>1, <2>1 DEF n
<1>3. a \in Seq(D) /\ Len(a) = 2 /\ a[1] = "caller" /\ a[2] = "pusha"
  OBVIOUS
<1>4. <<1>> \in Seq(D) /\ Len(<<1>>) = 1 /\ <<1>>[1] = 1
  OBVIOUS
<1>5. n \in Nat
  OBVIOUS
<1> HIDE DEF D, a, r, n
<1>6. b \in Seq(D) /\ Len(b) = n + 2 /\ b[1] = "caller" /\ \A e \in 1 .. n : b[e + 2] = r[e]
  <2>1. /\ b \in Seq(D) /\ Len(b) = 2 + n
        /\ \A e \in 1 .. 2 + n : b[e] = IF e <= 2 THEN a[e] ELSE r[e - 2]
    <3>1. /\ b \in Seq(D) /\ Len(b) = Len(a) + Len(r)
          /\ \A e \in 1 .. Len(a) + Len(r) :
               b[e] = IF e <= Len(a) THEN a[e] ELSE r[e - Len(a)]
      BY <1>2, <1>3, ConcatProperties, Zenon
    <3> QED BY <1>2, <1>3, <3>1
  <2> HIDE DEF b
  <2>2. b[1] = "caller"
    BY <1>3, <1>5, <2>1
  <2>3. ASSUME NEW e \in 1 .. n PROVE b[e + 2] = r[e]
    <3>1. e + 2 \in 1 .. 2 + n /\ ~(e + 2 <= 2) /\ (e + 2) - 2 = e
      BY <1>5
    <3> QED BY <2>1, <3>1
  <2> QED BY <1>5, <2>1, <2>2, <2>3
<1> HIDE DEF b
<1>7. s \in Seq(D) /\ Len(s) = n + 3 /\ s[n + 3] = 1 /\ \A e \in 1 .. n + 2 : s[e] = b[e]
  BY <1>4, <1>5, <1>6, ConcatProperties
<1> HIDE DEF s
<1>8. s = [k \in 1 .. n + 3 |-> s[k]]
  BY <1>5, <1>7
<1>9. s[1] = "caller"
  BY <1>5, <1>6, <1>7
<1>10. ASSUME NEW k \in 1 .. n PROVE s[n + 3 - k] = passed[k]
  <2>1. n + 1 - k \in 1 .. n /\ n + 3 - k \in 1 .. n + 2 /\ n + 3 - k = (n + 1 - k) + 2
        /\ (n - (n + 1 - k)) + 1 = k
    BY <1>5
  <2>2. s[n + 3 - k] = r[n + 1 - k]
    BY <1>6, <1>7, <2>1
  <2> QED BY <1>2, <2>1, <2>2
<1> QED BY <1>7, <1>8, <1>9, <1>10 DEF s, b, a, r, n

(* While a call is served, its arguments are where the driver looks. *)
LEMMA ArgumentsThere ==
  ASSUME StackInv, Calling, pc # "return", NEW k \in Nat, k < Len(call)
  PROVE  system_get_arg(k) = call[k + 1]
<1>1. /\ Len(call) \in Nat /\ ebp = Len(call) + 3
      /\ \A m \in 1 .. Len(call) : stack[Len(call) + 3 - m] = call[m]
  BY DEF StackInv, Framed
<1>2. k + 1 \in 1 .. Len(call) /\ ebp - 1 - k = Len(call) + 3 - (k + 1)
  BY <1>1
<1> QED BY <1>1, <1>2 DEF system_get_arg

(* The type of the call, and how many arguments the driver may read. *)
LEMMA CallServed ==
  ASSUME StackInv, Calling, pc # "return"
  PROVE  /\ Len(call) \in Nat /\ Len(call) >= 1
         /\ system_get_arg(0) = call[1]
         /\ call[1] = 1 => Len(call) >= 4
         /\ call[1] = 2 => Len(call) >= 5
         /\ call[1] = 4 => Len(call) >= 2 /\ call[2] \in Nat
<1>1. /\ Len(call) \in Nat /\ Len(call) >= ArgumentsRead(call[1])
      /\ call[1] = 4 => call[2] \in Nat
  BY DEF StackInv, Framed
<1>2. /\ ArgumentsRead(call[1]) \in {1, 2, 4, 5}
      /\ call[1] = 1 => ArgumentsRead(call[1]) = 4
      /\ call[1] = 2 => ArgumentsRead(call[1]) = 5
      /\ call[1] = 4 => ArgumentsRead(call[1]) = 2
  BY DEF ArgumentsRead
<1>3. Len(call) >= 1
  BY <1>1, <1>2
<1>4. system_get_arg(0) = call[0 + 1]
  BY <1>1, <1>3, ArgumentsThere
<1> QED BY <1>1, <1>2, <1>3, <1>4

(* The offset that SET_CURSOR reads is the one that the caller has passed. *)
LEMMA OffsetThere ==
  ASSUME StackInv, SetCursor
  PROVE  call[2] \in Nat /\ system_get_arg(1) = call[2]
<1>1. pc = "callback" /\ system_get_arg(0) = 4
  BY DEF SetCursor, Called
<1>2. Len(call) \in Nat /\ Len(call) >= 2 /\ call[2] \in Nat
  BY <1>1, CallServed DEF Calling
<1>3. system_get_arg(1) = call[1 + 1]
  BY <1>1, <1>2, ArgumentsThere DEF Calling
<1> QED BY <1>2, <1>3

(* The screen driver has answered: the frame is as it was, except for the  *)
(* answer in the place of argument 0.                                      *)
LEMMA AnswerFrames ==
  ASSUME StackInv, pc \in {"callback", "chars"}, NEW value, Answer(value),
         UNCHANGED <<call, ret>>
  PROVE  StackInv'
<1> DEFINE n == Len(call)
<1>1. /\ n \in Nat /\ n >= 1 /\ n >= ArgumentsRead(call[1]) /\ args_num = n /\ ebp = n + 3
      /\ call[1] = 4 => call[2] \in Nat
      /\ stack = [k \in 1 .. n + 3 |-> stack[k]]
      /\ stack[1] = "caller" /\ stack[n + 3] = 1
  BY CallServed DEF StackInv, Framed, Calling
<1>2. /\ pc' = "return" /\ served' = value /\ stack' = [stack EXCEPT ![n + 2] = value]
      /\ args_num' = n /\ ebp' = n + 3 /\ Len(call') = n /\ call' = call
  <2>1. ebp - 1 = n + 2
    BY <1>1
  <2> QED BY <1>1, <2>1 DEF Answer, SystemPush
<1> HIDE DEF n
<1>3. stack' = [k \in 1 .. n + 3 |-> IF k = n + 2 THEN value ELSE stack[k]]
  BY <1>1, <1>2
<1>4. stack'[1] = "caller" /\ stack'[n + 3] = 1 /\ stack'[n + 2] = served'
  BY <1>1, <1>2, <1>3
<1>5. stack' = [k \in 1 .. n + 3 |-> stack'[k]]
  BY <1>3
<1>6. Framed'
  BY <1>1, <1>2, <1>4, <1>5 DEF Framed
<1> QED BY <1>2, <1>6 DEF StackInv, Calling

(***************************************************************************)
(* The screen                                                              *)
(***************************************************************************)

(* A screen has at least one row. *)
LEMMA SizeOfScreen ==
  /\ Size \in Nat /\ Size >= Cols /\ Cols \in Nat /\ Cols > 4 /\ Rows \in Nat /\ Rows > 0
  /\ CursorRange \in Nat /\ CursorRange > Size + Cols
  /\ Half \in Nat /\ Half > CursorRange + Cols + 1 /\ Half % CursorRange = 0
<1>1. Rows \in Nat /\ Rows > 0 /\ Cols \in Nat /\ Cols > 4
  BY ScreenAssumption
<1>2. Size = (Rows - 1) * Cols + Cols /\ (Rows - 1) * Cols \in Nat
  BY <1>1 DEF Size
<1> QED BY <1>1, <1>2, ScreenAssumption DEF Size

(* A line ends at most Cols cells further on. *)
LEMMA NextLine ==
  ASSUME NEW o \in Nat
  PROVE  /\ Cols * (o \div Cols + 1) \in Nat
         /\ o < Cols * (o \div Cols + 1) /\ Cols * (o \div Cols + 1) <= o + Cols
<1> DEFINE q == o \div Cols
<1>1. Cols \in Nat /\ Cols > 0
  BY SizeOfScreen
<1>2. q \in Nat /\ o = Cols * q + (o % Cols) /\ o % Cols \in 0 .. Cols - 1
  BY <1>1
<1>3. Cols * (q + 1) = Cols * q + Cols /\ Cols * q \in Nat
  BY <1>1, <1>2
<1> HIDE DEF q
<1> QED BY <1>1, <1>2, <1>3 DEF q

(* The offset behind a character. *)
LEMMA EffectNext ==
  ASSUME ScreenInv, NEW c
  PROVE  Effect(c).next \in Nat
<1>1. cursor \in Nat
  BY SizeOfScreen DEF ScreenInv
<1>2. Cols * (cursor \div Cols + 1) \in Nat
  BY <1>1, NextLine
<1>3. (cursor - 1) % Half \in Nat
  BY <1>1, SizeOfScreen
<1> QED BY <1>1, <1>2, <1>3 DEF Effect

(* A remainder fits the cursor's registers. *)
LEMMA RegistersHold ==
  ASSUME NEW o \in Int
  PROVE  o % CursorRange \in 0 .. CursorRange - 1
BY SizeOfScreen

(* Whatever is printed, the buffer keeps its cells and the cursor fits. *)
LEMMA PrintKeepsScreen ==
  ASSUME ScreenInv, NEW c, NEW text_color, NEW back_color,
         print_char_color(c, text_color, back_color)
  PROVE  ScreenInv'
<1> DEFINE text == Painted(c, Effect(c).cells, text_color, back_color)
           after == Scroll(Effect(c).next, text)
<1>1. /\ text = [cell \in 0 .. Size - 1 |-> text[cell]]
  BY DEF ScreenInv, Painted
<1>2. Effect(c).next \in Nat
  BY EffectNext
<1> HIDE DEF text
<1>3. after[1] \in Int /\ after[2] = [cell \in 0 .. Size - 1 |-> after[2][cell]]
  <2>1. CASE Effect(c).next < Size
    BY <1>1, <1>2, <2>1 DEF Scroll
  <2>2. CASE ~(Effect(c).next < Size)
    BY <1>1, <1>2, <2>2, SizeOfScreen DEF Scroll
  <2> QED BY <2>1, <2>2
<1>4. vm' = after[2] /\ cursor' = after[1] % CursorRange
  BY DEF print_char_color, text
<1> HIDE DEF after
<1> QED BY <1>3, <1>4, RegistersHold DEF ScreenInv, Size

(***************************************************************************)
(* ConsoleInv is inductive                                                 *)
(***************************************************************************)

(* The screen, the caller's stack and the heap before the first call. *)
LEMMA InitHolds == Init => ConsoleInv
<1> SUFFICES ASSUME Init PROVE ConsoleInv
  OBVIOUS
<1>1. StackInv
  BY DEF Init, SyscallInit, StackInv, Calling
<1>2. BlocksInv
  BY DEF Init, FormatInit, BlocksInv
<1>3. ScreenInv
  BY SizeOfScreen DEF Init, ScreenInit, ScreenInv
<1> QED BY <1>1, <1>2, <1>3 DEF ConsoleInv

(* print_formatted allocates the text. *)
LEMMA PrintFormattedPreserves ==
  ASSUME ConsoleInv, NEW r \in DOMAIN Requests, PrintFormatted(r)
  PROVE  ConsoleInv'
<1>1. /\ pc = "idle" /\ pc' = "format" /\ request' = r /\ HeapTraffic(ralloc)
      /\ UNCHANGED <<syscallVars, screenVars, call, ret, served>>
  BY DEF PrintFormatted, FormatBegin
<1>2. StackInv'
  BY <1>1 DEF ConsoleInv, StackInv, Calling, syscallVars
<1>3. BlocksInv'
  <2>1. request = 0 /\ blocks = 0 /\ peak \in 0 .. 4 /\ r # 0
    BY <1>1, ConsoleAssumption DEF ConsoleInv, BlocksInv
  <2>2. blocks' = blocks + 1 /\ peak' \in 0 .. 4
    BY <1>1, <2>1, TrafficCounts, TrafficOfTexts
  <2> QED BY <1>1, <2>1, <2>2 DEF BlocksInv
<1>4. ScreenInv'
  BY <1>1 DEF ConsoleInv, ScreenInv, screenVars, Size
<1> QED BY <1>2, <1>3, <1>4 DEF ConsoleInv

(* format keeps one block, the text, between any two of its steps. *)
LEMMA FormattingPreserves ==
  ASSUME ConsoleInv, Formatting
  PROVE  ConsoleInv'
<1>1. /\ pc = "format" /\ pc' \in {"format", "call"} /\ request' = request
      /\ UNCHANGED <<syscallVars, screenVars, call, ret, served>>
  BY DEF Formatting, FormatChar, FormatPlaceholder, FormatPlain, FormatEnd
<1>2. StackInv'
  BY <1>1 DEF ConsoleInv, StackInv, Calling, syscallVars
<1>3. BlocksInv'
  <2>1. request # 0 /\ blocks = 1 /\ peak \in 0 .. 4
    BY <1>1 DEF ConsoleInv, BlocksInv
  <2>2. CASE FormatChar
    BY <1>1, <2>1, <2>2 DEF FormatChar, BlocksInv
  <2>3. CASE FormatPlaceholder
    <3> DEFINE t == Converted(CharAt(j + 1), Slot(argumentor)).traffic
    <3>1. HeapTraffic(Then(Joined(ralloc), Joined(t))) /\ CharAt(j + 1) \in Kinds
      BY <2>3 DEF FormatPlaceholder
    <3>2. Modest(t)
      BY <3>1, ConvertedModest
    <3> HIDE DEF t
    <3>3. PICK m \in 2 .. 3 : Then(Joined(ralloc), Joined(t)) = Traffic(0, m)
      BY <3>2, PlaceholderTraffic
    <3>4. blocks' = blocks + 0 /\ peak' \in 0 .. 4
      BY <2>1, <3>1, <3>3, TrafficCounts
    <3> QED BY <1>1, <2>1, <3>4 DEF BlocksInv
  <2>4. CASE FormatPlain \/ FormatEnd
    <3>1. HeapTraffic(Traffic(0, 2))
      BY <2>4, TrafficOfTexts DEF FormatPlain, FormatEnd
    <3>2. blocks' = blocks + 0 /\ peak' \in 0 .. 4
      BY <2>1, <3>1, TrafficCounts
    <3> QED BY <1>1, <2>1, <3>2 DEF BlocksInv
  <2> QED BY <2>2, <2>3, <2>4 DEF Formatting
<1>4. ScreenInv'
  BY <1>1 DEF ConsoleInv, ScreenInv, screenVars, Size
<1> QED BY <1>2, <1>3, <1>4 DEF ConsoleInv

(* call_system: the arguments are on the stack and their block is gone. *)
LEMMA CallPreserves ==
  ASSUME ConsoleInv, pc \in {"idle", "call"}, NEW passed, call' = passed,
         CallSystem(passed), HeapTraffic(replaced), pc' = "callback",
         Len(passed) \in Nat, Len(passed) >= ArgumentsRead(passed[1]),
         passed[1] = 4 => passed[2] \in Nat,
         UNCHANGED <<request, screenVars, ret, served>>
  PROVE  ConsoleInv'
<1> DEFINE n == Len(passed)
           s == <<"caller">> \o <<"pusha">> \o Reverse(passed) \o <<1>>
<1>1. stack = <<"caller">> /\ ebp = 1
  BY DEF ConsoleInv, StackInv, Calling
<1>2. stack' = s /\ ebp' = Len(stack') /\ args_num' = n
  BY <1>1 DEF CallSystem
<1>3. /\ Len(s) = n + 3 /\ s = [k \in 1 .. n + 3 |-> s[k]]
      /\ s[1] = "caller" /\ s[n + 3] = 1
      /\ \A k \in 1 .. n : s[n + 3 - k] = passed[k]
  BY PushedFrame
<1> HIDE DEF s
<1>4. Framed'
  BY <1>2, <1>3 DEF Framed
<1>5. StackInv'
  BY <1>4 DEF StackInv, Calling
<1>6. BlocksInv'
  <2>1. blocks = (IF request = 0 THEN 0 ELSE 1) /\ peak \in 0 .. 4
    BY DEF ConsoleInv, BlocksInv
  <2>2. blocks' = blocks + 0 /\ peak' \in 0 .. 4
    BY <2>1, TrafficCounts, TrafficOfTexts
  <2> QED BY <2>1, <2>2 DEF BlocksInv
<1>7. ScreenInv'
  BY DEF ConsoleInv, ScreenInv, screenVars, Size
<1> QED BY <1>5, <1>6, <1>7 DEF ConsoleInv

(* A print passes five arguments, a direct call what its caller passes. *)
LEMMA CallsPreserve ==
  ASSUME ConsoleInv, PrintCall \/ \E passed \in SystemCalls : SystemCall(passed)
  PROVE  ConsoleInv'
<1>1. CASE PrintCall
  <2> DEFINE passed == <<SET_CHARS, "formatted", Requests[request].font, BLACK, 0>>
  <2>1. Len(passed) = 5 /\ passed[1] = 2
    BY DEF SET_CHARS
  <2>2. ArgumentsRead(passed[1]) = 5
    BY <2>1 DEF ArgumentsRead
  <2>3. /\ call' = passed /\ CallSystem(passed) /\ HeapTraffic(replaced) /\ pc = "call"
        /\ pc' = "callback" /\ UNCHANGED <<request, screenVars, ret, served>>
    BY <1>1 DEF PrintCall
  <2>4. /\ Len(passed) \in Nat /\ Len(passed) >= ArgumentsRead(passed[1])
        /\ passed[1] = 4 => passed[2] \in Nat
    BY <2>1, <2>2
  <2>5. pc \in {"idle", "call"}
    BY <2>3
  <2> HIDE DEF passed
  <2> QED BY <2>3, <2>4, <2>5, CallPreserves
<1>2. CASE \E passed \in SystemCalls : SystemCall(passed)
  <2>1. PICK passed \in SystemCalls : SystemCall(passed)
    BY <1>2
  <2>2. /\ Len(passed) \in Nat /\ Len(passed) >= ArgumentsRead(passed[1])
        /\ passed[1] = 4 => passed[2] \in Nat
    BY ConsoleAssumption
  <2> QED BY <2>1, <2>2, CallPreserves DEF SystemCall
<1> QED BY <1>1, <1>2

(* Serving a call allocates nothing. *)
LEMMA ServingKeepsBlocks ==
  ASSUME BlocksInv, pc' \in {"callback", "chars", "return"}, UNCHANGED formatVars
  PROVE  BlocksInv'
BY DEF BlocksInv, formatVars

(* screen_callback that answers: what it has done to the screen is in      *)
(* order, and the stack holds the answer.                                  *)
LEMMA AnswerPreserves ==
  ASSUME ConsoleInv, pc \in {"callback", "chars"}, NEW value, Answer(value),
         UNCHANGED <<formatVars, call, ret>>, ScreenInv'
  PROVE  ConsoleInv'
<1>1. StackInv'
  BY AnswerFrames DEF ConsoleInv
<1>2. BlocksInv'
  BY ServingKeepsBlocks DEF ConsoleInv, Answer
<1> QED BY <1>1, <1>2 DEF ConsoleInv

(* The screen is as it was. *)
LEMMA ScreenStays ==
  ASSUME ScreenInv, UNCHANGED screenVars
  PROVE  ScreenInv'
BY DEF ScreenInv, screenVars, Size

(* screen_callback and the loop of print_string_color. *)
LEMMA CallbackPreserves ==
  ASSUME ConsoleInv, Callback
  PROVE  ConsoleInv'
<1> USE DEF ConsoleInv
<1>1. CASE GetChar
  BY <1>1, AnswerPreserves, ScreenStays DEF GetChar, Called
<1>2. CASE SetChar
  <2>1. ScreenInv'
    BY <1>2, PrintKeepsScreen DEF SetChar
  <2> QED BY <1>2, <2>1, AnswerPreserves DEF SetChar, Called
<1>3. CASE SetChars
  <2>1. /\ pc = "callback" /\ pc' = "chars" /\ system_get_arg(0) = SET_CHARS
        /\ UNCHANGED <<formatVars, syscallVars, screenVars, call, ret, served>>
    BY <1>3 DEF SetChars, Called
  <2>2. call[1] = SET_CHARS
    BY <2>1, CallServed DEF Calling
  <2>3. Framed'
    BY <2>1, <2>2 DEF StackInv, Calling, Framed, syscallVars
  <2>4. StackInv'
    BY <2>1, <2>3 DEF StackInv, Calling
  <2> QED BY <2>1, <2>4, ServingKeepsBlocks, ScreenStays
<1>4. CASE PrintChar
  <2>1. /\ pc = "chars" /\ pc' = "chars"
        /\ UNCHANGED <<formatVars, syscallVars, call, ret, served>>
    BY <1>4 DEF PrintChar
  <2>2. StackInv'
    BY <2>1 DEF StackInv, Calling, Framed, syscallVars
  <2>3. ScreenInv'
    BY <1>4, PrintKeepsScreen DEF PrintChar
  <2> QED BY <2>1, <2>2, <2>3, ServingKeepsBlocks
<1>5. CASE CharsDone
  BY <1>5, AnswerPreserves, ScreenStays DEF CharsDone
<1>6. CASE GetCursor
  BY <1>6, AnswerPreserves, ScreenStays DEF GetCursor, Called
<1>7. CASE SetCursor
  <2>1. call[2] \in Nat /\ system_get_arg(1) = call[2]
    BY <1>7, OffsetThere
  <2>2. ScreenInv'
    <3>1. cursor' = call[2] % CursorRange /\ UNCHANGED <<vm, outside>>
      BY <1>7, <2>1 DEF SetCursor, set_cursor_offset
    <3>2. cursor' \in 0 .. CursorRange - 1
      BY <2>1, <3>1, RegistersHold
    <3> QED BY <3>1, <3>2 DEF ScreenInv, Size
  <2> QED BY <1>7, <2>2, AnswerPreserves DEF SetCursor, Called
<1>8. CASE ClearScreen
  <2>1. ScreenInv'
    BY <1>8, SizeOfScreen DEF ClearScreen, clear_screen, ScreenInv, Size
  <2> QED BY <1>8, <2>1, AnswerPreserves DEF ClearScreen, Called
<1>9. CASE UnknownCall
  BY <1>9, AnswerPreserves, ScreenStays DEF UnknownCall
<1> QED BY <1>1, <1>2, <1>3, <1>4, <1>5, <1>6, <1>7, <1>8, <1>9 DEF Callback

(* A sequence of one element. *)
LEMMA OneElement ==
  ASSUME NEW D, NEW s \in Seq(D), Len(s) = 1
  PROVE  s = <<s[1]>>
<1>1. DOMAIN s = {1} /\ s = [k \in {1} |-> s[k]]
  OBVIOUS
<1>2. <<s[1]>> = [k \in {1} |-> s[1]]
  OBVIOUS
<1> QED BY <1>1, <1>2

(* call_system_ret cleans up: the stack is the caller's again, and the     *)
(* value popped last is argument 0, if there was only one.                 *)
LEMMA ReturnPreserves ==
  ASSUME ConsoleInv, Return
  PROVE  ConsoleInv'
<1> DEFINE n == Len(call)
<1>1. /\ pc = "return" /\ ret' = stack[ebp - args_num] /\ ebp' = stack[ebp]
      /\ stack' = SubSeq(stack, 1, ebp - 1 - args_num - 1)
      /\ pc' = IF request = 0 THEN "idle" ELSE "free"
      /\ UNCHANGED <<args_num, formatVars, screenVars, served>>
  BY DEF Return, ReturnedValue, SystemReturn
<1>2. /\ n \in Nat /\ args_num = n /\ ebp = n + 3
      /\ stack = [k \in 1 .. n + 3 |-> stack[k]]
      /\ stack[1] = "caller" /\ stack[n + 3] = 1 /\ stack[n + 2] = served
  BY <1>1 DEF ConsoleInv, StackInv, Calling, Framed
<1> HIDE DEF n
<1>3. ebp' = 1
  BY <1>1, <1>2
<1>4. stack' = <<"caller">>
  <2> DEFINE D == {stack[k] : k \in 1 .. n + 3}
  <2>1. \A k \in 1 .. n + 3 : stack[k] \in D
    OBVIOUS
  <2> HIDE DEF D
  <2>2. stack \in Seq(D) /\ Len(stack) = n + 3
    BY <1>2, <2>1
  <2>3. ebp - 1 - args_num - 1 = 1
    BY <1>2
  <2>4. /\ SubSeq(stack, 1, 1) \in Seq(D) /\ Len(SubSeq(stack, 1, 1)) = 1
        /\ SubSeq(stack, 1, 1)[1] = stack[1]
    BY <1>2, <2>2
  <2>5. stack' \in Seq(D) /\ Len(stack') = 1 /\ stack'[1] = "caller"
    BY <1>1, <1>2, <2>3, <2>4
  <2> QED BY <2>5, OneElement
<1>5. args_num' = 1 => ret' = served'
  BY <1>1, <1>2
<1>6. StackInv'
  BY <1>1, <1>3, <1>4, <1>5 DEF StackInv, Calling
<1>7. BlocksInv'
  BY <1>1 DEF ConsoleInv, BlocksInv, formatVars
<1>8. ScreenInv'
  BY <1>1, ScreenStays DEF ConsoleInv
<1> QED BY <1>6, <1>7, <1>8 DEF ConsoleInv

(* print_formatted releases the text. *)
LEMMA ReleasePreserves ==
  ASSUME ConsoleInv, Release
  PROVE  ConsoleInv'
<1>1. /\ pc = "free" /\ pc' = "idle" /\ request' = 0 /\ HeapTraffic(unalloc)
      /\ UNCHANGED <<syscallVars, screenVars, call, ret, served>>
  BY DEF Release, FormatGone
<1>2. StackInv'
  BY <1>1 DEF ConsoleInv, StackInv, Calling, syscallVars
<1>3. BlocksInv'
  <2>1. blocks = 1 /\ peak \in 0 .. 4
    BY <1>1 DEF ConsoleInv, BlocksInv
  <2>2. HeapTraffic(Traffic(-1, 0)) /\ -1 \in -1 .. 1
    BY <1>1, TrafficOfTexts
  <2>3. blocks' = blocks + -1 /\ peak' \in 0 .. 4
    BY <2>1, <2>2, TrafficCounts
  <2> QED BY <1>1, <2>1, <2>3 DEF BlocksInv
<1>4. ScreenInv'
  BY <1>1, ScreenStays DEF ConsoleInv
<1> QED BY <1>2, <1>3, <1>4 DEF ConsoleInv

(* Every step of callers and driver keeps the invariant. *)
LEMMA NextPreserves ==
  ASSUME ConsoleInv, [Next]_vars
  PROVE  ConsoleInv'
<1>1. CASE UNCHANGED vars
  <2>1. UNCHANGED <<formatVars, syscallVars, screenVars, pc, call, ret, served>>
    BY <1>1 DEF vars
  <2>2. StackInv'
    BY <2>1 DEF ConsoleInv, StackInv, Calling, Framed, syscallVars
  <2>3. BlocksInv'
    BY <2>1 DEF ConsoleInv, BlocksInv, formatVars
  <2> QED BY <2>1, <2>2, <2>3, ScreenStays DEF ConsoleInv
<1>2. CASE Step
  BY <1>2, FormattingPreserves, CallsPreserve, CallbackPreserves, ReturnPreserves,
     ReleasePreserves DEF Step
<1>3. CASE \E k \in DOMAIN Requests : PrintFormatted(k)
  BY <1>3, PrintFormattedPreserves
<1>4. CASE \E passed \in SystemCalls : SystemCall(passed)
  BY <1>4, CallsPreserve
<1>5. CASE Rest
  BY <1>1, <1>5 DEF Rest
<1> QED BY <1>1, <1>2, <1>3, <1>4, <1>5 DEF Next

(***************************************************************************)
(* The theorems                                                            *)
(***************************************************************************)

(* The console invariant: what a call has pushed is where the driver looks *)
(* for it and where the caller pops it, a print holds one block between    *)
(* two of its steps, and the screen keeps its shape.                       *)
THEOREM ConsoleInvariance == Spec => []ConsoleInv
<1>1. Init => ConsoleInv
  BY InitHolds
<1>2. ConsoleInv /\ [Next]_vars => ConsoleInv'
  BY NextPreserves
<1> QED BY <1>1, <1>2, PTL DEF Spec

(* A call leaves the caller's stack and frame pointer as they were and no  *)
(* block on the heap, however many arguments it passed, and with one       *)
(* argument call_system_ret returns what the driver has returned.          *)
THEOREM ConsoleLeavesNoTrace == Spec => []CallLeavesNoTrace
<1>1. ConsoleInv => CallLeavesNoTrace
  BY DEF ConsoleInv, StackInv, Calling, BlocksInv, CallLeavesNoTrace
<1> QED BY <1>1, ConsoleInvariance, PTL

(* However long the template and its arguments, printing never holds more  *)
(* than four blocks.                                                       *)
THEOREM ConsoleFootprint == Spec => []FootprintBounded
<1>1. ConsoleInv => FootprintBounded
  BY DEF ConsoleInv, BlocksInv, FootprintBounded
<1> QED BY <1>1, ConsoleInvariance, PTL

(***************************************************************************)
(* The text                                                                *)
(***************************************************************************)

(* While format loops, its result and the characters that wait are what    *)
(* the template stands for so far; behind it, the result is all of it.     *)
TextInv ==
  /\ request # 0 => request \in DOMAIN Requests
  /\ pc = "format" => Looping
  /\ TemplateExpanded

(* A step that leaves format's locals alone and does not begin to format. *)
LEMMA TextStays ==
  ASSUME TextInv, UNCHANGED <<request, result>>, pc' # "format",
         pc \in {"call", "callback", "chars", "return", "free"} \/ request = 0
  PROVE  TextInv'
<1>1. template' = template /\ args' = args
  BY DEF template, args
<1> QED BY <1>1 DEF TextInv, TemplateExpanded

LEMMA FormattingKeepsText ==
  ASSUME ConsoleInv, TextInv, Formatting
  PROVE  TextInv'
<1>1. request # 0 /\ pc = "format" /\ Looping /\ request \in DOMAIN Requests
  BY DEF Formatting, ConsoleInv, BlocksInv, TextInv
<1>2. CASE (FormatChar \/ FormatPlaceholder \/ FormatPlain) /\ UNCHANGED pc
  <2>1. Looping'
    BY <1>1, <1>2, CharLoops, PlaceholderLoops, PlainLoops
  <2>2. request' = request /\ pc' = "format"
    BY <1>1, <1>2 DEF FormatChar, FormatPlaceholder, FormatPlain
  <2> QED BY <1>1, <2>1, <2>2 DEF TextInv, TemplateExpanded
<1>3. CASE FormatEnd /\ pc' = "call"
  <2>1. result' = Expansion(template, args)
    BY <1>1, <1>3, EndExpands
  <2>2. request' = request
    BY <1>3 DEF FormatEnd
  <2>3. template' = template /\ args' = args
    BY <2>2 DEF template, args
  <2> QED BY <1>1, <1>3, <2>1, <2>2, <2>3 DEF TextInv, TemplateExpanded
<1> QED BY <1>2, <1>3 DEF Formatting

LEMMA NextKeepsText ==
  ASSUME ConsoleInv, TextInv, [Next]_vars
  PROVE  TextInv'
<1>0. /\ pc \in {"idle", "format", "call", "free", "callback", "chars", "return"}
      /\ pc = "idle" => request = 0
  BY DEF ConsoleInv, StackInv, BlocksInv
<1>1. CASE Formatting
  BY <1>1, FormattingKeepsText
<1>2. CASE PrintCall
  <2>1. UNCHANGED <<request, result>> /\ pc = "call" /\ pc' = "callback"
    BY <1>2 DEF PrintCall
  <2> QED BY <2>1, TextStays
<1>3. CASE Callback
  <2>1. UNCHANGED <<request, result>> /\ pc \in {"callback", "chars"} /\ pc' # "format"
    BY <1>3 DEF Callback, GetChar, SetChar, SetChars, PrintChar, CharsDone, GetCursor,
       SetCursor, ClearScreen, UnknownCall, Called, Answer, formatVars
  <2> QED BY <2>1, TextStays
<1>4. CASE Return
  <2>1. UNCHANGED <<request, result>> /\ pc = "return" /\ pc' # "format"
    BY <1>4 DEF Return, formatVars
  <2> QED BY <2>1, TextStays
<1>5. CASE Release
  BY <1>5 DEF Release, FormatGone, TextInv, TemplateExpanded
<1>6. CASE \E r \in DOMAIN Requests : PrintFormatted(r)
  <2>1. PICK r \in DOMAIN Requests : FormatBegin(r) /\ pc' = "format"
    BY <1>6 DEF PrintFormatted
  <2>2. r # 0
    BY ConsoleAssumption
  <2>3. Looping'
    BY <2>1, <2>2, BeginLoops
  <2>4. request' = r
    BY <2>1 DEF FormatBegin
  <2> QED BY <2>1, <2>3, <2>4 DEF TextInv, TemplateExpanded
<1>7. CASE \E passed \in SystemCalls : SystemCall(passed)
  <2>1. UNCHANGED <<request, result>> /\ pc = "idle" /\ pc' = "callback"
    BY <1>7 DEF SystemCall
  <2> QED BY <1>0, <2>1, TextStays
<1>8. CASE Rest \/ UNCHANGED vars
  <2>1. UNCHANGED <<formatVars, pc>>
    BY <1>8 DEF Rest, vars
  <2>2. UNCHANGED <<request, j, printed, argumentor, result, pc>>
    BY <2>1 DEF formatVars
  <2>3. template' = template /\ args' = args
    BY <2>2 DEF template, args
  <2>4. pc = "format" => Looping'
    BY <2>2, <2>3 DEF TextInv, Looping, Loops, Expanded, Pieces, StartOf
  <2> QED BY <2>2, <2>3, <2>4 DEF TextInv, TemplateExpanded
<1> QED BY <1>1, <1>2, <1>3, <1>4, <1>5, <1>6, <1>7, <1>8 DEF Next, Step

(* What format has built is what the template stands for so far, at every  *)
(* step of its loop and for templates and arguments of every length.       *)
THEOREM ConsoleTextInvariance == Spec => []TextInv
<1>1. Init => TextInv
  BY DEF Init, FormatInit, TextInv, TemplateExpanded
<1>2. ConsoleInv /\ TextInv /\ [Next]_vars => TextInv'
  BY NextKeepsText
<1> QED BY <1>1, <1>2, ConsoleInvariance, PTL DEF Spec

(* The text that is printed is the template with each placeholder replaced *)
(* by its own argument: the index arithmetic of the loop over percent      *)
(* signs loses and repeats no character, and a double moves the argument   *)
(* pointer by two dwords.                                                  *)
THEOREM ConsoleTemplateExpanded == Spec => []TemplateExpanded
<1>1. TextInv => TemplateExpanded
  BY DEF TextInv
<1> QED BY <1>1, ConsoleTextInvariance, PTL

(* Whatever dwords callers print, they read back in every base, and so do  *)
(* floats whose whole part is not 0 and whose fraction has no leading zero.*)
THEOREM ConsoleNumbersReadBack == Spec => []NumbersReadBack
<1>1. TextInv => NumbersReadBack
  <2> SUFFICES ASSUME TextInv, NEW n \in Placeholders(template)
               PROVE  LET kind == template[n + 1]
                          arg  == args[Ordinal(template, n)]
                      IN  /\ kind = "d" => ReadsBack(arg, 10)
                          /\ kind = "h" => ReadsBack(arg, 16)
                          /\ kind = "b" => ReadsBack(arg, 2)
                          /\ kind = "f" /\ arg.whole > 0
                               /\ arg.fraction >= mult(10)[AfterComma - 1] =>
                               FloatReadsBack(arg)
    BY DEF NumbersReadBack
  <2> DEFINE kind == template[n + 1]
             arg  == args[Ordinal(template, n)]
  <2>1. request # 0 /\ request \in DOMAIN Requests
    <3>1. request = 0 => Placeholders(template) = {}
      BY DEF template, Placeholders
    <3> QED BY <3>1 DEF TextInv
  <2>2. OfKind(kind, arg)
    BY <2>1, RequestTyped
  <2> HIDE DEF kind, arg
  <2>3. kind \in {"d", "h", "b"} => arg \in Dwords
    BY <2>2 DEF OfKind
  <2>4. ASSUME kind = "f", arg.whole > 0, arg.fraction >= mult(10)[AfterComma - 1]
        PROVE  FloatReadsBack(arg)
    <3>1. arg.whole \in 0 .. Word - 1 /\ arg.fraction \in 0 .. mult(10)[AfterComma] - 1
      BY <2>2, <2>4 DEF OfKind
    <3>2. Word \in Nat /\ AfterComma \in Nat \ {0} /\ AfterComma - 1 \in Nat
      BY FormatAssumption
    <3>3. mult(10)[AfterComma] \in Nat /\ mult(10)[AfterComma - 1] \in Nat
      <4>1. 10 \in Nat \ {0}
        OBVIOUS
      <4>2. mult(10) \in [Nat -> Nat]
        BY <4>1, Powers, Zenon
      <4> QED BY <3>2, <4>2
    <3>4. /\ arg.whole \in 1 .. Word - 1 /\ arg.fraction \in Nat
          /\ mult(10)[AfterComma - 1] <= arg.fraction /\ arg.fraction < mult(10)[AfterComma]
      BY <2>4, <3>1, <3>2, <3>3
    <3> QED BY <3>4, FloatsReadBack
  <2>5. kind = "d" => ReadsBack(arg, 10)
    BY <2>3, DwordsReadBack
  <2>6. kind = "h" => ReadsBack(arg, 16)
    BY <2>3, DwordsReadBack
  <2>7. kind = "b" => ReadsBack(arg, 2)
    BY <2>3, DwordsReadBack
  <2> QED BY <2>4, <2>5, <2>6, <2>7 DEF kind, arg
<1> QED BY <1>1, ConsoleTextInvariance, PTL

(***************************************************************************)
(* Where printing leads                                                    *)
(***************************************************************************)

(* The registers keep an offset that fits them. *)
LEMMA SmallOffset ==
  /\ \A o \in 0 .. CursorRange - 1 : o % CursorRange = o
  /\ \A o \in 0 .. Half - 1 : o % Half = o
  /\ (-1) % Half = Half - 1
BY SizeOfScreen

(* The parts of print_char_color. *)
LEMMA PrintIs ==
  ASSUME NEW c, NEW text_color, NEW back_color, print_char_color(c, text_color, back_color)
  PROVE  LET next == Effect(c).next
             text == Painted(c, Effect(c).cells, text_color, back_color)
         IN  /\ next < Size => vm' = text /\ cursor' = next % CursorRange
             /\ ~(next < Size) =>
                  /\ cursor' = (next - Cols) % CursorRange
                  /\ vm' = [cell \in DOMAIN text |->
                              IF cell < Size - Cols THEN text[cell + Cols] ELSE Blank]
             /\ outside' = outside \cup ({CellOf(cell) : cell \in Effect(c).cells} \ DOMAIN vm)
BY DEF print_char_color, Scroll

(* The offset behind each kind of character. *)
LEMMA EffectIs ==
  ASSUME NEW c
  PROVE  /\ c = "newline" => Effect(c) = [cells |-> {}, next |-> Cols * (cursor \div Cols + 1)]
         /\ c = "backspace" =>
              Effect(c) = [cells |-> {(cursor - 1) % Half}, next |-> (cursor - 1) % Half]
         /\ c = "tab" => Effect(c) = [cells |-> cursor .. cursor + 3, next |-> cursor + 4]
         /\ c \notin {"newline", "backspace", "tab"} =>
              Effect(c) = [cells |-> {cursor}, next |-> cursor + 1]
BY DEF Effect

(* From behind the screen, every character but a newline in the first      *)
(* column leads back, and that one stays.                                  *)
LEMMA PrintReturns ==
  ASSUME ScreenInv, cursor >= Size, NEW c, NEW text_color, NEW back_color,
         print_char_color(c, text_color, back_color)
  PROVE  cursor' <= cursor
<1>1. cursor \in Nat /\ cursor < CursorRange
  BY SizeOfScreen DEF ScreenInv
<1> DEFINE next == Effect(c).next
<1>2. CASE c = "newline"
  <2>1. next = Cols * (cursor \div Cols + 1)
    BY <1>2, EffectIs
  <2>2. next \in Nat /\ cursor < next /\ next <= cursor + Cols
    BY <1>1, <2>1, NextLine
  <2> HIDE DEF next
  <2>3. ~(next < Size) /\ next - Cols \in 0 .. CursorRange - 1 /\ next - Cols <= cursor
    BY <1>1, <2>2, SizeOfScreen
  <2>4. cursor' = (next - Cols) % CursorRange
    BY <2>3, PrintIs DEF next
  <2> QED BY <2>3, <2>4, SmallOffset
<1>3. CASE c = "backspace"
  <2>1. next = cursor - 1
    <3>1. cursor - 1 \in 0 .. Half - 1
      BY <1>1, SizeOfScreen
    <3> QED BY <1>3, <3>1, EffectIs, SmallOffset
  <2> HIDE DEF next
  <2>2. CASE next < Size
    <3>1. cursor' = next % CursorRange
      BY <2>2, PrintIs DEF next
    <3>2. next \in 0 .. CursorRange - 1
      BY <1>1, <2>1, SizeOfScreen
    <3> QED BY <1>1, <2>1, <3>1, <3>2, SmallOffset
  <2>3. CASE ~(next < Size)
    <3>1. cursor' = (next - Cols) % CursorRange
      BY <2>3, PrintIs DEF next
    <3>2. next - Cols \in 0 .. CursorRange - 1 /\ next - Cols <= cursor
      BY <1>1, <2>1, <2>3, SizeOfScreen
    <3> QED BY <1>1, <2>1, <3>1, <3>2, SmallOffset
  <2> QED BY <2>2, <2>3
<1>4. CASE c \notin {"newline", "backspace"}
  <2>1. next \in {cursor + 4, cursor + 1}
    BY <1>4, EffectIs
  <2> HIDE DEF next
  <2>2. ~(next < Size) /\ next - Cols \in 0 .. CursorRange - 1 /\ next - Cols <= cursor
    BY <1>1, <2>1, SizeOfScreen
  <2>3. cursor' = (next - Cols) % CursorRange
    BY <2>2, PrintIs DEF next
  <2> QED BY <2>2, <2>3, SmallOffset
<1> QED BY <1>2, <1>3, <1>4

(* From the screen, only a tab and a backspace write next to the buffer. *)
LEMMA PrintWrites ==
  ASSUME ScreenInv, cursor < Size, NEW c, NEW text_color, NEW back_color,
         print_char_color(c, text_color, back_color), NEW cell \in outside' \ outside
  PROVE  \/ c = "tab" /\ cell \in Size .. Size + 2
         \/ c = "backspace" /\ cursor = 0 /\ cell = -1
<1>1. cursor \in 0 .. Size - 1 /\ DOMAIN vm = 0 .. Size - 1
  BY SizeOfScreen DEF ScreenInv
<1>2. PICK e \in Effect(c).cells : cell = CellOf(e) /\ cell \notin 0 .. Size - 1
  BY <1>1, PrintIs
<1>3. CASE c = "newline"
  BY <1>2, <1>3, EffectIs
<1>4. CASE c = "backspace"
  <2>1. e = (cursor - 1) % Half
    BY <1>2, <1>4, EffectIs
  <2>2. CASE cursor = 0
    <3>1. e = Half - 1
      BY <2>1, <2>2, SmallOffset
    <3>2. cell = -1
      BY <1>2, <3>1, SizeOfScreen DEF CellOf
    <3> QED BY <1>4, <2>2, <3>2
  <2>3. CASE cursor # 0
    <3>1. cursor - 1 \in 0 .. Half - 1 /\ cursor - 1 \in 0 .. Size - 1
      BY <1>1, <2>3, SizeOfScreen
    <3>2. e = cursor - 1
      BY <2>1, <3>1, SmallOffset
    <3> QED BY <1>2, <3>1, <3>2, SizeOfScreen DEF CellOf
  <2> QED BY <2>2, <2>3
<1>5. CASE c = "tab"
  <2>1. e \in cursor .. cursor + 3
    <3>1. Effect(c).cells = cursor .. cursor + 3
      BY <1>5, EffectIs
    <3> QED BY <1>2, <3>1
  <2>2. cell = e
    BY <1>1, <1>2, <2>1, SizeOfScreen DEF CellOf
  <2> QED BY <1>1, <1>2, <1>5, <2>1, <2>2, SizeOfScreen
<1>6. CASE c \notin {"newline", "backspace", "tab"}
  <2>1. e = cursor
    BY <1>2, <1>6, EffectIs
  <2> QED BY <1>1, <1>2, <2>1, SizeOfScreen DEF CellOf
<1> QED BY <1>3, <1>4, <1>5, <1>6

(* Two actions print, and asked says what they print. *)
Printing(c, text_color, back_color) ==
  /\ print_char_color(c, text_color, back_color)
  /\ asked' = AskedFor(c, text_color, back_color)

LEMMA PrintersPrint ==
  ASSUME StackInv, SetChar \/ PrintChar
  PROVE  \E c, text_color, back_color : Printing(c, text_color, back_color)
<1>1. /\ Calling /\ pc # "return" /\ Len(call) \in Nat /\ Len(call) >= 4
  <2>1. CASE SetChar
    <3>1. Calling /\ pc # "return" /\ system_get_arg(0) = 1
      BY <2>1 DEF SetChar, Called, Calling
    <3> QED BY <3>1, CallServed
  <2>2. CASE PrintChar
    <3>1. Calling /\ pc = "chars"
      BY <2>2 DEF PrintChar, Calling
    <3>2. call[1] = 2
      BY <3>1 DEF StackInv, Framed, SET_CHARS
    <3> QED BY <3>1, <3>2, CallServed
  <2> QED BY <2>1, <2>2
<1>2. /\ system_get_arg(1) = call[2] /\ system_get_arg(2) = call[3]
      /\ system_get_arg(3) = call[4]
  <2>1. system_get_arg(1) = call[1 + 1]
    BY <1>1, ArgumentsThere
  <2>2. system_get_arg(2) = call[2 + 1]
    BY <1>1, ArgumentsThere
  <2>3. system_get_arg(3) = call[3 + 1]
    BY <1>1, ArgumentsThere
  <2> QED BY <2>1, <2>2, <2>3
<1>3. CASE SetChar
  <2>1. Printing(call[2], call[3], call[4])
    BY <1>2, <1>3 DEF SetChar, Printing
  <2> QED BY <2>1
<1>4. CASE PrintChar
  <2>1. Printing(Memory(call[2])[i + 1], call[3], call[4])
    BY <1>2, <1>4 DEF PrintChar, Printing
  <2> QED BY <2>1
<1> QED BY <1>3, <1>4

(* Other steps leave the screen, or move the cursor without printing. *)
LEMMA ScreenSteps ==
  ASSUME [Next]_vars
  PROVE  \/ SetChar \/ PrintChar
         \/ SetCursor \/ ClearScreen
         \/ UNCHANGED <<screenVars, asked>>
<1>1. CASE UNCHANGED vars
  BY <1>1 DEF vars
<1>2. CASE Formatting \/ PrintCall \/ Return \/ Release
  BY <1>2 DEF Formatting, PrintCall, Return, Release
<1>3. CASE GetChar \/ SetChars \/ CharsDone \/ GetCursor \/ UnknownCall
  BY <1>3 DEF GetChar, SetChars, CharsDone, GetCursor, UnknownCall
<1>4. CASE \E k \in DOMAIN Requests : PrintFormatted(k)
  BY <1>4 DEF PrintFormatted
<1>5. CASE \E passed \in SystemCalls : SystemCall(passed)
  BY <1>5 DEF SystemCall
<1>6. CASE Rest
  BY <1>6 DEF Rest, vars
<1> QED BY <1>1, <1>2, <1>3, <1>4, <1>5, <1>6 DEF Next, Step, Callback

(* A cursor that was moved off the screen is not lost: while a text is     *)
(* printed it never moves further away, on screens of every size.          *)
THEOREM ConsoleOffScreenReturns == Spec => OffScreenReturns
<1>1. ASSUME ConsoleInv, [Next]_vars
      PROVE  [(pc = "chars" /\ cursor >= Size) => cursor' < cursor]_cursor
  <2> SUFFICES ASSUME pc = "chars", cursor >= Size, cursor' # cursor
               PROVE  cursor' < cursor
    OBVIOUS
  <2>1. PrintChar
    BY <1>1, ScreenSteps DEF SetChar, SetCursor, ClearScreen, Called, screenVars
  <2>2. cursor' <= cursor
    BY <1>1, <2>1, PrintReturns DEF PrintChar, ConsoleInv
  <2>3. cursor \in Nat /\ cursor' \in Nat
    <3>1. ScreenInv /\ ScreenInv'
      BY <1>1, NextPreserves DEF ConsoleInv
    <3> QED BY <3>1, SizeOfScreen DEF ScreenInv
  <2> QED BY <2>2, <2>3
<1> QED BY <1>1, ConsoleInvariance, PTL DEF Spec, OffScreenReturns

(* While the cursor is on the screen the driver writes outside the text    *)
(* buffer in two cases only, on screens of every size: up to three cells   *)
(* of a tab behind it, and a backspace in front of it.                     *)
THEOREM ConsoleWritesNearBuffer == Spec => WritesNearBuffer
<1> DEFINE Near(cell) == \/ asked'.do = "tab" /\ cell \in Size .. Size + 2
                         \/ asked'.do = "back" /\ cursor = 0 /\ cell = -1
<1>1. ASSUME ConsoleInv, [Next]_vars
      PROVE  [cursor < Size => \A cell \in outside' \ outside : Near(cell)]_screenVars
  <2> SUFFICES ASSUME cursor < Size, NEW cell \in outside' \ outside
               PROVE  Near(cell)
    OBVIOUS
  <2>1. SetChar \/ PrintChar
    BY <1>1, ScreenSteps
       DEF SetCursor, set_cursor_offset, ClearScreen, clear_screen, screenVars
  <2>2. PICK c, text_color, back_color : Printing(c, text_color, back_color)
    BY <1>1, <2>1, PrintersPrint DEF ConsoleInv
  <2>3. \/ c = "tab" /\ cell \in Size .. Size + 2
        \/ c = "backspace" /\ cursor = 0 /\ cell = -1
    BY <1>1, <2>2, PrintWrites DEF ConsoleInv, Printing
  <2>4. (c = "tab" => asked'.do = "tab") /\ (c = "backspace" => asked'.do = "back")
    BY <2>2 DEF Printing, AskedFor
  <2> QED BY <2>3, <2>4
<1> QED BY <1>1, ConsoleInvariance, PTL DEF Spec, WritesNearBuffer

(***************************************************************************)
(* The buffer as a grid: the refinement of Terminal                        *)
(***************************************************************************)

GridOf(text) == [r \in 0 .. Rows - 1 |-> [c \in 0 .. Cols - 1 |-> text[r * Cols + c]]]

(* Multiplication is monotonic. *)
LEMMA Monotonic ==
  ASSUME NEW a \in Int, NEW b \in Int, NEW k \in Nat, a <= b
  PROVE  a * k <= b * k
<1>1. b * k = a * k + (b - a) * k /\ (b - a) * k \in Nat /\ a * k \in Int
  OBVIOUS
<1> QED BY <1>1

(* A row and a column, and nothing else, make an offset. *)
LEMMA DivMod ==
  ASSUME NEW k \in Nat, k > 0, NEW q \in Int, NEW m \in 0 .. k - 1
  PROVE  (q * k + m) \div k = q /\ (q * k + m) % k = m
<1> DEFINE o == q * k + m
           d == o \div k
           e == o % k
<1>1. o \in Int /\ d \in Int /\ e \in 0 .. k - 1 /\ o = k * d + e
  OBVIOUS
<1>2. q * k \in Int /\ d * k \in Int /\ d * k = k * d
  BY <1>1
<1>3. o = q * k + m
  OBVIOUS
<1> HIDE DEF o, d, e
<1>4. ~(d < q)
  <2> SUFFICES ASSUME d + 1 <= q PROVE FALSE
    BY <1>1
  <2>1. (d + 1) * k <= q * k
    BY <1>1, Monotonic
  <2>2. (d + 1) * k = d * k + k
    BY <1>1, <1>2
  <2> QED BY <1>1, <1>2, <1>3, <2>1, <2>2
<1>5. ~(q < d)
  <2> SUFFICES ASSUME q + 1 <= d PROVE FALSE
    BY <1>1
  <2>1. (q + 1) * k <= d * k
    BY <1>1, Monotonic
  <2>2. (q + 1) * k = q * k + k
    BY <1>1, <1>2
  <2> QED BY <1>1, <1>2, <1>3, <2>1, <2>2
<1>6. d = q
  BY <1>1, <1>4, <1>5
<1>7. e = m
  BY <1>1, <1>2, <1>3, <1>6
<1> QED BY <1>6, <1>7 DEF o, d, e

(* The offset of a row and a column. *)
LEMMA OffsetOf ==
  ASSUME NEW r \in Nat, NEW c \in 0 .. Cols - 1
  PROVE  /\ r * Cols + c \in Nat /\ (r + 1) * Cols + c = (r * Cols + c) + Cols
         /\ r < Rows <=> r * Cols + c < Size
         /\ r < Rows - 1 <=> r * Cols + c < Size - Cols
         /\ (r * Cols + c) \div Cols = r /\ (r * Cols + c) % Cols = c
<1>1. Cols \in Nat /\ Cols > 0 /\ Rows \in Nat /\ Rows > 0 /\ Size = Rows * Cols
  BY SizeOfScreen DEF Size
<1>2. r * Cols \in Nat /\ (r + 1) * Cols = r * Cols + Cols /\ Rows * Cols \in Nat
      /\ (Rows - 1) * Cols = Rows * Cols - Cols
  BY <1>1
<1>3. r < Rows => r * Cols + c < Size
  <2> SUFFICES ASSUME r + 1 <= Rows PROVE r * Cols + c < Size
    BY <1>1
  <2>1. (r + 1) * Cols <= Rows * Cols
    BY <1>1, Monotonic
  <2> QED BY <1>1, <1>2, <2>1
<1>4. ~(r < Rows) => ~(r * Cols + c < Size)
  <2> SUFFICES ASSUME Rows <= r PROVE Rows * Cols <= r * Cols
    BY <1>1, <1>2
  <2> QED BY <1>1, Monotonic
<1>5. r < Rows - 1 => r * Cols + c < Size - Cols
  <2> SUFFICES ASSUME r + 1 <= Rows - 1 PROVE r * Cols + c < Size - Cols
    BY <1>1
  <2>1. (r + 1) * Cols <= (Rows - 1) * Cols
    BY <1>1, Monotonic
  <2> QED BY <1>1, <1>2, <2>1
<1>6. ~(r < Rows - 1) => ~(r * Cols + c < Size - Cols)
  <2> SUFFICES ASSUME Rows - 1 <= r PROVE (Rows - 1) * Cols <= r * Cols
    BY <1>1, <1>2
  <2> QED BY <1>1, Monotonic
<1>7. (r * Cols + c) \div Cols = r /\ (r * Cols + c) % Cols = c
  BY <1>1, DivMod
<1> QED BY <1>1, <1>2, <1>3, <1>4, <1>5, <1>6, <1>7

(* The place of an offset on the screen, and of one behind it. *)
LEMMA PlaceIs ==
  /\ \A r \in 0 .. Rows - 1, c \in 0 .. Cols - 1 :
       PlaceOf(r * Cols + c) = [row |-> r, col |-> c]
  /\ \A o \in Nat : o >= Size => PlaceOf(o) = [row |-> -1, col |-> -1]
<1>1. ASSUME NEW r \in 0 .. Rows - 1, NEW c \in 0 .. Cols - 1
      PROVE  PlaceOf(r * Cols + c) = [row |-> r, col |-> c]
  <2>1. r \in Nat /\ r < Rows
    BY SizeOfScreen
  <2> QED BY <2>1, OffsetOf DEF PlaceOf
<1> QED BY <1>1, SizeOfScreen DEF PlaceOf

(* Every offset on the screen has a row and a column. *)
LEMMA PlaceOfCursor ==
  ASSUME NEW o \in 0 .. Size - 1
  PROVE  \E r \in 0 .. Rows - 1, c \in 0 .. Cols - 1 :
           o = r * Cols + c /\ o \div Cols = r /\ PlaceOf(o) = [row |-> r, col |-> c]
<1> DEFINE r == o \div Cols
           c == o % Cols
<1>1. Cols \in Nat /\ Cols > 0 /\ Rows \in Nat /\ Size \in Nat
  BY SizeOfScreen
<1>2. r \in Nat /\ c \in 0 .. Cols - 1 /\ o = Cols * r + c
  BY <1>1
<1>3. o = r * Cols + c
  BY <1>1, <1>2
<1> HIDE DEF r, c
<1>4. r < Rows
  BY <1>1, <1>2, <1>3, OffsetOf
<1>5. r \in 0 .. Rows - 1
  BY <1>1, <1>2, <1>4
<1> QED BY <1>2, <1>3, <1>5, PlaceIs DEF r

(* What an offset behind a printed text does to buffer and cursor. *)
Scrolled(next, text, vm1, cursor1) ==
  /\ next < Size => vm1 = text /\ cursor1 = next % CursorRange
  /\ ~(next < Size) =>
       /\ cursor1 = (next - Cols) % CursorRange
       /\ vm1 = [cell \in DOMAIN text |->
                   IF cell < Size - Cols THEN text[cell + Cols] ELSE Blank]

(* Settle of Terminal, of the rows and the head that it leads to. *)
Settled(text, at, rows1, head1) ==
  LET next == IF at.col >= Cols THEN [row |-> at.row + 1, col |-> at.col - Cols] ELSE at
      up   == next.row = Rows
  IN  /\ rows1 = IF up THEN [r \in 0 .. Rows - 1 |->
                              IF r = Rows - 1 THEN T!BlankRow ELSE text[r + 1]]
                 ELSE text
      /\ head1 = IF up THEN [next EXCEPT !.row = Rows - 1] ELSE next

LEMMA SettledIs ==
  ASSUME NEW text, NEW a, NEW b, NEW row, NEW col, NEW rows1, NEW head1, NEW up \in BOOLEAN,
         IF b >= Cols THEN row = a + 1 /\ col = b - Cols ELSE row = a /\ col = b,
         up <=> row = Rows,
         up => /\ rows1 = [r \in 0 .. Rows - 1 |->
                            IF r = Rows - 1 THEN T!BlankRow ELSE text[r + 1]]
               /\ head1 = [row |-> Rows - 1, col |-> col],
         ~up => rows1 = text /\ head1 = [row |-> row, col |-> col]
  PROVE  Settled(text, [row |-> a, col |-> b], rows1, head1)
<1> DEFINE at   == [row |-> a, col |-> b]
           next == IF at.col >= Cols THEN [row |-> at.row + 1, col |-> at.col - Cols] ELSE at
<1>1. next = [row |-> row, col |-> col]
  <2>1. CASE b >= Cols
    BY <2>1
  <2>2. CASE ~(b >= Cols)
    BY <2>2
  <2> QED BY <2>1, <2>2
<1>2. [next EXCEPT !.row = Rows - 1] = [row |-> Rows - 1, col |-> col] /\ next.row = row
  BY <1>1
<1> HIDE DEF next
<1>3. /\ rows1 = IF next.row = Rows
                 THEN [r \in 0 .. Rows - 1 |-> IF r = Rows - 1 THEN T!BlankRow ELSE text[r + 1]]
                 ELSE text
      /\ head1 = IF next.row = Rows THEN [next EXCEPT !.row = Rows - 1] ELSE next
  <2>1. CASE up
    BY <1>2, <2>1
  <2>2. CASE ~up
    BY <1>1, <1>2, <2>2
  <2> QED BY <2>1, <2>2
<1> QED BY <1>3 DEF Settled, next

(* scroll settles the head: an offset behind a row is on the next one, and *)
(* one behind the last row moves the rows up.                              *)
LEMMA ScrollSettles ==
  ASSUME NEW text, DOMAIN text = 0 .. Size - 1, NEW vm1, NEW cursor1,
         NEW a \in 0 .. Rows, NEW b \in 0 .. 2 * Cols - 1,
         IF a = Rows THEN b < Cols ELSE TRUE,
         Scrolled(a * Cols + b, text, vm1, cursor1)
  PROVE  Settled(GridOf(text), [row |-> a, col |-> b], GridOf(vm1), PlaceOf(cursor1))
<1>0. Cols \in Nat /\ Cols > 4 /\ Rows \in Nat /\ Rows > 0 /\ Size \in Nat
      /\ Size >= Cols /\ CursorRange \in Nat /\ CursorRange > Size + Cols
  BY SizeOfScreen
<1> DEFINE row == IF b >= Cols THEN a + 1 ELSE a
           col == IF b >= Cols THEN b - Cols ELSE b
           o   == row * Cols + col
<1>1. row \in 0 .. Rows /\ col \in 0 .. Cols - 1 /\ row \in Nat
  BY <1>0
<1>2. a * Cols + b = o
  <2>1. a * Cols \in Nat /\ (a + 1) * Cols = a * Cols + Cols
    BY <1>0
  <2> QED BY <1>0, <2>1
<1>3. IF b >= Cols THEN row = a + 1 /\ col = b - Cols ELSE row = a /\ col = b
  OBVIOUS
<1> HIDE DEF row, col
<1>4. /\ o \in Nat /\ (o < Size <=> row < Rows)
      /\ \A r \in 0 .. Rows - 1, c \in 0 .. Cols - 1 :
           /\ r * Cols + c \in 0 .. Size - 1
           /\ r < Rows - 1 <=> r * Cols + c < Size - Cols
           /\ (r + 1) * Cols + c = (r * Cols + c) + Cols
  <2>1. ASSUME NEW r \in 0 .. Rows - 1, NEW c \in 0 .. Cols - 1
        PROVE  /\ r * Cols + c \in 0 .. Size - 1
               /\ r < Rows - 1 <=> r * Cols + c < Size - Cols
               /\ (r + 1) * Cols + c = (r * Cols + c) + Cols
    <3>1. r \in Nat /\ r < Rows
      BY <1>0
    <3>2. /\ r * Cols + c \in Nat /\ r * Cols + c < Size
          /\ r < Rows - 1 <=> r * Cols + c < Size - Cols
          /\ (r + 1) * Cols + c = (r * Cols + c) + Cols
      BY <3>1, OffsetOf
    <3> QED BY <1>0, <3>2
  <2>2. o \in Nat /\ (o < Size <=> row < Rows)
    BY <1>1, OffsetOf
  <2> QED BY <2>1, <2>2
<1>5. CASE row < Rows
  <2>1. vm1 = text /\ cursor1 = o % CursorRange
    BY <1>2, <1>4, <1>5 DEF Scrolled
  <2>2. cursor1 = o
    <3>1. o \in 0 .. CursorRange - 1
      BY <1>0, <1>4, <1>5
    <3> QED BY <2>1, <3>1, SmallOffset
  <2>3. PlaceOf(cursor1) = [row |-> row, col |-> col]
    <3>1. row \in 0 .. Rows - 1
      BY <1>0, <1>1, <1>5
    <3>2. PlaceOf(o) = [row |-> row, col |-> col]
      BY <1>1, <3>1, PlaceIs
    <3> QED BY <2>2, <3>2
  <2>4. GridOf(vm1) = GridOf(text)
    BY <2>1 DEF GridOf
  <2>5. row # Rows
    BY <1>0, <1>1, <1>5
  <2> QED BY <1>3, <2>3, <2>4, <2>5, SettledIs
<1>6. CASE row = Rows
  <2>1. /\ cursor1 = (o - Cols) % CursorRange
        /\ vm1 = [cell \in 0 .. Size - 1 |->
                    IF cell < Size - Cols THEN text[cell + Cols] ELSE Blank]
    BY <1>0, <1>2, <1>4, <1>6 DEF Scrolled
  <2>2. o - Cols = (Rows - 1) * Cols + col
    <3>1. (Rows - 1) * Cols = Rows * Cols - Cols /\ Rows * Cols \in Nat
      BY <1>0
    <3> QED BY <1>0, <1>1, <1>6, <3>1
  <2>3. cursor1 = (Rows - 1) * Cols + col
    <3>1. Rows - 1 \in 0 .. Rows - 1
      BY <1>0
    <3>2. (Rows - 1) * Cols + col \in 0 .. CursorRange - 1
      <4> DEFINE last == Rows - 1
      <4>1. last \in 0 .. Rows - 1
        BY <3>1
      <4> HIDE DEF last
      <4>2. last * Cols + col \in 0 .. Size - 1
        BY <1>1, <1>4, <4>1
      <4>3. last * Cols + col \in 0 .. CursorRange - 1
        BY <1>0, <4>2
      <4> QED BY <4>3 DEF last
    <3> QED BY <2>1, <2>2, <3>2, SmallOffset
  <2>4. PlaceOf(cursor1) = [row |-> Rows - 1, col |-> col]
    <3>1. Rows - 1 \in 0 .. Rows - 1
      BY <1>0
    <3>2. PlaceOf((Rows - 1) * Cols + col) = [row |-> Rows - 1, col |-> col]
      BY <1>1, <3>1, PlaceIs
    <3> QED BY <2>3, <3>2
  <2>5. GridOf(vm1) = [r \in 0 .. Rows - 1 |->
                        IF r = Rows - 1 THEN T!BlankRow ELSE GridOf(text)[r + 1]]
    <3>1. ASSUME NEW r \in 0 .. Rows - 1, NEW c \in 0 .. Cols - 1
          PROVE  vm1[r * Cols + c]
                   = IF r = Rows - 1 THEN Blank ELSE GridOf(text)[r + 1][c]
      <4>1. CASE r = Rows - 1
        <5>1. ~(r < Rows - 1)
          BY <1>0, <4>1
        <5>2. vm1[r * Cols + c] = Blank
          BY <1>4, <2>1, <5>1
        <5> QED BY <4>1, <5>2
      <4>2. CASE r # Rows - 1
        <5>1. r < Rows - 1 /\ r + 1 \in 0 .. Rows - 1
          BY <1>0, <4>2
        <5>2. vm1[r * Cols + c] = text[(r * Cols + c) + Cols]
          BY <1>4, <2>1, <5>1
        <5>3. GridOf(text)[r + 1][c] = text[(r + 1) * Cols + c]
          BY <5>1 DEF GridOf
        <5> QED BY <1>4, <4>2, <5>2, <5>3
      <4> QED BY <4>1, <4>2
    <3>2. ASSUME NEW r \in 0 .. Rows - 1
          PROVE  [c \in 0 .. Cols - 1 |-> vm1[r * Cols + c]]
                   = IF r = Rows - 1 THEN T!BlankRow ELSE GridOf(text)[r + 1]
      <4>1. CASE r = Rows - 1
        BY <3>1, <4>1 DEF T!BlankRow
      <4>2. CASE r # Rows - 1
        <5>1. r + 1 \in 0 .. Rows - 1
          BY <1>0, <4>2
        <5>2. GridOf(text)[r + 1] = [c \in 0 .. Cols - 1 |-> GridOf(text)[r + 1][c]]
          BY <5>1 DEF GridOf
        <5> QED BY <3>1, <4>2, <5>2
      <4> QED BY <4>1, <4>2
    <3> QED BY <3>2 DEF GridOf
  <2> QED BY <1>3, <1>6, <2>4, <2>5, SettledIs
<1> QED BY <1>0, <1>1, <1>5, <1>6

(* The cells that a character paints, as cells of the grid. *)
PaintedOver(text, cells, cell) ==
  [r \in 0 .. Rows - 1 |-> [k \in 0 .. Cols - 1 |->
     IF r * Cols + k \in cells THEN cell ELSE text[r * Cols + k]]]

LEMMA PaintedGrid ==
  ASSUME ScreenInv, NEW c, NEW cells, NEW text_color, NEW back_color
  PROVE  /\ DOMAIN Painted(c, cells, text_color, back_color) = 0 .. Size - 1
         /\ GridOf(Painted(c, cells, text_color, back_color))
              = PaintedOver(vm, cells, <<Shown(c), text_color, back_color>>)
<1> DEFINE text == Painted(c, cells, text_color, back_color)
           cell == <<Shown(c), text_color, back_color>>
<1>1. DOMAIN vm = 0 .. Size - 1
  BY DEF ScreenInv
<1>2. text = [o \in 0 .. Size - 1 |-> IF o \in cells THEN cell ELSE vm[o]]
  BY <1>1 DEF Painted
<1>3. ASSUME NEW r \in 0 .. Rows - 1, NEW k \in 0 .. Cols - 1
      PROVE  text[r * Cols + k]
               = IF r * Cols + k \in cells THEN cell ELSE vm[r * Cols + k]
  <2>1. r * Cols + k \in 0 .. Size - 1
    <3>1. r \in Nat /\ r < Rows
      BY SizeOfScreen
    <3>2. r * Cols + k \in Nat /\ r * Cols + k < Size
      BY <3>1, OffsetOf
    <3> QED BY <3>2, SizeOfScreen
  <2> HIDE DEF cell
  <2> QED BY <1>2, <2>1
<1> HIDE DEF text, cell
<1>4. GridOf(text) = PaintedOver(vm, cells, cell)
  BY <1>3 DEF GridOf, PaintedOver
<1> QED BY <1>2, <1>4 DEF text, cell

(* One cell of the buffer is one cell of the grid. *)
CellSet(rows, r, k, cell) == [rows EXCEPT ![r][k] = cell]

LEMMA OneCell ==
  ASSUME NEW text, NEW cell, NEW r0 \in 0 .. Rows - 1, NEW k0 \in 0 .. Cols - 1,
         NEW o, o = r0 * Cols + k0
  PROVE  PaintedOver(text, {o}, cell) = CellSet(GridOf(text), r0, k0, cell)
<1>1. ASSUME NEW r \in 0 .. Rows - 1, NEW k \in 0 .. Cols - 1
      PROVE  r * Cols + k = o <=> r = r0 /\ k = k0
  <2>1. r \in Nat /\ r0 \in Nat
    BY SizeOfScreen
  <2>2. /\ (r * Cols + k) \div Cols = r /\ (r * Cols + k) % Cols = k
        /\ (r0 * Cols + k0) \div Cols = r0 /\ (r0 * Cols + k0) % Cols = k0
    BY <2>1, OffsetOf
  <2> QED BY <2>2
<1>2. CellSet(GridOf(text), r0, k0, cell)
        = [r \in 0 .. Rows - 1 |-> [k \in 0 .. Cols - 1 |->
             IF r = r0 /\ k = k0 THEN cell ELSE text[r * Cols + k]]]
  BY DEF GridOf, CellSet
<1>3. PaintedOver(text, {o}, cell)
        = [r \in 0 .. Rows - 1 |-> [k \in 0 .. Cols - 1 |->
             IF r = r0 /\ k = k0 THEN cell ELSE text[r * Cols + k]]]
  BY <1>1 DEF PaintedOver
<1> QED BY <1>2, <1>3

(* print_char_color, in the words of Scrolled. *)
LEMMA PrintScrolls ==
  ASSUME NEW c, NEW text_color, NEW back_color, Printing(c, text_color, back_color)
  PROVE  /\ Scrolled(Effect(c).next, Painted(c, Effect(c).cells, text_color, back_color),
                     vm', cursor')
         /\ asked'.cell = <<Shown(c), text_color, back_color>>
<1>1. asked'.cell = <<Shown(c), text_color, back_color>>
  BY DEF Printing, AskedFor
<1> QED BY <1>1, PrintIs DEF Scrolled, Printing

(* The buffer and the cursor as the variables of Terminal. *)
LEMMA Mapped ==
  LET rows == [r \in 0 .. Rows - 1 |-> [c \in 0 .. Cols - 1 |-> vm[r * Cols + c]]]
  IN  /\ rows = GridOf(vm) /\ rows' = GridOf(vm') /\ DOMAIN rows = 0 .. Rows - 1
      /\ PlaceOf(cursor)' = PlaceOf(cursor')
<1>1. PlaceOf(cursor)' = PlaceOf(cursor')
  BY DEF PlaceOf, Size
<1> QED BY <1>1 DEF GridOf

(* A printed character is a step of the terminal. *)
LEMMA PutImplements ==
  ASSUME ScreenInv, cursor < Size, NEW c, c \notin {"newline", "backspace", "tab"},
         NEW text_color, NEW back_color, Printing(c, text_color, back_color)
  PROVE  T!Put
<1>1. cursor \in 0 .. Size - 1
  BY SizeOfScreen DEF ScreenInv
<1>2. PICK r \in 0 .. Rows - 1, k \in 0 .. Cols - 1 :
        cursor = r * Cols + k /\ PlaceOf(cursor) = [row |-> r, col |-> k]
  BY <1>1, PlaceOfCursor
<1> DEFINE text == Painted(c, {cursor}, text_color, back_color)
           rows == [x \in 0 .. Rows - 1 |-> [y \in 0 .. Cols - 1 |-> vm[x * Cols + y]]]
           k1   == k + 1
<1>3. Scrolled(cursor + 1, text, vm', cursor') /\ asked'.cell = <<Shown(c), text_color, back_color>>
  <2>1. Effect(c).next = cursor + 1 /\ Effect(c).cells = {cursor}
    BY EffectIs
  <2>2. /\ Scrolled(Effect(c).next, Painted(c, Effect(c).cells, text_color, back_color),
                    vm', cursor')
        /\ asked'.cell = <<Shown(c), text_color, back_color>>
    BY PrintScrolls, Zenon
  <2> QED BY <2>1, <2>2
<1>4. /\ DOMAIN text = 0 .. Size - 1
      /\ GridOf(text) = PaintedOver(vm, {cursor}, asked'.cell)
  BY <1>3, PaintedGrid
<1>5. rows = GridOf(vm) /\ rows' = GridOf(vm') /\ DOMAIN rows = 0 .. Rows - 1
      /\ PlaceOf(cursor)' = PlaceOf(cursor')
  BY Mapped
<1>6. r * Cols + k1 = cursor + 1 /\ k1 \in 0 .. 2 * Cols - 1 /\ r \in 0 .. Rows /\ r # Rows
  <2>1. r * Cols \in Int /\ k \in Int /\ Cols \in Nat /\ Cols > 4 /\ Rows \in Nat
    BY SizeOfScreen
  <2> QED BY <1>2, <2>1
<1> HIDE DEF text, rows, k1
<1>7. GridOf(text) = [rows EXCEPT ![r][k] = asked'.cell]
  <2>1. PaintedOver(vm, {cursor}, asked'.cell) = CellSet(GridOf(vm), r, k, asked'.cell)
    BY <1>2, OneCell
  <2> QED BY <1>4, <1>5, <2>1 DEF CellSet
<1>8. Settled(GridOf(text), [row |-> r, col |-> k1], rows', PlaceOf(cursor'))
  BY <1>3, <1>4, <1>5, <1>6, ScrollSettles
<1>9. PlaceOf(cursor).row = r /\ PlaceOf(cursor).col = k
  BY <1>2
<1>10. Settled([rows EXCEPT ![PlaceOf(cursor).row][PlaceOf(cursor).col] = asked'.cell],
               [row |-> PlaceOf(cursor).row, col |-> PlaceOf(cursor).col + 1],
               rows', PlaceOf(cursor)')
  BY <1>5, <1>7, <1>8, <1>9 DEF k1
<1> QED BY <1>5, <1>10 DEF Settled, T!Put, T!Settle, T!At, rows

(* A newline leads to the first column of the next row. *)
LEMMA NewLineImplements ==
  ASSUME ScreenInv, cursor < Size, NEW c, c = "newline",
         NEW text_color, NEW back_color, Printing(c, text_color, back_color)
  PROVE  T!NewLine
<1>1. cursor \in 0 .. Size - 1
  BY SizeOfScreen DEF ScreenInv
<1>2. PICK r \in 0 .. Rows - 1, k \in 0 .. Cols - 1 :
        cursor \div Cols = r /\ PlaceOf(cursor) = [row |-> r, col |-> k]
  BY <1>1, PlaceOfCursor
<1> DEFINE text == Painted(c, {}, text_color, back_color)
           rows == [x \in 0 .. Rows - 1 |-> [y \in 0 .. Cols - 1 |-> vm[x * Cols + y]]]
           r1   == r + 1
<1>3. Scrolled(r1 * Cols + 0, text, vm', cursor')
  <2>1. Effect(c).next = Cols * (cursor \div Cols + 1) /\ Effect(c).cells = {}
    BY EffectIs
  <2>2. Cols * (cursor \div Cols + 1) = r1 * Cols + 0
    <3>1. Cols \in Nat /\ r \in Nat
      BY SizeOfScreen
    <3> QED BY <1>2, <3>1
  <2> QED BY <2>1, <2>2, PrintScrolls
<1>4. DOMAIN text = 0 .. Size - 1 /\ GridOf(text) = GridOf(vm)
  <2> DEFINE cell == <<Shown(c), text_color, back_color>>
  <2>1. DOMAIN text = 0 .. Size - 1 /\ GridOf(text) = PaintedOver(vm, {}, cell)
    BY PaintedGrid
  <2> HIDE DEF cell, text
  <2>2. PaintedOver(vm, {}, cell) = GridOf(vm)
    BY DEF PaintedOver, GridOf
  <2> QED BY <2>1, <2>2
<1>5. rows = GridOf(vm) /\ rows' = GridOf(vm') /\ DOMAIN rows = 0 .. Rows - 1
      /\ PlaceOf(cursor)' = PlaceOf(cursor')
  BY Mapped
<1>6. r1 \in 0 .. Rows /\ 0 \in 0 .. 2 * Cols - 1 /\ 0 < Cols
  BY SizeOfScreen
<1> HIDE DEF text, rows, r1
<1>7. Settled(GridOf(text), [row |-> r1, col |-> 0], rows', PlaceOf(cursor'))
  <2> DEFINE b == 0
  <2>1. Scrolled(r1 * Cols + b, text, vm', cursor') /\ b \in 0 .. 2 * Cols - 1 /\ b < Cols
    BY <1>3, <1>6
  <2> HIDE DEF b
  <2>2. Settled(GridOf(text), [row |-> r1, col |-> b], rows', PlaceOf(cursor'))
    BY <1>4, <1>5, <1>6, <2>1, ScrollSettles
  <2> QED BY <2>2 DEF b
<1>8. PlaceOf(cursor).row = r
  BY <1>2
<1>9. Settled(rows, [row |-> PlaceOf(cursor).row + 1, col |-> 0], rows', PlaceOf(cursor)')
  BY <1>4, <1>5, <1>7, <1>8 DEF r1
<1> QED BY <1>5, <1>9 DEF Settled, T!NewLine, T!Settle, T!At, rows

(* A tab paints the four cells that start at the head. *)
LEMMA TabImplements ==
  ASSUME ScreenInv, cursor < Size, NEW c, c = "tab",
         NEW text_color, NEW back_color, Printing(c, text_color, back_color)
  PROVE  T!Tab
<1>1. cursor \in 0 .. Size - 1
  BY SizeOfScreen DEF ScreenInv
<1>2. PICK r \in 0 .. Rows - 1, k \in 0 .. Cols - 1 :
        cursor = r * Cols + k /\ PlaceOf(cursor) = [row |-> r, col |-> k]
  BY <1>1, PlaceOfCursor
<1> DEFINE cells == cursor .. cursor + 3
           text  == Painted(c, cells, text_color, back_color)
           rows  == [x \in 0 .. Rows - 1 |-> [y \in 0 .. Cols - 1 |-> vm[x * Cols + y]]]
           k4    == k + 4
           tabbed == [x \in DOMAIN rows |-> [y \in 0 .. Cols - 1 |->
                       IF (x - PlaceOf(cursor).row) * Cols + y - PlaceOf(cursor).col \in 0 .. 3
                       THEN asked'.cell ELSE rows[x][y]]]
<1>3. Scrolled(cursor + 4, text, vm', cursor') /\ asked'.cell = <<Shown(c), text_color, back_color>>
  <2>1. Effect(c).next = cursor + 4 /\ Effect(c).cells = cells
    BY EffectIs
  <2> QED BY <2>1, PrintScrolls
<1>4. DOMAIN text = 0 .. Size - 1 /\ GridOf(text) = PaintedOver(vm, cells, asked'.cell)
  BY <1>3, PaintedGrid
<1>5. rows = GridOf(vm) /\ rows' = GridOf(vm') /\ DOMAIN rows = 0 .. Rows - 1
      /\ PlaceOf(cursor)' = PlaceOf(cursor')
  BY Mapped
<1>6. r * Cols + k4 = cursor + 4 /\ k4 \in 0 .. 2 * Cols - 1 /\ r \in 0 .. Rows /\ r # Rows
  <2>1. r * Cols \in Int /\ k \in Int /\ Cols \in Nat /\ Cols > 4 /\ Rows \in Nat
    BY SizeOfScreen
  <2> QED BY <1>2, <2>1
<1>7. PlaceOf(cursor).row = r /\ PlaceOf(cursor).col = k
  BY <1>2
<1>8. PaintedOver(vm, cells, asked'.cell) = tabbed
  <2>1. ASSUME NEW x \in 0 .. Rows - 1, NEW y \in 0 .. Cols - 1
        PROVE  x * Cols + y \in cells <=> (x - r) * Cols + y - k \in 0 .. 3
    <3> DEFINE m == x * Cols
               n == r * Cols
               d == (x - r) * Cols
    <3>1. d = m - n /\ m \in Int /\ n \in Int /\ y \in Int /\ k \in Int /\ cursor = n + k
      BY <1>2, SizeOfScreen
    <3> HIDE DEF m, n, d
    <3>2. m + y \in cells <=> d + y - k \in 0 .. 3
      BY <3>1
    <3> QED BY <3>2 DEF m, d
  <2>2. \A x \in 0 .. Rows - 1, y \in 0 .. Cols - 1 : rows[x][y] = vm[x * Cols + y]
    OBVIOUS
  <2> HIDE DEF cells, rows
  <2>3. tabbed = [x \in 0 .. Rows - 1 |-> [y \in 0 .. Cols - 1 |->
                   IF (x - r) * Cols + y - k \in 0 .. 3 THEN asked'.cell ELSE vm[x * Cols + y]]]
    BY <1>5, <1>7, <2>2
  <2>4. PaintedOver(vm, cells, asked'.cell)
          = [x \in 0 .. Rows - 1 |-> [y \in 0 .. Cols - 1 |->
              IF (x - r) * Cols + y - k \in 0 .. 3 THEN asked'.cell ELSE vm[x * Cols + y]]]
    BY <2>1 DEF PaintedOver
  <2> QED BY <2>3, <2>4
<1> HIDE DEF text, rows, k4, tabbed
<1>9. Settled(GridOf(text), [row |-> r, col |-> k4], rows', PlaceOf(cursor'))
  BY <1>3, <1>4, <1>5, <1>6, ScrollSettles
<1>10. Settled(tabbed, [row |-> PlaceOf(cursor).row, col |-> PlaceOf(cursor).col + 4],
               rows', PlaceOf(cursor)')
  BY <1>4, <1>5, <1>7, <1>8, <1>9 DEF k4
<1> QED BY <1>5, <1>10 DEF Settled, T!Tab, T!Settle, T!At, rows, tabbed

(* The cursor in front of the first cell is kept behind the screen. *)
LEMMA FrontIsBehind ==
  (Half - 1 - Cols) % CursorRange = CursorRange - 1 - Cols
<1> DEFINE q == Half \div CursorRange
           m == CursorRange - 1 - Cols
<1>1. CursorRange \in Nat /\ CursorRange > 0 /\ Half \in Nat /\ Cols \in Nat
      /\ Half % CursorRange = 0 /\ CursorRange > Cols
  BY SizeOfScreen
<1>2. q \in Int /\ Half = CursorRange * q
  BY <1>1
<1>3. m \in 0 .. CursorRange - 1
  BY <1>1
<1> HIDE DEF q
<1>4. Half - 1 - Cols = (q - 1) * CursorRange + m
  <2>1. (q - 1) * CursorRange = CursorRange * q - CursorRange /\ CursorRange * q \in Int
    BY <1>1, <1>2
  <2> QED BY <1>1, <1>2, <2>1
<1> DEFINE q1 == q - 1
<1>5. q1 \in Int /\ Half - 1 - Cols = q1 * CursorRange + m
  BY <1>2, <1>4
<1> HIDE DEF q1, m
<1>6. (q1 * CursorRange + m) % CursorRange = m
  BY <1>1, <1>3, <1>5, DivMod
<1> QED BY <1>5, <1>6 DEF m

(* A backspace blanks the cell in front of the head, and leaves the screen *)
(* from the first one.                                                     *)
LEMMA BackImplements ==
  ASSUME ScreenInv, cursor < Size, NEW c, c = "backspace",
         NEW text_color, NEW back_color, Printing(c, text_color, back_color)
  PROVE  T!Back
<1>0. /\ Cols \in Nat /\ Cols > 4 /\ Rows \in Nat /\ Rows > 0 /\ Size \in Nat /\ Size >= Cols
      /\ CursorRange \in Nat /\ CursorRange > Size + Cols
      /\ Half \in Nat /\ Half > CursorRange + Cols + 1
  BY SizeOfScreen
<1>1. cursor \in 0 .. Size - 1
  BY <1>0 DEF ScreenInv
<1>2. PICK r \in 0 .. Rows - 1, k \in 0 .. Cols - 1 :
        cursor = r * Cols + k /\ PlaceOf(cursor) = [row |-> r, col |-> k]
  BY <1>1, PlaceOfCursor
<1> DEFINE o    == (cursor - 1) % Half
           text == Painted(c, {o}, text_color, back_color)
           rows == [x \in 0 .. Rows - 1 |-> [y \in 0 .. Cols - 1 |-> vm[x * Cols + y]]]
           to   == IF PlaceOf(cursor).col > 0
                   THEN [row |-> PlaceOf(cursor).row, col |-> PlaceOf(cursor).col - 1]
                   ELSE [row |-> PlaceOf(cursor).row - 1, col |-> Cols - 1]
<1>3. Scrolled(o, text, vm', cursor') /\ asked'.cell = <<Shown(c), text_color, back_color>>
  <2>1. Effect(c).next = o /\ Effect(c).cells = {o}
    BY EffectIs
  <2> HIDE DEF o
  <2> QED BY <2>1, PrintScrolls
<1>4. GridOf(text) = PaintedOver(vm, {o}, asked'.cell)
  BY <1>3, PaintedGrid
<1>5. rows = GridOf(vm) /\ rows' = GridOf(vm') /\ PlaceOf(cursor)' = PlaceOf(cursor')
  BY Mapped
<1>6. PlaceOf(cursor).row = r /\ PlaceOf(cursor).col = k
  BY <1>2
<1>7. cursor = 0 <=> PlaceOf(cursor) = T!Home
  <2>1. PlaceOf(cursor) = T!Home <=> r = 0 /\ k = 0
    BY <1>2 DEF T!Home, T!At
  <2>2. (0 * Cols + 0) = 0 /\ r * Cols \in Nat /\ k \in Nat
    BY <1>0
  <2>3. r # 0 => r * Cols > 0
    BY <1>0
  <2> QED BY <1>2, <2>1, <2>2, <2>3
<1>8. CASE cursor = 0
  <2>1. o = Half - 1
    BY <1>8, SmallOffset
  <2> HIDE DEF o
  <2>2. cursor' = (o - Cols) % CursorRange
    BY <1>0, <1>3, <2>1 DEF Scrolled
  <2>3. cursor' = CursorRange - 1 - Cols
    BY <1>0, <2>1, <2>2, FrontIsBehind
  <2>4. PlaceOf(cursor') = [row |-> -1, col |-> -1]
    <3>1. cursor' \in Nat /\ cursor' >= Size
      BY <1>0, <2>3
    <3> QED BY <3>1, PlaceIs
  <2> QED BY <1>5, <1>7, <1>8, <2>4 DEF T!Back, T!Off, T!At
<1>9. CASE cursor # 0
  <2>1. o = cursor - 1 /\ o \in 0 .. Size - 1 /\ o < Size /\ o \in 0 .. CursorRange - 1
    <3>1. cursor - 1 \in 0 .. Half - 1 /\ cursor - 1 \in 0 .. Size - 1
      BY <1>0, <1>1, <1>9
    <3>2. o = cursor - 1
      BY <3>1, SmallOffset
    <3> HIDE DEF o
    <3> QED BY <1>0, <3>1, <3>2
  <2> HIDE DEF o, text
  <2>2. vm' = text /\ cursor' = o
    BY <1>3, <2>1, SmallOffset DEF Scrolled
  <2>3. PICK r1 \in 0 .. Rows - 1, k1 \in 0 .. Cols - 1 :
          o = r1 * Cols + k1 /\ to = [row |-> r1, col |-> k1]
    <3>1. CASE k > 0
      <4>1. k - 1 \in 0 .. Cols - 1
        BY <1>0, <3>1
      <4>2. o = r * Cols + (k - 1)
        <5>1. r * Cols \in Int /\ k \in Int
          BY <1>0
        <5> QED BY <1>2, <2>1, <5>1
      <4>3. to = [row |-> r, col |-> k - 1]
        BY <1>6, <3>1
      <4> HIDE DEF to
      <4> QED BY <4>1, <4>2, <4>3
    <3>2. CASE ~(k > 0)
      <4>1. k = 0 /\ r # 0
        BY <1>0, <1>2, <1>9, <3>2
      <4>2. r - 1 \in 0 .. Rows - 1 /\ Cols - 1 \in 0 .. Cols - 1
        BY <1>0, <4>1
      <4>3. o = (r - 1) * Cols + (Cols - 1)
        <5>1. (r - 1) * Cols = r * Cols - Cols /\ r * Cols \in Int
          BY <1>0
        <5> QED BY <1>0, <1>2, <2>1, <4>1, <5>1
      <4>4. to = [row |-> r - 1, col |-> Cols - 1]
        BY <1>6, <3>2
      <4> HIDE DEF to
      <4> QED BY <4>2, <4>3, <4>4
    <3> QED BY <3>1, <3>2
  <2>4. PlaceOf(cursor') = to
    BY <2>2, <2>3, PlaceIs
  <2> HIDE DEF to, rows
  <2>5. rows' = [rows EXCEPT ![to.row][to.col] = asked'.cell]
    <3>1. PaintedOver(vm, {o}, asked'.cell) = CellSet(GridOf(vm), r1, k1, asked'.cell)
      BY <2>3, OneCell
    <3>2. rows' = CellSet(rows, r1, k1, asked'.cell)
      BY <1>4, <1>5, <2>2, <3>1
    <3>3. to.row = r1 /\ to.col = k1
      BY <2>3
    <3> QED BY <3>2, <3>3 DEF CellSet
  <2>6. PlaceOf(cursor) # T!Home
    BY <1>7, <1>9
  <2>7. PlaceOf(cursor)' = to
    BY <1>5, <2>4
  <2> QED BY <2>5, <2>6, <2>7 DEF T!Back, T!At, to, rows
<1> QED BY <1>8, <1>9

(* Callers move the cursor to places that its registers can hold.  The     *)
(* driver does not check: a larger offset would be cut, and might be on    *)
(* the screen again.                                                       *)
OffsetsFit == \A passed \in SystemCalls : passed[1] = 4 => passed[2] < CursorRange

MovesFit == pc = "callback" /\ call[1] = 4 => call[2] < CursorRange

LEMMA MovesStayFit ==
  ASSUME OffsetsFit, MovesFit, [Next]_vars
  PROVE  MovesFit'
<1> SUFFICES ASSUME pc' = "callback", call'[1] = 4
             PROVE  call'[2] < CursorRange
  BY DEF MovesFit
<1>1. CASE UNCHANGED <<pc, call>>
  BY <1>1 DEF MovesFit
<1>2. CASE PrintCall
  BY <1>2 DEF PrintCall, SET_CHARS
<1>3. CASE \E passed \in SystemCalls : SystemCall(passed)
  BY <1>3 DEF SystemCall, OffsetsFit
<1>4. CASE Formatting \/ Return \/ Release \/ Rest \/ UNCHANGED vars
  BY <1>1, <1>4 DEF Formatting, Return, Release, Rest, vars
<1>5. CASE Callback
  BY <1>1, <1>5 DEF Callback, GetChar, SetChar, SetChars, PrintChar, CharsDone, GetCursor,
     SetCursor, ClearScreen, UnknownCall, Answer
<1>6. CASE \E k \in DOMAIN Requests : PrintFormatted(k)
  BY <1>6 DEF PrintFormatted
<1> QED BY <1>2, <1>3, <1>4, <1>5, <1>6 DEF Next, Step

(* A blank screen and the cursor at the first cell are the terminal's      *)
(* beginning.                                                              *)
LEMMA InitImplements ==
  ASSUME Init
  PROVE  T!Init
<1>1. vm = [cell \in 0 .. Size - 1 |-> Blank] /\ cursor = 0 /\ asked = [do |-> "nothing"]
  BY DEF Init, ScreenInit
<1>2. PlaceOf(cursor) = T!Home
  <2>1. 0 \in 0 .. Rows - 1 /\ 0 \in 0 .. Cols - 1 /\ 0 * Cols + 0 = 0
    BY SizeOfScreen
  <2>2. 0 \div Cols = 0 /\ 0 % Cols = 0 /\ 0 < Size
    BY SizeOfScreen
  <2> QED BY <1>1, <2>2 DEF PlaceOf, T!Home, T!At
<1>3. ASSUME NEW r \in 0 .. Rows - 1, NEW c \in 0 .. Cols - 1
      PROVE  vm[r * Cols + c] = Blank
  <2>1. r \in Nat /\ r < Rows
    BY SizeOfScreen
  <2>2. r * Cols + c \in Nat /\ r * Cols + c < Size
    BY <2>1, OffsetOf
  <2>3. r * Cols + c \in 0 .. Size - 1
    BY <2>2, SizeOfScreen
  <2> QED BY <1>1, <2>3
<1>4. GridOf(vm) = T!Empty
  BY <1>3 DEF GridOf, T!Empty, T!BlankRow
<1> QED BY <1>1, <1>2, <1>4 DEF T!Init, GridOf

(* Every step of the console is a step of the terminal or leaves it alone. *)
LEMMA StepImplements ==
  ASSUME ConsoleInv, MovesFit, [Next]_vars
  PROVE  [T!Next]_(T!terminalVars)
<1>0. ScreenInv
  BY DEF ConsoleInv
<1>1. CASE UNCHANGED <<screenVars, asked>>
  BY <1>1 DEF screenVars, T!terminalVars, PlaceOf, Size
<1>2. CASE PlaceOf(cursor) = T!Off
  BY <1>2 DEF T!Next
<1>3. CASE SetChar \/ PrintChar
  <2>1. PICK c, text_color, back_color : Printing(c, text_color, back_color)
    BY <1>3, PrintersPrint DEF ConsoleInv
  <2>2. CASE cursor >= Size
    <3>1. PlaceOf(cursor) = [row |-> -1, col |-> -1]
      BY <1>0, <2>2, PlaceIs, SizeOfScreen DEF ScreenInv
    <3> QED BY <1>2, <3>1 DEF T!Off, T!At
  <2>3. CASE ~(cursor >= Size) /\ PlaceOf(cursor) # T!Off
    <3>0. cursor < Size
      BY <1>0, <2>3, SizeOfScreen DEF ScreenInv
    <3>1. CASE c = "newline"
      <4>1. asked'.do = "newline"
        BY <2>1, <3>1 DEF Printing, AskedFor
      <4>2. T!NewLine
        BY <1>0, <2>1, <3>0, <3>1, NewLineImplements
      <4> QED BY <2>3, <4>1, <4>2 DEF T!Next, T!Write
    <3>2. CASE c = "backspace"
      <4>1. asked'.do = "back"
        BY <2>1, <3>2 DEF Printing, AskedFor
      <4>2. T!Back
        BY <1>0, <2>1, <3>0, <3>2, BackImplements
      <4> QED BY <2>3, <4>1, <4>2 DEF T!Next, T!Write
    <3>3. CASE c = "tab"
      <4>1. asked'.do = "tab"
        BY <2>1, <3>3 DEF Printing, AskedFor
      <4>2. T!Tab
        BY <1>0, <2>1, <3>0, <3>3, TabImplements
      <4> QED BY <2>3, <4>1, <4>2 DEF T!Next, T!Write
    <3>4. CASE c \notin {"newline", "backspace", "tab"}
      <4>1. asked'.do = "put"
        BY <2>1, <3>4 DEF Printing, AskedFor
      <4>2. T!Put
        BY <1>0, <2>1, <3>0, <3>4, PutImplements
      <4> QED BY <2>3, <4>1, <4>2 DEF T!Next, T!Write
    <3> QED BY <3>1, <3>2, <3>3, <3>4
  <2> QED BY <1>2, <2>2, <2>3
<1>4. CASE SetCursor
  <2>1. call[2] \in Nat /\ system_get_arg(1) = call[2] /\ call[2] < CursorRange
    <3>1. pc = "callback" /\ system_get_arg(0) = 4
      BY <1>4 DEF SetCursor, Called
    <3>2. call[1] = 4
      BY <3>1, CallServed DEF Calling, ConsoleInv
    <3>3. call[2] < CursorRange
      BY <3>1, <3>2 DEF MovesFit
    <3> QED BY <1>4, <3>3, OffsetThere DEF ConsoleInv
  <2>2. cursor' = call[2] % CursorRange /\ vm' = vm
        /\ asked' = [do |-> "move", at |-> PlaceOf(call[2])]
    BY <1>4, <2>1 DEF SetCursor, set_cursor_offset
  <2>3. cursor' = call[2]
    <3>1. call[2] \in 0 .. CursorRange - 1
      BY <2>1, SizeOfScreen
    <3> QED BY <2>2, <3>1, SmallOffset
  <2>4. PlaceOf(cursor)' = PlaceOf(call[2])
    BY <2>3 DEF PlaceOf, Size
  <2>5. asked'.do = "move" /\ asked'.at = PlaceOf(call[2])
    BY <2>2
  <2>6. T!Move
    BY <2>2, <2>4, <2>5 DEF T!Move
  <2> QED BY <2>6 DEF T!Next
<1>5. CASE ClearScreen
  <2>1. cursor' = 0 /\ vm' = [cell \in 0 .. Size - 1 |-> Blank] /\ asked' = [do |-> "clear"]
    BY <1>0, <1>5 DEF ClearScreen, clear_screen, ScreenInv
  <2>2. PlaceOf(cursor)' = T!Home
    <3>1. 0 \div Cols = 0 /\ 0 % Cols = 0 /\ 0 < Size
      BY SizeOfScreen
    <3> QED BY <2>1, <3>1 DEF PlaceOf, Size, T!Home, T!At
  <2>3. GridOf(vm') = T!Empty
    <3>1. ASSUME NEW r \in 0 .. Rows - 1, NEW c \in 0 .. Cols - 1
          PROVE  vm'[r * Cols + c] = Blank
      <4>1. r \in Nat /\ r < Rows
        BY SizeOfScreen
      <4>2. r * Cols + c \in Nat /\ r * Cols + c < Size
        BY <4>1, OffsetOf
      <4>3. r * Cols + c \in 0 .. Size - 1
        BY <4>2, SizeOfScreen
      <4> QED BY <2>1, <4>3
    <3> QED BY <3>1 DEF GridOf, T!Empty, T!BlankRow
  <2>4. T!Clear
    BY <2>1, <2>2, <2>3 DEF T!Clear, GridOf
  <2> QED BY <2>4 DEF T!Next
<1> QED BY <1>1, <1>3, <1>4, <1>5, ScreenSteps

(* Console output implements Terminal, on screens of every size and for    *)
(* every text: what the offset arithmetic of print_char_color and scroll   *)
(* does to the buffer is what a terminal does to its rows, if callers move *)
(* the cursor to offsets that its registers hold.                          *)
THEOREM ConsoleImplementsTerminal == OffsetsFit => (Spec => ImplementsTerminal)
<1> SUFFICES ASSUME OffsetsFit PROVE Spec => ImplementsTerminal
  OBVIOUS
<1>1. Init => T!Init /\ MovesFit
  BY InitImplements DEF Init, MovesFit
<1>2. MovesFit /\ [Next]_vars => MovesFit'
  BY MovesStayFit
<1>3. ConsoleInv /\ MovesFit /\ [Next]_vars => [T!Next]_(T!terminalVars)
  BY StepImplements
<1> QED BY <1>1, <1>2, <1>3, ConsoleInvariance, PTL DEF Spec, ImplementsTerminal, T!Spec

(***************************************************************************)
(* Progress                                                                *)
(***************************************************************************)

(* Callers of SET_CHARS pass a length and a string that ends. *)
TextsEnd ==
  \A passed \in SystemCalls :
    passed[1] = SET_CHARS =>
      /\ passed[2] # "formatted" /\ passed[5] \in Nat
      /\ Len(Strings[passed[2]]) \in Nat

(* Characters that print_string_color prints for the call. *)
TextLength == IF call[5] = 0 THEN Len(Memory(call[2])) ELSE call[5]

(* The loop of print_string_color has a finite text in front of it. *)
TextInHand ==
  /\ pc = "call" => result \in Seq(Characters)
  /\ pc \in {"callback", "chars"} /\ call[1] = SET_CHARS => TextLength \in Nat
  /\ pc = "chars" => i \in 0 .. TextLength

(* What a call passes through, last to first. *)
Phase == [l \in {"idle", "free", "return", "chars", "callback", "call", "format"} |->
  CASE l = "format" -> 6 [] l = "call" -> 5 [] l = "callback" -> 4 [] l = "chars" -> 3
    [] l = "return" -> 2 [] l = "free" -> 1 [] OTHER -> 0]

(* What the loop that it is in has left to do. *)
LoopLeft == CASE pc = "format" -> Len(template) - j [] pc = "chars" -> TextLength - i
              [] OTHER -> 0

(* A call has no endless loop. *)
LoopsEnd == LoopLeft \in Nat

(* Every step of a call comes to a later part of it, or has less left to   *)
(* do in the loop that it is in.                                           *)
CallAdvances ==
  pc # "idle" => Phase[pc'] < Phase[pc] \/ (pc' = pc /\ LoopLeft' < LoopLeft)

(* The driver's loop test reads the length and the text of the call. *)
LEMMA MoreIs ==
  ASSUME ConsoleInv, TextInHand, pc = "chars"
  PROVE  TextLength \in Nat /\ i \in 0 .. TextLength /\ (More <=> i < TextLength)
<1>1. StackInv /\ Calling /\ call[1] = SET_CHARS
  BY DEF ConsoleInv, StackInv, Calling, Framed
<1>2. Len(call) \in Nat /\ Len(call) >= 5
  BY <1>1, CallServed DEF SET_CHARS
<1>3. system_get_arg(1) = call[1 + 1] /\ system_get_arg(4) = call[4 + 1]
  BY <1>1, <1>2, ArgumentsThere
<1>4. TextLength \in Nat /\ i \in 0 .. TextLength
  BY <1>1 DEF TextInHand
<1> QED BY <1>3, <1>4 DEF More, TextLength

(* Serving a call does not change how long its text is. *)
LEMMA TextStaysInHand ==
  ASSUME UNCHANGED <<call, result>>
  PROVE  TextLength' = TextLength
BY DEF TextLength, Memory

(* format hands over a finite text. *)
LEMMA FormattedText ==
  ASSUME ConsoleInv, TextInv, Formatting, pc' = "call"
  PROVE  result' \in Seq(Characters)
<1>1. request # 0 /\ Looping /\ request \in DOMAIN Requests
  BY DEF Formatting, ConsoleInv, BlocksInv, TextInv
<1>2. FormatEnd
  BY DEF Formatting
<1>3. template \in Seq(Characters) /\ result \in Seq(Characters) /\ printed \in Nat
  BY <1>1, RequestTyped DEF Looping, Loops
<1>4. SubSeq(template, printed + 1, Len(template)) \in Seq(Characters)
  BY <1>3
<1> QED BY <1>2, <1>3, <1>4 DEF FormatEnd

(* Whatever is printed is finite. *)
LEMMA TextInHandStep ==
  ASSUME TextsEnd, ConsoleInv, TextInv, TextInHand, [Next]_vars
  PROVE  TextInHand'
<1>1. CASE Formatting
  <2>1. pc' \in {"format", "call"}
    BY <1>1 DEF Formatting
  <2> QED BY <1>1, <2>1, FormattedText DEF TextInHand
<1>2. CASE PrintCall
  <2>1. /\ pc = "call" /\ pc' = "callback" /\ result' = result
        /\ call'[2] = "formatted" /\ call'[5] = 0
    BY <1>2 DEF PrintCall
  <2>2. Len(result) \in Nat
    BY <2>1 DEF TextInHand
  <2>3. TextLength' = Len(result)
    BY <2>1 DEF TextLength, Memory
  <2> QED BY <2>1, <2>2, <2>3 DEF TextInHand
<1>3. CASE SetChars
  <2>1. /\ pc = "callback" /\ pc' = "chars" /\ i' = 0 /\ system_get_arg(0) = SET_CHARS
        /\ UNCHANGED <<call, result>>
    BY <1>3 DEF SetChars, Called, formatVars
  <2>2. call[1] = SET_CHARS
    BY <2>1, CallServed DEF ConsoleInv, Calling
  <2>3. TextLength \in Nat /\ TextLength' = TextLength
    BY <2>1, <2>2, TextStaysInHand DEF TextInHand
  <2> QED BY <2>1, <2>3 DEF TextInHand
<1>4. CASE PrintChar
  <2>1. pc = "chars" /\ pc' = "chars" /\ More /\ i' = i + 1 /\ UNCHANGED <<call, result>>
    BY <1>4 DEF PrintChar, formatVars
  <2>2. TextLength \in Nat /\ i \in 0 .. TextLength /\ i < TextLength /\ TextLength' = TextLength
    BY <2>1, MoreIs, TextStaysInHand
  <2> QED BY <2>1, <2>2 DEF TextInHand
<1>5. CASE GetChar \/ SetChar \/ CharsDone \/ GetCursor \/ SetCursor \/ ClearScreen \/ UnknownCall
  BY <1>5 DEF GetChar, SetChar, CharsDone, GetCursor, SetCursor, ClearScreen, UnknownCall, Answer,
     TextInHand
<1>6. CASE Return \/ Release \/ \E k \in DOMAIN Requests : PrintFormatted(k)
  BY <1>6 DEF Return, Release, PrintFormatted, TextInHand
<1>7. CASE \E passed \in SystemCalls : SystemCall(passed)
  <2>1. PICK passed \in SystemCalls : call' = passed /\ pc' = "callback"
    BY <1>7 DEF SystemCall
  <2>2. ASSUME passed[1] = SET_CHARS PROVE TextLength' \in Nat
    <3>1. passed[2] # "formatted" /\ passed[5] \in Nat /\ Len(Strings[passed[2]]) \in Nat
      BY <2>2 DEF TextsEnd
    <3> QED BY <2>1, <3>1 DEF TextLength, Memory
  <2> QED BY <2>1, <2>2 DEF TextInHand
<1>8. CASE Rest \/ UNCHANGED vars
  <2>1. UNCHANGED <<pc, i, call, result>>
    BY <1>8 DEF Rest, vars, formatVars
  <2> QED BY <2>1, TextStaysInHand DEF TextInHand
<1> QED BY <1>1, <1>2, <1>3, <1>4, <1>5, <1>6, <1>7, <1>8 DEF Next, Step, Callback

(* Both loops have a natural number of turns left. *)
LEMMA LoopLeftIs == ConsoleInv /\ TextInv /\ TextInHand => LoopsEnd
<1> SUFFICES ASSUME ConsoleInv, TextInv, TextInHand PROVE LoopLeft \in Nat
  BY DEF LoopsEnd
<1>1. CASE pc = "format"
  <2>1. request # 0 /\ Looping
    BY <1>1 DEF ConsoleInv, BlocksInv, TextInv
  <2>2. Len(template) \in Nat /\ j \in 0 .. Len(template)
    BY <2>1, RequestTyped DEF Looping, Loops
  <2> QED BY <1>1, <2>2 DEF LoopLeft
<1>2. CASE pc = "chars"
  BY <1>2, MoreIs DEF LoopLeft
<1>3. CASE pc \notin {"format", "chars"}
  BY <1>3 DEF LoopLeft
<1> QED BY <1>1, <1>2, <1>3

(* The order of the phases. *)
LEMMA PhaseIs ==
  /\ Phase["format"] = 6 /\ Phase["call"] = 5 /\ Phase["callback"] = 4 /\ Phase["chars"] = 3
  /\ Phase["return"] = 2 /\ Phase["free"] = 1 /\ Phase["idle"] = 0
BY DEF Phase

(* A turn of format's loop consumes at least one character. *)
LEMMA FormattingAdvances ==
  ASSUME ConsoleInv, TextInv, Formatting
  PROVE  Phase[pc'] < Phase[pc] \/ (pc' = pc /\ LoopLeft' < LoopLeft)
<1>1. pc = "format" /\ request # 0 /\ Looping
  BY DEF Formatting, ConsoleInv, BlocksInv, TextInv
<1>2. Len(template) \in Nat /\ j \in Nat
  BY <1>1, RequestTyped DEF Looping, Loops
<1>3. CASE (FormatChar \/ FormatPlaceholder \/ FormatPlain) /\ UNCHANGED pc
  <2>1. request' = request /\ (j' = j + 1 \/ j' = j + 2) /\ pc' = "format"
    BY <1>1, <1>3 DEF FormatChar, FormatPlaceholder, FormatPlain
  <2>2. template' = template
    BY <2>1 DEF template
  <2>3. LoopLeft = Len(template) - j /\ LoopLeft' = Len(template) - j'
    BY <1>1, <2>1, <2>2 DEF LoopLeft
  <2> QED BY <1>1, <1>2, <2>1, <2>3
<1>4. CASE FormatEnd /\ pc' = "call"
  BY <1>1, <1>4, PhaseIs
<1> QED BY <1>3, <1>4 DEF Formatting

(* A turn of print_string_color's loop prints one character. *)
LEMMA PrintCharAdvances ==
  ASSUME ConsoleInv, TextInHand, PrintChar
  PROVE  pc' = pc /\ LoopLeft' < LoopLeft
<1>1. pc = "chars" /\ pc' = "chars" /\ i' = i + 1 /\ UNCHANGED <<call, result>>
  BY DEF PrintChar, formatVars
<1>2. TextLength \in Nat /\ i \in Nat /\ TextLength' = TextLength
  BY <1>1, MoreIs, TextStaysInHand
<1>3. LoopLeft = TextLength - i /\ LoopLeft' = TextLength - (i + 1)
  BY <1>1, <1>2 DEF LoopLeft
<1> QED BY <1>1, <1>2, <1>3

(* Calls return: each step of print_formatted and of the screen driver     *)
(* takes the call to a later phase or leaves its loop less to do, whatever *)
(* the text, if direct callers of SET_CHARS pass strings that end.         *)
THEOREM ConsoleProgress == TextsEnd => (Spec => []LoopsEnd /\ [][CallAdvances]_vars)
<1> SUFFICES ASSUME TextsEnd PROVE Spec => []LoopsEnd /\ [][CallAdvances]_vars
  OBVIOUS
<1>1. Init => TextInHand
  BY DEF Init, TextInHand
<1>2. ConsoleInv /\ TextInv /\ TextInHand /\ [Next]_vars => TextInHand'
  BY TextInHandStep
<1>3. ConsoleInv /\ TextInv /\ TextInHand => LoopsEnd
  BY LoopLeftIs
<1>4. ConsoleInv /\ TextInv /\ TextInHand /\ [Next]_vars => [CallAdvances]_vars
  <2> SUFFICES ASSUME ConsoleInv, TextInv, TextInHand, Next, pc # "idle"
               PROVE  Phase[pc'] < Phase[pc] \/ (pc' = pc /\ LoopLeft' < LoopLeft)
    BY DEF CallAdvances
  <2>1. Step
    BY DEF Next, PrintFormatted, SystemCall, Rest
  <2>2. CASE Formatting
    BY <2>2, FormattingAdvances
  <2>3. CASE PrintChar
    BY <2>3, PrintCharAdvances
  <2>4. CASE PrintCall \/ SetChars \/ Release
    BY <2>4, PhaseIs DEF PrintCall, SetChars, Called, Release
  <2>5. CASE GetChar \/ SetChar \/ CharsDone \/ GetCursor \/ SetCursor \/ ClearScreen \/ UnknownCall
    BY <2>5, PhaseIs DEF GetChar, SetChar, CharsDone, GetCursor, SetCursor, ClearScreen,
       UnknownCall, Called, Answer
  <2>6. CASE Return
    BY <2>6, PhaseIs DEF Return
  <2> QED BY <2>1, <2>2, <2>3, <2>4, <2>5, <2>6 DEF Step, Callback
<1> QED BY <1>1, <1>2, <1>3, <1>4, ConsoleInvariance, ConsoleTextInvariance, PTL DEF Spec
============================================================================
