------------------------------ MODULE Format ------------------------------
(***************************************************************************)
(* format of lib/base/format.c with the conversions it calls, the string   *)
(* functions of string.c they use, and the argument access of vararg.h.    *)
(*                                                                         *)
(* A text is a sequence of characters; a word that the code holds as a     *)
(* constant ("true", ".null", "0x") is one character.  The traffic of a    *)
(* call with the heap is the number of blocks it leaves behind and the     *)
(* most it holds meanwhile.  junk stands for a byte of a block that was    *)
(* never written; a %f argument says what that byte would hold, a          *)
(* character or the end of the text, and is never negative: the conversion *)
(* of a negative double to u_dword is undefined.                           *)
(***************************************************************************)
EXTENDS Integers, Sequences, FiniteSets, FiniteSetsExt, SequencesExt

CONSTANTS
  Characters,  (* of texts: bytes, and the constant words of conversions   *)
  Requests,    (* calls: a sequence of templates, their arguments and font *)
  Word,        (* one more than the largest u_dword                        *)
  AfterComma,  (* digits that %f prints behind the point: 4 in the code    *)
  junk

VARIABLES
  request,     (* the call, an index of Requests, or 0                     *)
  j, printed,  (* locals of format; j and printed count from 0             *)
  argumentor,  (* the next argument, in dwords                             *)
  result,      (* the text built so far                                    *)
  blocks,      (* blocks that the call holds                               *)
  peak         (* history: the most it held at once                        *)

formatVars == <<request, j, printed, argumentor, result, blocks, peak>>

(***************************************************************************)
(* Conversions.  Each returns a text and its traffic with the heap.        *)
(***************************************************************************)

Digits == <<"0", "1", "2", "3", "4", "5", "6", "7", "8", "9", "A", "B", "C", "D", "E", "F">>
atom_to_char(b) == Digits[b + 1]

(* The powers of a base: mult is a u_qword and cannot wrap. *)
mult(sys) == LET power[n \in Nat] == IF n = 0 THEN 1 ELSE power[n - 1] * sys IN power

(* Mutant: one digit too few for a power of the base. *)
PowerShort(b, sys) ==
  CHOOSE p \in 1 .. Word : mult(sys)[p] >= b /\ (p = 1 \/ mult(sys)[p - 1] < b)

(* The digits to print. *)
Power(b, sys) ==
  CHOOSE p \in 1 .. Word : mult(sys)[p] > b /\ (p = 1 \/ mult(sys)[p - 1] <= b)

(* Digits from the last to the first, while there are any: none for 0.     *)
int_to_string(b, sys) ==
  LET power == Power(b, sys)
  IN  [d \in 1 .. power |->
        IF b = 0 THEN junk ELSE atom_to_char((b \div mult(sys)[power - d]) % sys)]

Traffic(left, most) == [left |-> left, most |-> most]
Then(a, b) == Traffic(a.left + b.left, Max({a.most, a.left + b.most}))

ralloc   == Traffic(1, 1)
unalloc  == Traffic(-1, 0)
replaced == Then(ralloc, unalloc)
joined   == Then(replaced, unalloc)

Block(text) == [text |-> text, traffic |-> ralloc]

(* Mutant: the number is not released behind its prefix. *)
PrefixedLeak(prefix, number) ==
  [text |-> <<prefix>> \o number.text, traffic |-> Then(number.traffic, ralloc)]

(* concatenate(prefix, number); unalloc(number) *)
Prefixed(prefix, number) ==
  [text |-> <<prefix>> \o number.text, traffic |-> Then(number.traffic, replaced)]

number_to_string(num, sys) ==
  LET number == IF num = 0 THEN Block(<<atom_to_char(0)>>)
                ELSE Block(int_to_string((IF num < 0 THEN -num ELSE num) % Word, sys))
      based  == CASE sys = 10 -> number
                  [] sys = 16 -> Prefixed("0x", number)
                  [] sys = 2  -> Prefixed("0b", number)
  IN  IF num < 0 THEN Prefixed("-", based) ELSE based

(* The whole part joined to a point, then to the fraction. *)
FloatTraffic == Then(Then(ralloc, replaced), Then(ralloc, joined))

(* The fraction is printed as a number of its own.  The digits on both     *)
(* sides of the point are inputs: the cast to u_dword and the loop that    *)
(* shifts the fraction by multiplying with 10 are not modelled, and        *)
(* neither is the branch for negative numbers, whose cast is undefined.    *)
float_to_string(b) ==
  LET part(n) == IF n = 0 THEN b.unwritten ELSE int_to_string(n, 10) IN
  [text    |-> part(b.whole) \o <<".">> \o part(b.fraction),
   traffic |-> FloatTraffic]

pointer_to_string(ptr) ==
  IF ptr = 0 THEN Block(<<".null">>) ELSE Prefixed(".", Block(int_to_string(ptr, 16)))

boolean_to_string(b) == Block(<<IF b THEN "true" ELSE "false">>)

Kinds == {"l", "p", "d", "h", "b", "f", "c", "s"}

Converted(kind, arg) ==
  CASE kind = "l" -> boolean_to_string(arg)
    [] kind = "p" -> pointer_to_string(arg)
    [] kind = "d" -> number_to_string(arg, 10)
    [] kind = "h" -> number_to_string(arg, 16)
    [] kind = "b" -> number_to_string(arg, 2)
    [] kind = "f" -> float_to_string(arg)
    [] kind = "c" -> Block(<<arg>>)
    [] kind = "s" -> Block(arg)

(***************************************************************************)
(* Arguments on the stack: a double takes two dwords, all else one.        *)
(***************************************************************************)

(* The percent signs of a template that start placeholders, and how many   *)
(* of them are among its first n characters.                               *)
Placeholders(t) == {n \in 1 .. Len(t) - 1 : t[n] = "%" /\ t[n + 1] \in Kinds}
Ordinal(t, n) == Cardinality({m \in Placeholders(t) : m <= n})

template == IF request = 0 THEN <<>> ELSE Requests[request].template
args     == IF request = 0 THEN <<>> ELSE Requests[request].args

(* The dword at an offset: the k-th argument, behind the arguments before  *)
(* it, or the high half of a double.                                       *)
StartOf(k) == k + Cardinality({n \in Placeholders(template) :
                                 Ordinal(template, n) < k /\ template[n + 1] = "f"})
highHalf   == 1
Slot(offset) == IF \E k \in 1 .. Len(args) : StartOf(k) = offset
                THEN args[CHOOSE k \in 1 .. Len(args) : StartOf(k) = offset]
                ELSE highHalf

(* Mutant: every argument is taken for a dword. *)
WidthOfDword(kind) == 1

(* max(sizeof(type), 4), in dwords *)
Width(kind) == IF kind = "f" THEN 2 ELSE 1

(***************************************************************************)
(* format                                                                  *)
(***************************************************************************)

HeapTraffic(traffic) ==
  /\ blocks' = blocks + traffic.left
  /\ peak' = Max({peak, blocks + traffic.most})

(* free_concat: a text that was made is joined to the result, and both are *)
(* released.                                                               *)
Joined(traffic) == Then(traffic, joined)

FormatInit ==
  /\ request = 0 /\ result = <<>> /\ j = 0 /\ printed = 0 /\ argumentor = 0
  /\ blocks = 0 /\ peak = 0

CharAt(at) == IF at < Len(template) THEN template[at + 1] ELSE "NUL"

(* zalloc(1) and init_vararg(sizeof(string)) *)
FormatBegin(r) ==
  /\ request' = r /\ result' = <<>>
  /\ j' = 0 /\ printed' = 0 /\ argumentor' = 1
  /\ HeapTraffic(ralloc)

FormatChar ==
  /\ j < Len(template) /\ CharAt(j) # "%"
  /\ j' = j + 1
  /\ UNCHANGED <<request, printed, argumentor, result, blocks, peak>>

Lead == SubSeq(template, printed + 1, j)

(* A placeholder: the text in front of it, then the converted argument. *)
FormatPlaceholder ==
  /\ CharAt(j) = "%" /\ CharAt(j + 1) \in Kinds
  /\ \E converted \in {Converted(CharAt(j + 1), Slot(argumentor))} :
       /\ result' = result \o Lead \o converted.text
       /\ HeapTraffic(Then(Joined(ralloc), Joined(converted.traffic)))
  /\ argumentor' = argumentor + Width(CharAt(j + 1))
  /\ printed' = j + 2 /\ j' = j + 2
  /\ UNCHANGED request

(* Mutant: printed is not taken back. *)
FormatPlainLost ==
  /\ CharAt(j) = "%" /\ CharAt(j + 1) \notin Kinds
  /\ result' = result \o Lead
  /\ HeapTraffic(Joined(ralloc))
  /\ printed' = Min({j + 2, Len(template)}) /\ j' = j + 1
  /\ UNCHANGED <<request, argumentor>>

(* Not a placeholder: printed and j are taken back to the percent sign. *)
FormatPlain ==
  /\ CharAt(j) = "%" /\ CharAt(j + 1) \notin Kinds
  /\ result' = result \o Lead
  /\ HeapTraffic(Joined(ralloc))
  /\ printed' = j /\ j' = j + 1
  /\ UNCHANGED <<request, argumentor>>

(* substring_beg(template, printed) *)
FormatEnd ==
  /\ j >= Len(template)
  /\ result' = result \o SubSeq(template, printed + 1, Len(template))
  /\ HeapTraffic(Joined(ralloc))
  /\ UNCHANGED <<request, j, printed, argumentor>>

(* The caller has released the text, and the locals are gone. *)
FormatGone ==
  /\ request' = 0 /\ result' = <<>>
  /\ j' = 0 /\ printed' = 0 /\ argumentor' = 0
  /\ HeapTraffic(unalloc)

(***************************************************************************)
(* Reference definitions                                                   *)
(***************************************************************************)

(* The k-th placeholder of a template stands for the k-th value, and every *)
(* other character for itself.                                             *)
Piece(t, values, n) ==
  IF n \in Placeholders(t) THEN Converted(t[n + 1], values[Ordinal(t, n)]).text
  ELSE IF n - 1 \in Placeholders(t) THEN <<>> ELSE <<t[n]>>

Expansion(t, values) == FlattenSeq([n \in 1 .. Len(t) |-> Piece(t, values, n)])

(* The number that a numeral stands for. *)
DigitValue(c) == CHOOSE d \in 0 .. 15 : Digits[d + 1] = c
Value(numeral, base) ==
  LET value[n \in 0 .. Len(numeral)] ==
        IF n = 0 THEN 0 ELSE value[n - 1] * base + DigitValue(numeral[n])
  IN  value[Len(numeral)]

(* Digits of a base without leading zeros, which read back as a number. *)
IsNumeral(text, num, base) ==
  /\ Len(text) > 0 /\ \A n \in 1 .. Len(text) : \E d \in 0 .. base - 1 : text[n] = Digits[d + 1]
  /\ Len(text) > 1 => text[1] # "0"
  /\ Value(text, base) = num

(* The number is its sign, the prefix of its base and its numeral. *)
ReadsBack(num, sys) ==
  LET text == number_to_string(num, sys).text
      lead == (IF num < 0 THEN <<"-">> ELSE <<>>) \o
              CASE sys = 10 -> <<>> [] sys = 16 -> <<"0x">> [] sys = 2 -> <<"0b">>
      numeral == SubSeq(text, Len(lead) + 1, Len(text))
  IN  text = lead \o numeral /\ IsNumeral(numeral, IF num < 0 THEN -num ELSE num, sys)

(* The float is its whole part, a point and AfterComma digits. *)
FloatReadsBack(b) ==
  LET text  == float_to_string(b).text
      point == Len(text) - AfterComma
  IN  /\ text[point] = "."
      /\ IsNumeral(SubSeq(text, 1, point - 1), b.whole, 10)
      /\ IsNumeral(SubSeq(text, point + 1, Len(text)), b.fraction, 10)

(***************************************************************************)
(* What callers pass: values of the types that the placeholders name.      *)
(***************************************************************************)

Words == {Digits[d] : d \in 1 .. 16} \cup {"-", ".", ".null", "0x", "0b", "true", "false"}

Dwords == -(Word \div 2) .. Word \div 2 - 1

OfKind(kind, arg) ==
  CASE kind = "l" -> arg \in BOOLEAN
    [] kind = "p" -> arg \in 0 .. Word - 1
    [] kind \in {"d", "h", "b"} -> arg \in Dwords
    [] kind = "f" -> /\ arg.whole \in 0 .. Word - 1 /\ arg.unwritten \in Seq(Characters)
                     /\ arg.fraction \in 0 .. mult(10)[AfterComma] - 1
    [] kind = "c" -> arg \in Characters
    [] kind = "s" -> arg \in Seq(Characters)

ASSUME FormatAssumption ==
  /\ Word \in Nat \ {0} /\ AfterComma \in Nat \ {0} /\ mult(10)[AfterComma] <= Word
  /\ Words \subseteq Characters
  /\ \A r \in DOMAIN Requests :
       LET t == Requests[r].template
       IN  /\ t \in Seq(Characters) /\ Len(Requests[r].args) \in Nat
           /\ Len(Requests[r].args) >= Cardinality(Placeholders(t))
           /\ \A n \in Placeholders(t) : OfKind(t[n + 1], Requests[r].args[Ordinal(t, n)])
============================================================================
