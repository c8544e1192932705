----------------------------- MODULE MCConsole ----------------------------
(***************************************************************************)
(* Console with the texts and calls of its run: numbers at the powers of   *)
(* the bases and at the ends of their range, and templates with every kind *)
(* of placeholder, plain percent signs and control characters.             *)
(***************************************************************************)
EXTENDS Console

Ask(t, values, font) == [template |-> t, args |-> values, font |-> font]

Numbers == <<-64, -63, -16, -10, -1, 0, 1, 2, 9, 10, 15, 16, 63>>
Floats  == <<<<0, 25, <<junk>>>>, <<10, 0, <<>>>>, <<10, 5, <<junk>>>>, <<10, 25, <<>>>>>>

Float(f) == [whole |-> f[1], fraction |-> f[2], unwritten |-> f[3]]

MCRequests ==
  [k \in 1 .. Len(Numbers) |->
     Ask(<<"%", "d", "%", "h", "%", "b">>, <<Numbers[k], Numbers[k], Numbers[k]>>, 7)] \o
  [k \in 1 .. Len(Floats) |->
     Ask(<<"%", "f", "%", "d">>, <<Float(Floats[k]), 7>>, 12)] \o
  << Ask(<<>>, <<>>, 7),
     Ask(<<"%", "%", "l", "%">>, <<TRUE>>, 10),
     Ask(<<"%", "x", "%", "p", "%", "p">>, <<0, 17>>, 10),
     Ask(<<"a", "newline", "%", "s", "%", "c", "tab">>, <<<<"b", "c">>, "newline">>, 12),
     Ask(<<"tab", "a", "backspace", "backspace">>, <<>>, 7),
     Ask(<<"newline", "newline", "newline", "x">>, <<>>, 7) >>

MCCharacters ==
  {"%", "l", "p", "d", "h", "b", "f", "c", "s", "a", "x", "newline", "tab", "backspace",
   junk} \cup Words

MCSystemCalls ==
  { <<0>>, <<1, "a", 7, 1>>, <<2, "greeting", 14, 0, 2>>, <<3>>, <<4, Size - 1>>,
    <<4, CursorRange - 2>>, <<5>>, <<9>> }

MCStrings == [p \in {"greeting"} |-> <<"g", "backspace", "backspace">>]
============================================================================
