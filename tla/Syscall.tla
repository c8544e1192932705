------------------------------ MODULE Syscall -----------------------------
(***************************************************************************)
(* The system call convention of lib/base/syscall.h on a stack of dwords,  *)
(* with extract_dword_args of vararg.c.  The stack is a sequence that      *)
(* grows at its end; the eight registers of pusha are one entry.           *)
(***************************************************************************)
EXTENDS Integers, Sequences, SequencesExt

VARIABLES
  stack,      (* the caller's stack                                        *)
  ebp,        (* frame pointer: an index in stack                          *)
  args_num    (* the number of arguments of the call being made            *)

syscallVars == <<stack, ebp, args_num>>

(* Some frame of the caller, with its own frame pointer. *)
SyscallInit == stack = <<"caller">> /\ ebp = 1 /\ args_num = 0

(* pusha, push the arguments last to first, push ebp, mov ebp, esp.  The   *)
(* block of extract_dword_args is released before int.                     *)
CallSystem(passed) ==
  /\ stack' = stack \o <<"pusha">> \o Reverse(passed) \o <<ebp>>
  /\ ebp' = Len(stack')
  /\ args_num' = Len(passed)

(* The saved ebp that the handler finds in its registers is the caller's.  *)
system_get_arg(n) == stack[ebp - 1 - n]

(* Mutant: the value is stored one dword too high. *)
SystemPushHigh(value) == stack' = [stack EXCEPT ![ebp - 2] = value]

(* The return value takes the place of argument 0. *)
SystemPush(value) == stack' = [stack EXCEPT ![ebp - 1] = value]

(* mov esp, ebp; pop ebp; pop the arguments; popa *)
SystemReturn ==
  /\ ebp' = stack[ebp]
  /\ stack' = SubSeq(stack, 1, ebp - 1 - args_num - 1)
  /\ UNCHANGED args_num

(* call_system_ret pops every argument into ret_value: the last one stays. *)
ReturnedValue == stack[ebp - args_num]
============================================================================
