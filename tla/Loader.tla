------------------------------ MODULE Loader ------------------------------
(***************************************************************************)
(* The boot sector core/boot/loader.asm: it reads the kernel through the   *)
(* BIOS (external) and enters it in protected mode.  The stack is a        *)
(* sequence of words that grows at its end; a saved word is named after    *)
(* the register or the return address it holds.                            *)
(***************************************************************************)
EXTENDS Integers, Sequences, TLAPS

CONSTANTS
  Wanted    (* sectors of the kernel: 80                                   *)

VARIABLES
  pc,       (* where the loader is                                         *)
  stack,    (* the real mode stack                                         *)
  carry,    (* the carry flag                                              *)
  al,       (* sectors that int 13h says it has read                       *)
  loaded,   (* sectors of the kernel in memory                             *)
  told,     (* the error message was written                               *)
  masked    (* interrupts are disabled                                     *)

vars == <<pc, stack, carry, al, loaded, told, masked>>

(* BIOS jumps to the boot sector with interrupts enabled. *)
Init ==
  /\ pc = "kernel_start" /\ stack = <<>>
  /\ carry = FALSE /\ al = 0 /\ loaded = 0 /\ told = FALSE /\ masked = FALSE

(* The stack is set up with interrupts disabled, and the boot message has  *)
(* been written.                                                           *)
KernelStart ==
  /\ pc = "kernel_start"
  /\ pc' = "read_disk" /\ stack' = <<"kernel_start">>
  /\ UNCHANGED <<carry, al, loaded, told, masked>>

Registers == <<"ax", "cx", "dx", "bx", "sp", "bp", "si", "di">>

ReadDisk ==
  /\ pc = "read_disk"
  /\ pc' = "int13" /\ stack' = stack \o Registers \o <<"dx">>
  /\ UNCHANGED <<carry, al, loaded, told, masked>>

(* The BIOS reads all sectors, or fewer, or none and sets the carry flag.  *)
Int13(read, failed) ==
  /\ pc = "int13"
  /\ carry' = failed /\ al' = read /\ loaded' = read
  /\ pc' = IF failed THEN "disk_error" ELSE "compare"
  /\ UNCHANGED <<stack, told, masked>>

(* pop dx; cmp dh, al *)
Compare ==
  /\ pc = "compare"
  /\ stack' = SubSeq(stack, 1, Len(stack) - 1)
  /\ carry' = (Wanted < al)
  /\ pc' = IF al = Wanted THEN "done" ELSE "disk_error"
  /\ UNCHANGED <<al, loaded, told, masked>>

(* The message leaves the stack as it is. *)
DiskError ==
  /\ pc = "disk_error"
  /\ told' = TRUE /\ carry' = TRUE /\ pc' = "done"
  /\ UNCHANGED <<stack, al, loaded, masked>>

(* popa takes eight words and ret the next, whatever they are: a register  *)
(* that is taken for the return address leads anywhere.                    *)
Done ==
  /\ pc = "done"
  /\ LET return == stack[Len(stack) - 8]
     IN  pc' = IF return = "kernel_start" THEN "check" ELSE "anywhere"
  /\ stack' = SubSeq(stack, 1, Len(stack) - 9)
  /\ UNCHANGED <<carry, al, loaded, told, masked>>

Check ==
  /\ pc = "check"
  /\ pc' = IF carry THEN "loop" ELSE "protected_mode"
  /\ masked' = ~carry
  /\ UNCHANGED <<stack, carry, al, loaded, told>>

(* kernel_launch has its own stack. *)
KernelLaunch ==
  /\ pc = "protected_mode"
  /\ pc' = "kernel" /\ stack' = <<"kernel_launch">>
  /\ UNCHANGED <<carry, al, loaded, told, masked>>

Next ==
  \/ KernelStart \/ ReadDisk \/ Compare \/ DiskError \/ Done \/ Check \/ KernelLaunch
  \/ \E read \in 0 .. Wanted, failed \in BOOLEAN : Int13(read, failed)

Spec == Init /\ [][Next]_vars

(***************************************************************************)
(* Properties                                                              *)
(***************************************************************************)

Ended == pc \in {"loop", "kernel", "anywhere"}

(* "If reading is not successful hanging up system.": when the kernel was  *)
(* not read, the loader says so and stops in its loop.                     *)
HangsOnError == Ended /\ loaded # Wanted => pc = "loop" /\ told

(* The kernel is entered only with all of it in memory and with interrupts *)
(* disabled, as there is no interrupt table for protected mode yet.        *)
EntersWholeKernel == pc = "kernel" => loaded = Wanted /\ masked

(***************************************************************************)
(* The argument: behind the comparison a clear carry flag says that all of *)
(* the kernel was read.                                                    *)
(***************************************************************************)

CarryTells ==
  /\ pc \in {"done", "check"} => carry \/ loaded = Wanted
  /\ pc \in {"protected_mode", "kernel"} => loaded = Wanted /\ masked
  /\ pc = "compare" => al = loaded

(* The loader never enters a kernel of which the BIOS has delivered only a *)
(* part, for every kernel size.                                            *)
THEOREM LoaderSafety == Spec => []EntersWholeKernel
<1>1. Init => CarryTells
  BY DEF Init, CarryTells
<1>2. CarryTells /\ [Next]_vars => CarryTells'
  <2> SUFFICES ASSUME CarryTells, [Next]_vars PROVE CarryTells'
    OBVIOUS
  <2>1. CASE KernelStart \/ ReadDisk
    BY <2>1 DEF KernelStart, ReadDisk, CarryTells
  <2>2. ASSUME NEW read \in 0 .. Wanted, NEW failed \in BOOLEAN, Int13(read, failed)
        PROVE  CarryTells'
    BY <2>2 DEF Int13, CarryTells
  <2>3. CASE Compare
    BY <2>3 DEF Compare, CarryTells
  <2>4. CASE DiskError
    BY <2>4 DEF DiskError, CarryTells
  <2>5. CASE Done
    BY <2>5 DEF Done, CarryTells
  <2>6. CASE Check
    BY <2>6 DEF Check, CarryTells
  <2>7. CASE KernelLaunch
    BY <2>7 DEF KernelLaunch, CarryTells
  <2>8. CASE UNCHANGED vars
    BY <2>8 DEF vars, CarryTells
  <2> QED
    BY <2>1, <2>2, <2>3, <2>4, <2>5, <2>6, <2>7, <2>8 DEF Next
<1>3. CarryTells => EntersWholeKernel
  BY DEF CarryTells, EntersWholeKernel
<1> QED
  BY <1>1, <1>2, <1>3, PTL DEF Spec
============================================================================
