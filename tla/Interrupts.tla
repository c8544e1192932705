---------------------------- MODULE Interrupts ----------------------------
(***************************************************************************)
(* Interrupt dispatch while the kernel boots: the IDT and the handler      *)
(* table of core/kernel/interruption_tables.c, the stubs of                *)
(* interruptions.asm, the order of initialisation in kernel.c, PANIC of    *)
(* kernel.h with throw_exception of lib/base/exceptions.c, and the print   *)
(* macro of lib/base/stdio.h, which reaches the screen through int 48.     *)
(*                                                                         *)
(* There is one CPU and one stack of activation records; the top one runs. *)
(* fn is the function, at what it does next, v the interrupt number its    *)
(* stub pushed, left the lines it has still to print, and flag the IF that *)
(* iret will restore.  The module follows the first task up to fork.       *)
(***************************************************************************)
EXTENDS Integers, Sequences, FiniteSets

CONSTANTS
  Lines,        (* interrupt lines that fire, by vector                    *)
  Ints,         (* vectors that code raises with int n, besides 48         *)
  Faults,       (* CPU exceptions that the first task may cause            *)
  ReportLines,  (* what throw_exception prints: 4 in the code              *)
  DebugLines,   (* what debug prints: 14 in the code                       *)
  MaxDepth,     (* activation records, to bound the run                    *)
  QuietBoot     (* TRUE: nothing arrives before the screen has its handler *)

(* IRQ0 .. IRQ15 *)
IrqVectors == 32 .. 47

ASSUME InterruptsAssumption ==
  /\ Lines \subseteq IrqVectors /\ Faults \subseteq 0 .. 31 /\ Ints \subseteq 48 .. 255
  /\ ReportLines \in Nat \ {0} /\ DebugLines \in Nat \ {0} /\ MaxDepth \in Nat
  /\ QuietBoot \in BOOLEAN

VARIABLES
  stage,                 (* how far _start has come                        *)
  interruption_handlers,
  tasking,               (* current_task is set                            *)
  interrupts,            (* the CPU's IF flag                              *)
  stack,                 (* activation records, the running one last       *)
  pending,               (* lines that have fired and are not served yet   *)
  master, slave,         (* in-service lines of the two 8259s              *)
  reported               (* history: lines of a panic that reached the     *)
                         (* screen                                         *)

boot    == <<stage, interruption_handlers, tasking>>
pics    == <<pending, master, slave>>
history == <<reported>>
vars    == <<boot, interrupts, stack, pics, history>>

nullptr == "nullptr"
Vectors == 0 .. 255
Handlers == {"timer_callback", "screen_callback", "debug", "keyboard_callback",
             "silent", "page_fault", nullptr}
Screen  == 48
Cascade == 34

(* _start, by what it does to interrupts. *)
Set(n, h) == [op |-> "set", n |-> n, h |-> h]
Do(op) == [op |-> op, n |-> 0, h |-> nullptr]
BootOrder ==
  << Do("init_interruptions"), Set(32, "timer_callback"), Set(Screen, "screen_callback"),
     Set(49, "debug"), Do("print"), Set(33, "keyboard_callback"), Set(46, "silent"),
     Set(14, "page_fault"), Do("initialise_tasking"), Do("print") >>

Booted == stage > Len(BootOrder)
IdtLoaded == stage > 1

Frame(fn, at, v, left, flag) ==
  [fn |-> fn, at |-> at, v |-> v, left |-> left, flag |-> flag]

Frames ==
  [fn : {"start", "print", "isr", "irq", "panic", "debug"},
   at : {"run", "format", "call", "free", "enter", "dispatch", "screen", "return"},
   v : Vectors, left : 0 .. ReportLines + DebugLines, flag : BOOLEAN]

TypeOK ==
  /\ stage \in 1 .. Len(BootOrder) + 1
  /\ interruption_handlers \in [Vectors -> Handlers]
  /\ tasking \in BOOLEAN /\ interrupts \in BOOLEAN
  /\ stack \in Seq(Frames)
  /\ pending \subseteq Lines
  /\ master \subseteq 32 .. 39 /\ slave \subseteq 40 .. 47
  /\ reported \in Nat

(* The loader enters the kernel with interrupts disabled. *)
Init ==
  /\ stage = 1
  /\ interruption_handlers = [v \in Vectors |-> nullptr]
  /\ tasking = FALSE /\ interrupts = FALSE
  /\ stack = <<Frame("start", "run", 0, 0, FALSE)>>
  /\ pending = {} /\ master = {} /\ slave = {}
  /\ reported = 0

(***************************************************************************)
(* The stack                                                               *)
(***************************************************************************)

Depth  == Len(stack)
Top    == stack[Depth]
Room   == Depth < MaxDepth
Rest   == SubSeq(stack, 1, Depth - 1)

PrintFrame == Frame("print", "format", 0, 0, FALSE)

(* The running function goes on at another place, and perhaps calls.       *)
Continue(at) == stack' = Append(Rest, [Top EXCEPT !.at = at])
Call(at, frame) == Room /\ stack' = Rest \o <<[Top EXCEPT !.at = at], frame>>

(***************************************************************************)
(* Gates                                                                   *)
(***************************************************************************)

(* The vectors with a stub of their own, which pushes their number; the    *)
(* others share isr32.                                                     *)
OwnStub == 0 .. 31 \cup IrqVectors \cup 48 .. 52
DEFAULT_IRS == 32
IntNo(v) == IF v \in OwnStub THEN v ELSE DEFAULT_IRS

(* Mutant: trap gates, which leave IF alone. *)
GateTrap(base, v, kind) ==
  /\ Room
  /\ stack' = Append(base, Frame(kind, "enter", IntNo(v), 0, interrupts))
  /\ UNCHANGED interrupts

(* Every entry is an interrupt gate: the CPU saves IF and clears it. *)
Gate(base, v, kind) ==
  /\ Room
  /\ stack' = Append(base, Frame(kind, "enter", IntNo(v), 0, interrupts))
  /\ interrupts' = FALSE

(***************************************************************************)
(* The two 8259 PICs, fully nested: a line in service holds back itself    *)
(* and the lines behind it; the slave speaks through line 2 of the master. *)
(***************************************************************************)

Blocked(inService, v) == \E s \in inService : s <= v

Deliverable(v) == IF v < 40 THEN ~Blocked(master, v)
                  ELSE ~Blocked(slave, v) /\ ~Blocked(master, Cascade)

(* End of interrupt: the first line in service is done. *)
Ended(inService) == {v \in inService : \E s \in inService : s < v}

QuietEnough == QuietBoot => interruption_handlers[Screen] # nullptr

(* A device asks for attention. *)
Raise(v) ==
  /\ v \notin pending /\ IdtLoaded /\ QuietEnough
  /\ pending' = pending \cup {v}
  /\ UNCHANGED <<boot, interrupts, stack, master, slave, history>>

(* The CPU takes the interrupt between two instructions. *)
Deliver(v) ==
  /\ interrupts /\ v \in pending /\ Deliverable(v) /\ Depth + 5 <= MaxDepth
  /\ pending' = pending \ {v}
  /\ master' = master \cup {IF v < 40 THEN v ELSE Cascade}
  /\ slave' = IF v < 40 THEN slave ELSE slave \cup {v}
  /\ Gate(stack, v, "irq")
  /\ UNCHANGED <<boot, history>>

(* The first task executes int n, or faults. *)
RaiseInt(v) ==
  /\ Top.fn = "start" /\ Booted /\ Depth + 5 <= MaxDepth
  /\ Gate(stack, v, "isr")
  /\ UNCHANGED <<boot, pics, history>>

Fault(v) ==
  /\ Top.fn = "start" /\ IdtLoaded /\ QuietEnough
  /\ Gate(stack, v, "isr")
  /\ UNCHANGED <<boot, pics, history>>

(***************************************************************************)
(* _start                                                                  *)
(***************************************************************************)

BootOp == BootOrder[stage]

(* init_interruptions: fill the IDT, remap the PICs; idt_flush ends in sti *)
(* although no handler is registered yet.                                  *)
InitInterruptions ==
  /\ Top.fn = "start" /\ ~Booted /\ BootOp.op = "init_interruptions"
  /\ stage' = stage + 1
  /\ interrupts' = TRUE
  /\ UNCHANGED <<interruption_handlers, tasking, stack, pics, history>>

(* Mutant: the message is printed before the handler is stored. *)
SetInterruptHandlerLate ==
  /\ Top.fn = "start" /\ ~Booted /\ BootOp.op = "set"
  /\ IF stack[1].left = 0 /\ BootOp.n # 32
     THEN /\ Room /\ stack' = <<[Top EXCEPT !.left = 1], PrintFrame>>
          /\ UNCHANGED <<stage, interruption_handlers>>
     ELSE /\ stack' = <<[Top EXCEPT !.left = 0]>>
          /\ interruption_handlers' = [interruption_handlers EXCEPT ![BootOp.n] = BootOp.h]
          /\ stage' = stage + 1
  /\ UNCHANGED <<tasking, interrupts, pics, history>>

(* set_interrupt_handler and silence_interrupt say what they did, unless   *)
(* it is about the timer, whose handler is set before the screen's.        *)
SetInterruptHandler ==
  /\ Top.fn = "start" /\ ~Booted /\ BootOp.op = "set"
  /\ interruption_handlers' = [interruption_handlers EXCEPT ![BootOp.n] = BootOp.h]
  /\ stage' = stage + 1
  /\ IF BootOp.n = 32 THEN UNCHANGED stack ELSE Call("run", PrintFrame)
  /\ UNCHANGED <<tasking, interrupts, pics, history>>

(* good() and info() of _start. *)
PrintMessage ==
  /\ Top.fn = "start" /\ ~Booted /\ BootOp.op = "print"
  /\ stage' = stage + 1
  /\ Call("run", PrintFrame)
  /\ UNCHANGED <<interruption_handlers, tasking, interrupts, pics, history>>

InitialiseTasking ==
  /\ Top.fn = "start" /\ ~Booted /\ BootOp.op = "initialise_tasking"
  /\ stage' = stage + 1
  /\ tasking' = TRUE /\ interrupts' = TRUE
  /\ UNCHANGED <<interruption_handlers, stack, pics, history>>

(***************************************************************************)
(* print_formatted                                                         *)
(***************************************************************************)

At(fn, at) == Top.fn = fn /\ Top.at = at

(* format allocates the text, extract_dword_args the arguments. *)
PrintFormat ==
  /\ At("print", "format")
  /\ Continue("call")
  /\ UNCHANGED <<boot, interrupts, pics, history>>

(* int 48 *)
PrintCall ==
  /\ At("print", "call")
  /\ Gate(Append(Rest, [Top EXCEPT !.at = "free"]), Screen, "isr")
  /\ UNCHANGED <<boot, pics, history>>

PrintFree ==
  /\ At("print", "free")
  /\ stack' = Rest
  /\ UNCHANGED <<boot, interrupts, pics, history>>

(***************************************************************************)
(* isr_handler and irq_handler                                             *)
(***************************************************************************)

(* An undefined user interrupt is announced first. *)
IsrEnter ==
  /\ At("isr", "enter")
  /\ IF Top.v = DEFAULT_IRS THEN Call("dispatch", PrintFrame) ELSE Continue("dispatch")
  /\ UNCHANGED <<boot, interrupts, pics, history>>

(* Mutant: only the master is told that the interrupt is over. *)
IrqEnterMasterOnly ==
  /\ At("irq", "enter")
  /\ master' = Ended(master)
  /\ Continue("dispatch")
  /\ UNCHANGED <<boot, interrupts, pending, slave, history>>

(* EOI comes before the handler. *)
IrqEnter ==
  /\ At("irq", "enter")
  /\ slave' = IF Top.v >= 40 THEN Ended(slave) ELSE slave
  /\ master' = Ended(master)
  /\ Continue("dispatch")
  /\ UNCHANGED <<boot, interrupts, pending, history>>

Handler == interruption_handlers[Top.v]
Dispatching == Top.fn \in {"isr", "irq"} /\ Top.at = "dispatch"

(* No handler: a panic for an interrupt, a message for a hardware one. *)
Unhandled ==
  /\ Dispatching /\ Handler = nullptr
  /\ Call("return", IF Top.fn = "irq" THEN PrintFrame
                    ELSE Frame("panic", "run", 0, ReportLines, FALSE))
  /\ UNCHANGED <<boot, interrupts, pics, history>>

(* tick++; switch_task, which does nothing before tasking, and afterwards  *)
(* comes back with interrupts enabled.                                     *)
TimerCallback ==
  /\ Dispatching /\ Handler = "timer_callback"
  /\ interrupts' = (interrupts \/ tasking)
  /\ Continue("return")
  /\ UNCHANGED <<boot, pics, history>>

ScreenCallback ==
  /\ Dispatching /\ Handler = "screen_callback"
  /\ Continue("screen")
  /\ UNCHANGED <<boot, interrupts, pics, history>>

(* The text is on the screen. *)
ScreenWritten ==
  /\ Top.at = "screen"
  /\ Continue("return")
  /\ reported' = IF Depth > 2 /\ stack[Depth - 2].fn = "panic" THEN reported + 1 ELSE reported
  /\ UNCHANGED <<boot, interrupts, pics>>

(* Mutant: the scancode is printed. *)
IdleCallbackPrints ==
  /\ Dispatching /\ Handler \in {"keyboard_callback", "silent"}
  /\ Call("return", PrintFrame)
  /\ UNCHANGED <<boot, interrupts, pics, history>>

(* keyboard_callback reads the scancode and drops it; the disk is silent.  *)
IdleCallback ==
  /\ Dispatching /\ Handler \in {"keyboard_callback", "silent"}
  /\ Continue("return")
  /\ UNCHANGED <<boot, interrupts, pics, history>>

(* debug prints the registers, page_fault panics. *)
PrintingCallback ==
  /\ Dispatching /\ Handler \in {"debug", "page_fault"}
  /\ Call("return", IF Handler = "debug" THEN Frame("debug", "run", 0, DebugLines, FALSE)
                    ELSE Frame("panic", "run", 0, ReportLines, FALSE))
  /\ UNCHANGED <<boot, interrupts, pics, history>>

(* popa; iret *)
InterruptReturn ==
  /\ Top.fn \in {"isr", "irq"} /\ Top.at = "return"
  /\ stack' = Rest
  /\ interrupts' = Top.flag
  /\ UNCHANGED <<boot, pics, history>>

(***************************************************************************)
(* debug, PANIC and throw_exception                                        *)
(***************************************************************************)

(* Mutant: the last line of a report is lost. *)
PrintLineShort ==
  /\ Top.fn \in {"debug", "panic"} /\ Top.left > 1
  /\ Room /\ stack' = Rest \o <<[Top EXCEPT !.left = @ - 1], PrintFrame>>
  /\ UNCHANGED <<boot, interrupts, pics, history>>

(* Mutant: the loop of debug does not stop. *)
PrintLineForever ==
  /\ Top.fn \in {"debug", "panic"}
  /\ Room /\ stack' = Rest \o <<[Top EXCEPT !.left = @ - 1], PrintFrame>>
  /\ UNCHANGED <<boot, interrupts, pics, history>>

(* The next line of a report. *)
PrintLine ==
  /\ Top.fn \in {"debug", "panic"} /\ Top.left > 0
  /\ Room /\ stack' = Rest \o <<[Top EXCEPT !.left = @ - 1], PrintFrame>>
  /\ UNCHANGED <<boot, interrupts, pics, history>>

DebugReturn ==
  /\ Top.fn = "debug" /\ Top.left = 0
  /\ stack' = Rest
  /\ UNCHANGED <<boot, interrupts, pics, history>>

(* terminate() does nothing, and PANIC hangs with interrupts disabled. *)
Halted == Top.fn = "panic" /\ Top.left = 0

(***************************************************************************)
(* Specification                                                           *)
(***************************************************************************)

Boot == InitInterruptions \/ SetInterruptHandler \/ PrintMessage \/ InitialiseTasking

Step == \/ Boot
        \/ PrintFormat \/ PrintCall \/ PrintFree
        \/ IsrEnter \/ IrqEnter \/ Unhandled \/ TimerCallback \/ ScreenCallback
        \/ ScreenWritten \/ IdleCallback \/ PrintingCallback \/ InterruptReturn
        \/ PrintLine \/ DebugReturn

Next == \/ Step
        \/ \E v \in Lines : Raise(v)
        \/ \E v \in Lines : Deliver(v)
        \/ \E v \in Ints : RaiseInt(v)
        \/ \E v \in Faults : Fault(v)

Spec == Init /\ [][Next]_vars

(* The CPU executes, and a pending line that is let through again and      *)
(* again is taken: the lines before it take less time to serve than passes *)
(* until they fire again.                                                  *)
Fairness == WF_vars(Step) /\ \A v \in Lines : SF_vars(Deliver(v))

FairSpec == Spec /\ Fairness

(***************************************************************************)
(* Properties                                                              *)
(***************************************************************************)

Panicking == \E k \in 1 .. Depth : stack[k].fn = "panic"

(* A panic prints its whole report and stops the machine (design_notes.md: *)
(* "the default path prints the exception ID, type, message, and file:line *)
(* in red").                                                               *)
PanicReports == Panicking ~> (Halted /\ reported = ReportLines)

(* Whoever prints finds the screen's handler in place: no message, and no  *)
(* report of a panic, ends in a panic of its own.                          *)
PrintFindsScreen ==
  (Dispatching /\ Top.v = Screen) => interruption_handlers[Screen] # nullptr

(* The screen driver reads the cursor, writes and moves it, and nothing    *)
(* protects that but the gate: it is never entered while it runs.          *)
ScreenNotReentered ==
  \A k, l \in 1 .. Depth : (stack[k].at = "screen" /\ stack[l].at = "screen") => k = l

(* A line that has fired is served sooner or later, unless the kernel has  *)
(* panicked: no handler leaves its PIC waiting.                            *)
EveryLineServed == \A v \in Lines : v \in pending ~> (v \notin pending \/ Halted)

(* The heap has no lock.  Whoever was interrupted in the middle of         *)
(* printing, and so perhaps in the middle of ralloc, finds that a handler  *)
(* has allocated meanwhile only for a line that nobody has registered: the *)
(* timer, the keyboard and the disk stay away from the heap.               *)
HandlersAvoidHeap ==
  \A k, l \in 1 .. Depth :
    k + 1 < l /\ stack[k].fn = "print" /\ stack[k + 1].fn = "irq" /\ stack[l].fn = "print" =>
      \E m \in k + 1 .. l - 1 :
        stack[m].fn = "irq" /\ interruption_handlers[stack[m].v] = nullptr
============================================================================
