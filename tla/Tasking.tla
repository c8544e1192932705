------------------------------ MODULE Tasking ------------------------------
(***************************************************************************)
(* Multitasking: core/kernel/task.c, the timer hook of core/kernel/timer.c *)
(* and get_instruction_pointer of core/kernel/utils.asm.                   *)
(*                                                                         *)
(* There is one CPU.  pc is what it executes next, eax its return value    *)
(* register, interrupts its IF flag, cr3 the directory it translates with. *)
(* Every directory holds its own copy of the stack pages, so a stack is a  *)
(* sequence of activation records per directory, and esp a depth in it     *)
(* (ebp is stored and loaded by the same statements as esp and names the   *)
(* same record).  An eip is the label get_instruction_pointer returns to.  *)
(* Everything else a task does is invisible to the scheduler: "task".      *)
(***************************************************************************)
EXTENDS Integers, Sequences, FiniteSets

CONSTANTS
  MaxTasks,   (* task structs the heap has room for                        *)
  MaxForks,   (* fork calls, to bound the run                              *)
  MaxDepth,   (* activation records a stack has room for                   *)
  Nested      (* TRUE: a tick may arrive while an earlier one is unwound   *)

ASSUME TaskingAssumption ==
  /\ MaxTasks \in Nat \ {0} /\ MaxForks \in Nat /\ MaxDepth \in Nat
  /\ Nested \in BOOLEAN

VARIABLES
  current_task, ready_queue, next_pid,
  task,               (* the task structs, by pointer                      *)
  current_directory,  (* what the memory manager thinks is active          *)
  cr3,                (* what is active                                    *)
  stack,              (* directory |-> its copy of the stack               *)
  pc, eax, interrupts,
  forks,              (* fork calls so far                                 *)
  returned            (* history: <<pid, value>> of every return of fork   *)

vars == <<current_task, ready_queue, next_pid, task, current_directory, cr3,
          stack, pc, eax, interrupts, forks, returned>>

nullptr  == 0
Tasks    == 1 .. MaxTasks
DEADBABA == "DEADBABA"
NullEip  == "null"

(* clone_directory numbers directories; the kernel's is 1, and a fork that *)
(* finds the heap exhausted has cloned one already.                        *)
kernel_directory == 1
Directories == 1 .. MaxForks + 1

Labels == {"boot", "task", "fork_clone", "fork_append", "fork_gip", "fork_check",
           "switch", "switch_gip", "switch_check", "switch_pick", "switch_load",
           "irq_return", "hung", NullEip}

Frame == [fn : {"main"}]
         \cup [fn : {"fork"}, parent : Tasks, directory : Directories \cup {nullptr},
               child : Tasks \cup {nullptr}]
         \cup [fn : {"irq"}, resume : Labels, eax : Labels \cup {DEADBABA}]
         \cup [fn : {"switch"}, esp : Nat]

TypeOK ==
  /\ current_task \in Tasks \cup {nullptr} /\ ready_queue \in Tasks \cup {nullptr}
  /\ next_pid \in 0 .. MaxTasks
  /\ task \in [Tasks -> [id : Nat, esp : Nat, eip : Labels,
                         page_directory : Directories \cup {nullptr},
                         next : Tasks \cup {nullptr}]]
  /\ current_directory \in Directories /\ cr3 \in Directories
  /\ stack \in [Directories -> Seq(Frame)]
  /\ pc \in Labels /\ eax \in Labels \cup {DEADBABA} /\ interrupts \in BOOLEAN
  /\ forks \in 0 .. MaxForks
  /\ returned \in SUBSET (Nat \X Nat)

NoTask == [id |-> 0, esp |-> 0, eip |-> NullEip, page_directory |-> nullptr,
           next |-> nullptr]

(* The kernel has reached initialise_tasking: idt_flush has enabled        *)
(* interrupts, the timer ticks and paging is on.                           *)
Init ==
  /\ current_task = nullptr /\ ready_queue = nullptr /\ next_pid = 0
  /\ task = [t \in Tasks |-> NoTask]
  /\ current_directory = kernel_directory /\ cr3 = kernel_directory
  /\ stack = [d \in Directories |->
                IF d = kernel_directory THEN <<[fn |-> "main"]>> ELSE <<>>]
  /\ pc = "boot" /\ eax = NullEip /\ interrupts = TRUE
  /\ forks = 0 /\ returned = {}

(***************************************************************************)
(* The stack the CPU is on                                                 *)
(***************************************************************************)

Depth == Len(stack[cr3])
Top   == stack[cr3][Depth]

Push(frame) == stack' = [stack EXCEPT ![cr3] = Append(@, frame)]
Pop         == stack' = [stack EXCEPT ![cr3] = SubSeq(@, 1, Depth - 1)]
SetTop(frame) == stack' = [stack EXCEPT ![cr3][Depth] = frame]

(***************************************************************************)
(* initialise_tasking                                                      *)
(***************************************************************************)

(* A new struct, ralloc'ed and filled in, with nothing to resume yet. *)
NewTask(pid, directory) ==
  [NoTask EXCEPT !.id = pid, !.page_directory = directory]

(* Mutant: the result of ralloc is used without looking. *)
HeapHasRoomIgnored == TRUE

HeapHasRoom == next_pid < MaxTasks

InitialiseTasking ==
  /\ pc = "boot"
  /\ task' = [task EXCEPT ![1] = NewTask(next_pid, current_directory)]
  /\ current_task' = 1 /\ ready_queue' = 1
  /\ next_pid' = next_pid + 1
  /\ interrupts' = TRUE
  /\ pc' = "task"
  /\ UNCHANGED <<current_directory, cr3, stack, eax, forks, returned>>

(***************************************************************************)
(* fork                                                                    *)
(***************************************************************************)

(* Mutant: fork does not disable interrupts. *)
ForkUnmasked ==
  /\ pc = "task" /\ Depth < MaxDepth /\ forks < MaxForks
  /\ forks' = forks + 1
  /\ Push([fn |-> "fork", parent |-> current_task, directory |-> nullptr,
           child |-> nullptr])
  /\ pc' = "fork_clone"
  /\ UNCHANGED <<current_task, ready_queue, next_pid, task, current_directory, cr3,
                 eax, interrupts, returned>>

(* cli; parent_task = current_task *)
Fork ==
  /\ pc = "task" /\ Depth < MaxDepth /\ forks < MaxForks
  /\ forks' = forks + 1
  /\ interrupts' = FALSE
  /\ Push([fn |-> "fork", parent |-> current_task, directory |-> nullptr,
           child |-> nullptr])
  /\ pc' = "fork_clone"
  /\ UNCHANGED <<current_task, ready_queue, next_pid, task, current_directory, cr3,
                 eax, returned>>

(* clone_directory: the child's stack is the parent's as it is now, with   *)
(* parent_task in it and neither directory nor new_task.                   *)
ForkClone ==
  /\ pc = "fork_clone"
  /\ LET d == forks + 1
     IN stack' = [stack EXCEPT ![d] = stack[current_directory],
                               ![cr3][Depth].directory = d]
  /\ pc' = "fork_append"
  /\ UNCHANGED <<current_task, ready_queue, next_pid, task, current_directory, cr3,
                 eax, interrupts, forks, returned>>

(* The k-th struct of the ready queue, and the last one. *)
Nth[k \in Nat] ==
  IF k = 0 THEN ready_queue
  ELSE IF Nth[k - 1] = nullptr THEN nullptr ELSE task[Nth[k - 1]].next

LastTask == Nth[CHOOSE k \in 0 .. MaxTasks - 1 : Nth[k] # nullptr /\ Nth[k + 1] = nullptr]

(* Mutant: the new task replaces the rest of the queue. *)
ForkAppendAtHead ==
  /\ pc = "fork_append" /\ HeapHasRoom
  /\ LET t == next_pid + 1
     IN /\ task' = [task EXCEPT ![t] = NewTask(next_pid, Top.directory),
                                ![ready_queue].next = t]
        /\ SetTop([Top EXCEPT !.child = t])
  /\ next_pid' = next_pid + 1
  /\ pc' = "fork_gip"
  /\ UNCHANGED <<current_task, ready_queue, current_directory, cr3, eax, interrupts,
                 forks, returned>>

(* ralloc, fill in, append to the ready queue: from here on the scheduler  *)
(* can find a task whose eip is still 0.                                   *)
ForkAppend ==
  /\ pc = "fork_append" /\ HeapHasRoom
  /\ LET t == next_pid + 1
     IN /\ task' = [task EXCEPT ![t] = NewTask(next_pid, Top.directory),
                                ![LastTask].next = t]
        /\ SetTop([Top EXCEPT !.child = t])
  /\ next_pid' = next_pid + 1
  /\ pc' = "fork_gip"
  /\ UNCHANGED <<current_task, ready_queue, current_directory, cr3, eax, interrupts,
                 forks, returned>>

(* ralloc throws, and the kernel's handler hangs with interrupts disabled. *)
ForkExhausted ==
  /\ pc = "fork_append" /\ ~HeapHasRoom
  /\ pc' = "hung"
  /\ UNCHANGED <<current_task, ready_queue, next_pid, task, current_directory, cr3,
                 stack, eax, interrupts, forks, returned>>

(* get_instruction_pointer returns the address behind its call, in eax. *)
GetInstructionPointer(from, back) ==
  /\ pc = from
  /\ eax' = back
  /\ pc' = back
  /\ UNCHANGED <<current_task, ready_queue, next_pid, task, current_directory, cr3,
                 stack, interrupts, forks, returned>>

ForkGip == GetInstructionPointer("fork_gip", "fork_check")

(* Mutant: the child's stack pointer is left at zero. *)
ForkParentNoEsp ==
  /\ pc = "fork_check" /\ current_task = Top.parent
  /\ task' = [task EXCEPT ![Top.child].eip = eax]
  /\ interrupts' = TRUE
  /\ returned' = returned \cup {<<task[current_task].id, task[Top.child].id>>}
  /\ Pop
  /\ pc' = "task"
  /\ UNCHANGED <<current_task, ready_queue, next_pid, current_directory, cr3, eax, forks>>

(* current_task == parent_task: give the child its esp, ebp and eip. *)
ForkParent ==
  /\ pc = "fork_check" /\ current_task = Top.parent
  /\ task' = [task EXCEPT ![Top.child].esp = Depth, ![Top.child].eip = eax]
  /\ interrupts' = TRUE
  /\ returned' = returned \cup {<<task[current_task].id, task[Top.child].id>>}
  /\ Pop
  /\ pc' = "task"
  /\ UNCHANGED <<current_task, ready_queue, next_pid, current_directory, cr3, eax, forks>>

(* Mutant: the child does not notice that it is not the parent. *)
ForkChildAsParent ==
  /\ pc = "fork_check" /\ current_task # Top.parent
  /\ returned' = returned \cup {<<task[current_task].id, task[Top.parent].id>>}
  /\ Pop
  /\ pc' = "task"
  /\ UNCHANGED <<current_task, ready_queue, next_pid, task, current_directory, cr3,
                 eax, interrupts, forks>>

ForkChild ==
  /\ pc = "fork_check" /\ current_task # Top.parent
  /\ returned' = returned \cup {<<task[current_task].id, 0>>}
  /\ Pop
  /\ pc' = "task"
  /\ UNCHANGED <<current_task, ready_queue, next_pid, task, current_directory, cr3,
                 eax, interrupts, forks>>

(***************************************************************************)
(* The timer and switch_task                                               *)
(***************************************************************************)

(* Labels at which an interrupt is being unwound after a task switch. *)
Unwinding == {"switch_check", "irq_return"}

(* IRQ 0: the stub saves the registers, irq_handler calls timer_callback,  *)
(* which calls switch_task.  The gate clears IF.                           *)
TimerInterrupt ==
  /\ interrupts /\ Depth + 1 < MaxDepth
  /\ Nested \/ pc \notin Unwinding
  /\ Push([fn |-> "irq", resume |-> pc, eax |-> eax])
  /\ interrupts' = FALSE
  /\ pc' = "switch"
  /\ UNCHANGED <<current_task, ready_queue, next_pid, task, current_directory, cr3,
                 eax, forks, returned>>

(* Tasking is not initialised yet: just return. *)
SwitchTooEarly ==
  /\ pc = "switch" /\ current_task = nullptr
  /\ pc' = "irq_return"
  /\ UNCHANGED <<current_task, ready_queue, next_pid, task, current_directory, cr3,
                 stack, eax, interrupts, forks, returned>>

(* esp and ebp are read into switch_task's own frame. *)
SwitchTask ==
  /\ pc = "switch" /\ current_task # nullptr
  /\ Push([fn |-> "switch", esp |-> Depth + 1])
  /\ pc' = "switch_gip"
  /\ UNCHANGED <<current_task, ready_queue, next_pid, task, current_directory, cr3,
                 eax, interrupts, forks, returned>>

SwitchGip == GetInstructionPointer("switch_gip", "switch_check")

SwitchSave ==
  /\ pc = "switch_check" /\ eax # DEADBABA
  /\ task' = [task EXCEPT ![current_task].eip = eax, ![current_task].esp = Top.esp]
  /\ pc' = "switch_pick"
  /\ UNCHANGED <<current_task, ready_queue, next_pid, current_directory, cr3, stack,
                 eax, interrupts, forks, returned>>

(* Mutant: the memory manager is not told about the new directory. *)
SwitchPickStaleDirectory ==
  /\ pc = "switch_pick"
  /\ current_task' = IF task[current_task].next = nullptr THEN ready_queue
                     ELSE task[current_task].next
  /\ pc' = "switch_load"
  /\ UNCHANGED <<ready_queue, next_pid, task, current_directory, cr3, stack, eax,
                 interrupts, forks, returned>>

(* Mutant: the end of the queue is not noticed, and its last task stays.   *)
SwitchPickNoWrap ==
  /\ pc = "switch_pick"
  /\ LET t == IF task[current_task].next = nullptr THEN current_task
              ELSE task[current_task].next
     IN /\ current_task' = t
        /\ current_directory' = task[t].page_directory
  /\ pc' = "switch_load"
  /\ UNCHANGED <<ready_queue, next_pid, task, cr3, stack, eax, interrupts, forks, returned>>

(* Mutant: the scheduler starts again at the head of the queue every time. *)
SwitchPickFirst ==
  /\ pc = "switch_pick"
  /\ current_task' = ready_queue
  /\ current_directory' = task[ready_queue].page_directory
  /\ pc' = "switch_load"
  /\ UNCHANGED <<ready_queue, next_pid, task, cr3, stack, eax, interrupts, forks, returned>>

(* The next task, or the first one behind the last. *)
SwitchPick ==
  /\ pc = "switch_pick"
  /\ LET t == IF task[current_task].next = nullptr THEN ready_queue
              ELSE task[current_task].next
     IN /\ current_task' = t
        /\ current_directory' = task[t].page_directory
  /\ pc' = "switch_load"
  /\ UNCHANGED <<ready_queue, next_pid, task, cr3, stack, eax, interrupts, forks, returned>>

(* Load esp, ebp and cr3, put the sentinel into eax, enable interrupts and *)
(* jump to eip.  What lies above esp on that stack is dead.                *)
SwitchLoad ==
  /\ pc = "switch_load"
  /\ cr3' = current_directory
  /\ stack' = [stack EXCEPT ![current_directory] = SubSeq(@, 1, task[current_task].esp)]
  /\ eax' = DEADBABA
  /\ interrupts' = TRUE
  /\ pc' = task[current_task].eip
  /\ UNCHANGED <<current_task, ready_queue, next_pid, task, current_directory, forks,
                 returned>>

(* The sentinel: this task has just been resumed. *)
SwitchReturn ==
  /\ pc = "switch_check" /\ eax = DEADBABA
  /\ Pop
  /\ pc' = "irq_return"
  /\ UNCHANGED <<current_task, ready_queue, next_pid, task, current_directory, cr3,
                 eax, interrupts, forks, returned>>

(* timer_callback and irq_handler return, popa, iret. *)
IrqReturn ==
  /\ pc = "irq_return"
  /\ Pop
  /\ pc' = Top.resume /\ eax' = Top.eax /\ interrupts' = TRUE
  /\ UNCHANGED <<current_task, ready_queue, next_pid, task, current_directory, cr3,
                 forks, returned>>

(***************************************************************************)
(* Specification                                                           *)
(***************************************************************************)

(* The CPU's next instructions, for code that is not up to the task. *)
Step == \/ InitialiseTasking
        \/ ForkClone \/ ForkAppend \/ ForkExhausted \/ ForkGip
        \/ ForkParent \/ ForkChild
        \/ SwitchTooEarly \/ SwitchTask \/ SwitchGip \/ SwitchSave
        \/ SwitchPick \/ SwitchLoad \/ SwitchReturn \/ IrqReturn

Next == Step \/ Fork \/ TimerInterrupt

Spec == Init /\ [][Next]_vars

(* The CPU executes, and the PIC keeps a tick pending until it is taken.   *)
(* A tick lasts 10 ms, so a task that is given the CPU again and again in  *)
(* the middle of boot or of fork gets on with it.                          *)
Fairness ==
  /\ WF_vars(Step) /\ WF_vars(TimerInterrupt)
  /\ SF_vars(InitialiseTasking)
  /\ \A t \in Tasks : SF_vars(ForkChild /\ current_task = t)

FairSpec == Spec /\ Fairness

(***************************************************************************)
(* Properties                                                              *)
(***************************************************************************)

Created == 1 .. next_pid

(* The function each label belongs to. *)
Owner(label) ==
  CASE label \in {"boot", "task"} -> "main"
    [] label \in {"fork_clone", "fork_append", "fork_gip", "fork_check", "hung"} -> "fork"
    [] label \in {"switch", "irq_return"} -> "irq"
    [] label \in {"switch_gip", "switch_check", "switch_pick", "switch_load"} -> "switch"
    [] OTHER -> "nothing"

(* The code the CPU executes finds its own activation record on top of the *)
(* stack: no switch resumes a function on another one's stack, or jumps to *)
(* the eip of a task that fork has linked and not yet filled in.           *)
RunsOnItsOwnFrame == Depth > 0 /\ Owner(pc) = Top.fn

(* Every task that is not running can be resumed whenever a tick may       *)
(* arrive: its saved esp names a record of the function its eip is in, and *)
(* a new child stands in a fork whose parent_task is somebody else.        *)
Resumable(t) ==
  LET s == stack[task[t].page_directory]
      d == task[t].esp
  IN /\ d \in 1 .. Len(s)
     /\ Owner(task[t].eip) = s[d].fn
     /\ task[t].eip = "fork_check" => s[d].parent # t
     /\ task[t].eip = "switch_check" => d > 1 /\ s[d - 1].fn = "irq"

SuspendedTasksResumable ==
  interrupts => \A t \in Created \ {current_task} : Resumable(t)

(* Whenever interrupts are enabled the CPU translates with the directory   *)
(* of the task the scheduler thinks is running.                            *)
AddressSpaceAgrees ==
  interrupts => /\ cr3 = current_directory
                /\ current_task # nullptr =>
                     current_directory = task[current_task].page_directory

(* The ready queue is every task ever created, once each, in the order of  *)
(* creation, so that the walk of switch_task meets all of them.            *)
QueueHasEveryTask == \A k \in 0 .. next_pid : Nth[k] = IF k = next_pid THEN nullptr ELSE k + 1

(* fork returns the child's pid in one task only, and 0 only in a task     *)
(* whose parent has been told its pid before.                              *)
ForkTellsParentAndChild ==
  \A r \in returned :
    IF r[2] = 0 THEN \E p \in returned : p[2] = r[1] /\ p[1] # r[1]
    ELSE \A p \in returned : p[2] = r[2] => p = r

(* Round robin: a task that exists is given the CPU again and again.       *)
EveryTaskRuns ==
  \A t \in Tasks : (t <= next_pid) ~> (current_task = t \/ pc = "hung")

(* A forked child gets to the return of its fork. *)
ChildrenReturn ==
  \A t \in Tasks : (t > 1 /\ t <= next_pid) ~>
    (pc = "hung" \/ <<task[t].id, 0>> \in returned)
============================================================================
