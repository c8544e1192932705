--------------------------- MODULE TaskingProofs ---------------------------
(***************************************************************************)
(* Proofs about multitasking, for any number of tasks and forks, any depth *)
(* of the stacks and nested ticks or not: how activation records may lie   *)
(* on the stack of a task, what a task that is not running has saved, and  *)
(* why no two tasks share a stack.                                         *)
(***************************************************************************)
EXTENDS Tasking, SequenceTheorems, WellFoundedInduction, TLAPS

(* Where a tick can be taken. *)
Interruptible == {"boot", "task", "fork_check", "switch_check", "irq_return"}

(* The k-th record of a stack that task t uses, k > 1: fork is called by   *)
(* the task itself, the stub is entered where ticks are possible, and      *)
(* switch_task is called by the stub and knows its own depth.              *)
Link(s, k, t) ==
  /\ s[k].fn # "main"
  /\ s[k].fn = "fork" => k = 2
  /\ s[k].fn = "irq" =>
       /\ s[k].resume \in Interruptible /\ Owner(s[k].resume) = s[k - 1].fn
       /\ s[k].resume = "boot" <=> t = nullptr
       /\ s[k].resume = "fork_check" => s[k - 1].parent # t /\ t # 1
       /\ s[k].resume = "switch_check" => s[k].eax = DEADBABA
  /\ s[k].fn = "switch" => s[k - 1].fn = "irq" /\ s[k].esp = k

(* The first n records of a stack. *)
Linked(s, n, t) ==
  n \in 1 .. Len(s) /\ s[1].fn = "main" /\ \A k \in 2 .. n : Link(s, k, t)

(* The stack that clone_directory gives to a child. *)
Cloned(s, parent) ==
  Len(s) = 2 /\ s[1].fn = "main" /\ s[2].fn = "fork" /\ s[2].parent = parent

(* A child is in the ready queue and fork has not filled it in yet. *)
Appending == pc = "fork_gip" \/ (pc = "fork_check" /\ ~interrupts)
Unfinished == IF Appending THEN {next_pid} ELSE {}

(* A task that switch_task can load. *)
Suspended(t) ==
  LET s == stack[task[t].page_directory]
      d == task[t].esp
  IN /\ Linked(s, d, t)
     /\ \/ task[t].eip = "switch_check" /\ s[d].fn = "switch"
        \/ task[t].eip = "fork_check" /\ s[d].fn = "fork" /\ s[d].parent # t /\ t # 1

Saved == IF pc \in {"switch_pick", "switch_load"} THEN Created
         ELSE Created \ {current_task}

AllSuspended == \A t \in Saved \ Unfinished : Suspended(t)

(* The ready queue lists the tasks in the order of their structs. *)
Queue ==
  /\ current_task \in 0 .. next_pid /\ (current_task = nullptr <=> next_pid = 0)
  /\ ready_queue = IF next_pid = 0 THEN nullptr ELSE 1
  /\ \A t \in Created : /\ task[t].next = IF t = next_pid THEN nullptr ELSE t + 1
                        /\ task[t].id = t - 1

(* Each task has a directory of its own, and clone_directory has not       *)
(* handed out the next one yet.                                            *)
OwnDirectories ==
  /\ \A t \in Created :
       /\ task[t].page_directory \in Directories
       /\ task[t].page_directory <= forks + 1
       /\ pc \in {"fork_clone", "fork_append"} => task[t].page_directory <= forks
  /\ \A t, u \in Created : task[t].page_directory = task[u].page_directory => t = u
  /\ current_directory = IF current_task = nullptr THEN kernel_directory
                         ELSE task[current_task].page_directory
  /\ pc # "switch_load" => cr3 = current_directory

(* The CPU is on the stack of the current task. *)
OnOwnStack ==
  /\ Depth > 0 /\ Owner(pc) = Top.fn
  /\ pc # "switch_load" => Linked(stack[cr3], Depth, current_task)

(* What holds at the labels. *)
Labelled ==
  /\ interrupts => pc \in Interruptible
  /\ pc = "boot" => current_task = nullptr
  /\ current_task = nullptr => pc \in {"boot", "switch", "irq_return"}
  /\ current_task = nullptr /\ interrupts => pc = "boot"
  /\ pc = "switch_check" => IF interrupts THEN eax = DEADBABA ELSE eax = "switch_check"
  /\ pc \in {"fork_clone", "fork_append", "fork_gip"} => Top.parent = current_task
  /\ pc = "fork_check" /\ interrupts => Top.parent # current_task /\ current_task # 1
  /\ pc = "fork_check" /\ ~interrupts => Top.parent = current_task /\ eax = "fork_check"

(* A fork in progress. *)
Forking ==
  /\ pc = "fork_append" =>
       /\ Top.directory = forks + 1 /\ Cloned(stack[forks + 1], current_task)
  /\ Appending =>
       /\ Top.child = next_pid /\ current_task < next_pid
       /\ Cloned(stack[task[next_pid].page_directory], current_task)

(* What fork has returned so far. *)
Told ==
  /\ \A r \in returned : r[2] \in 0 .. next_pid - 1 /\ (Appending => r[2] # next_pid - 1)
  /\ \A t \in (2 .. next_pid) \ Unfinished : \E p \in returned : p[2] = t - 1 /\ p[1] # t - 1
  /\ ForkTellsParentAndChild

TaskingInv ==
  /\ TypeOK /\ Queue /\ OwnDirectories /\ OnOwnStack /\ Labelled /\ Forking
  /\ AllSuspended /\ Told

(***************************************************************************)
(* The ready queue                                                         *)
(***************************************************************************)

(* A set of natural numbers has a least element. *)
LEMMA LeastNatural ==
  ASSUME NEW T \in SUBSET Nat, T # {}
  PROVE  \E x \in T : \A y \in T : x <= y
<1> DEFINE Less == OpToRel(<, Nat)
<1>1. Less = {p \in Nat \X Nat : p[1] < p[2]}
  BY DEF OpToRel
<1>2. IsWellFoundedOn(Less, Nat)
  BY NatLessThanWellFounded, Zenon
<1> HIDE DEF Less
<1>3. PICK x \in T : \A y \in T : ~(<<y, x>> \in Less)
  BY <1>2, WFMin
<1>4. \A y \in T : ~(y < x)
  BY <1>1, <1>3
<1> QED BY <1>4

(* The walk over the queue meets the structs in the order of creation and  *)
(* then the end.                                                           *)
LEMMA NthOfQueue ==
  ASSUME next_pid \in Nat, Queue
  PROVE  \A k \in Nat : Nth[k] = IF k < next_pid THEN k + 1 ELSE nullptr
<1> DEFINE Next1(f, k) == IF k = 0 THEN ready_queue
                          ELSE IF f[k - 1] = nullptr THEN nullptr ELSE task[f[k - 1]].next
           g == [k \in Nat |-> IF k < next_pid THEN k + 1 ELSE nullptr]
<1>1. ASSUME NEW k \in Nat PROVE g[k] = Next1(g, k)
  <2>1. CASE k = 0
    BY <2>1 DEF Queue
  <2>2. CASE k # 0 /\ k - 1 < next_pid
    <3>1. k - 1 \in Nat /\ g[k - 1] = k /\ k # nullptr
      BY <2>2 DEF nullptr
    <3>2. k \in Created
      BY <2>2 DEF Created
    <3> QED BY <2>2, <3>1, <3>2 DEF Queue
  <2>3. CASE k # 0 /\ ~(k - 1 < next_pid)
    <3>1. k - 1 \in Nat /\ g[k - 1] = nullptr
      BY <2>3
    <3> QED BY <2>3, <3>1
  <2> QED BY <2>1, <2>2, <2>3
<1>2. g = [k \in Nat |-> Next1(g, k)]
  BY <1>1
<1> HIDE DEF g
<1>3. Nth = CHOOSE f : f = [k \in Nat |-> Next1(f, k)]
  BY Zenon DEF Nth
<1>4. Nth = [k \in Nat |-> Next1(Nth, k)]
  BY <1>2, <1>3
<1> DEFINE T == {k \in Nat : Nth[k] # g[k]}
<1>5. T = {}
  <2> SUFFICES ASSUME T # {} PROVE FALSE
    OBVIOUS
  <2>1. PICK x \in T : \A y \in T : x <= y
    BY LeastNatural
  <2>2. x \in Nat /\ Nth[x] = Next1(Nth, x) /\ g[x] = Next1(g, x)
    BY <1>1, <1>4
  <2>3. x = 0 \/ (x - 1 \in Nat /\ Nth[x - 1] = g[x - 1])
    BY <2>1
  <2> QED BY <2>2, <2>3
<1> QED BY <1>5 DEF g

(* fork appends behind the task that was created last. *)
LEMMA LastIsNewest ==
  ASSUME next_pid \in 1 .. MaxTasks, Queue
  PROVE  LastTask = next_pid
<1> DEFINE P(k) == Nth[k] # nullptr /\ Nth[k + 1] = nullptr
           c == CHOOSE k \in 0 .. MaxTasks - 1 : P(k)
<1>1. next_pid \in Nat /\ MaxTasks \in Nat
  BY TaskingAssumption
<1>2. \A k \in Nat : Nth[k] = IF k < next_pid THEN k + 1 ELSE nullptr
  BY <1>1, NthOfQueue
<1>3. next_pid - 1 \in 0 .. MaxTasks - 1 /\ P(next_pid - 1)
  BY <1>1, <1>2 DEF nullptr
<1>4. c \in 0 .. MaxTasks - 1 /\ P(c)
  BY <1>3
<1>5. LastTask = Nth[c]
  BY DEF LastTask
<1> HIDE DEF c
<1>6. c = next_pid - 1
  BY <1>1, <1>2, <1>4 DEF nullptr
<1> QED BY <1>1, <1>2, <1>5, <1>6

(***************************************************************************)
(* Records and stacks                                                      *)
(***************************************************************************)

(* What each kind of record holds. *)
LEMMA FrameFields ==
  ASSUME NEW f \in Frame
  PROVE  /\ f.fn \in {"main", "fork", "irq", "switch"}
         /\ f.fn = "fork" => /\ f \in [fn : {"fork"}, parent : Tasks,
                                       directory : Directories \cup {nullptr},
                                       child : Tasks \cup {nullptr}]
         /\ f.fn = "irq" => f.resume \in Labels /\ f.eax \in Labels \cup {DEADBABA}
         /\ f.fn = "switch" => f.esp \in Nat
BY DEF Frame

(* Owner, label by label. *)
LEMMA Owners ==
  /\ \A l \in {"boot", "task"} : Owner(l) = "main"
  /\ \A l \in {"fork_clone", "fork_append", "fork_gip", "fork_check", "hung"} :
       Owner(l) = "fork"
  /\ \A l \in {"switch", "irq_return"} : Owner(l) = "irq"
  /\ \A l \in {"switch_gip", "switch_check", "switch_pick", "switch_load"} :
       Owner(l) = "switch"
  /\ Owner(NullEip) = "nothing"
BY DEF Owner, NullEip

(* What the types give about the stack the CPU is on. *)
LEMMA Here ==
  ASSUME TypeOK, Depth > 0
  PROVE  /\ stack[cr3] \in Seq(Frame) /\ Depth = Len(stack[cr3]) /\ Depth \in Nat
         /\ Top = stack[cr3][Depth] /\ Top \in Frame /\ cr3 \in Directories
<1>1. cr3 \in Directories /\ stack[cr3] \in Seq(Frame)
  BY DEF TypeOK
<1> QED BY <1>1 DEF Depth, Top

(* Other stacks stay as they are. *)
OthersKept == \A d \in Directories \ {cr3} : stack'[d] = stack[d]

(* Push, Pop and SetTop, by what they do to the records. *)
Pushed(f) ==
  /\ stack' \in [Directories -> Seq(Frame)] /\ OthersKept
  /\ Len(stack'[cr3]) = Depth + 1
  /\ \A k \in 1 .. Depth : stack'[cr3][k] = stack[cr3][k]
  /\ stack'[cr3][Depth + 1] = f

Popped ==
  /\ stack' \in [Directories -> Seq(Frame)] /\ OthersKept
  /\ Len(stack'[cr3]) = Depth - 1
  /\ \A k \in 1 .. Depth - 1 : stack'[cr3][k] = stack[cr3][k]

(* A call or an interrupt puts a record on the stack of the address space  *)
(* that the CPU is in, and on no other.                                    *)
LEMMA PushIs ==
  ASSUME TypeOK, Depth > 0, NEW f \in Frame, Push(f)
  PROVE  Pushed(f)
<1>1. /\ stack[cr3] \in Seq(Frame) /\ Depth = Len(stack[cr3]) /\ Depth \in Nat
      /\ cr3 \in Directories /\ stack \in [Directories -> Seq(Frame)]
  BY Here DEF TypeOK
<1> DEFINE s == Append(stack[cr3], f)
<1>2. /\ s \in Seq(Frame) /\ Len(s) = Depth + 1 /\ s[Depth + 1] = f
      /\ \A k \in 1 .. Depth : s[k] = stack[cr3][k]
  BY <1>1
<1>3. stack' = [stack EXCEPT ![cr3] = s]
  BY DEF Push
<1> HIDE DEF s
<1>4. stack' \in [Directories -> Seq(Frame)] /\ stack'[cr3] = s /\ OthersKept
  BY <1>1, <1>2, <1>3 DEF OthersKept
<1> QED BY <1>2, <1>4 DEF Pushed

(* A return takes the top record off that stack. *)
LEMMA PopIs ==
  ASSUME TypeOK, Depth > 0, Pop
  PROVE  Popped
<1>1. /\ stack[cr3] \in Seq(Frame) /\ Depth = Len(stack[cr3]) /\ Depth \in Nat
      /\ cr3 \in Directories /\ stack \in [Directories -> Seq(Frame)]
  BY Here DEF TypeOK
<1> DEFINE s == SubSeq(stack[cr3], 1, Depth - 1)
<1>2. \A k \in 1 .. Depth - 1 : stack[cr3][k] \in Frame
  BY <1>1
<1>3. /\ s \in Seq(Frame) /\ Len(s) = Depth - 1
      /\ \A k \in 1 .. Depth - 1 : s[k] = stack[cr3][k]
  BY <1>1, <1>2, SubSeqProperties
<1>4. stack' = [stack EXCEPT ![cr3] = s]
  BY DEF Pop
<1> HIDE DEF s
<1>5. stack' \in [Directories -> Seq(Frame)] /\ stack'[cr3] = s /\ OthersKept
  BY <1>1, <1>3, <1>4 DEF OthersKept
<1> QED BY <1>3, <1>5 DEF Popped

(* Linked looks at the first n records only. *)
LEMMA LinkedPrefix ==
  ASSUME NEW s, NEW u, NEW n \in Nat, NEW m \in 1 .. n, NEW t,
         Linked(s, n, t), Len(u) \in Nat, m <= Len(u),
         \A k \in 1 .. m : u[k] = s[k]
  PROVE  Linked(u, m, t)
<1>1. \A k \in 2 .. m : k \in 1 .. m /\ k - 1 \in 1 .. m /\ k \in 2 .. n
  OBVIOUS
<1>2. ASSUME NEW k \in 2 .. m PROVE Link(u, k, t)
  <2>1. u[k] = s[k] /\ u[k - 1] = s[k - 1] /\ Link(s, k, t)
    BY <1>1 DEF Linked
  <2> QED BY <2>1 DEF Link
<1>3. u[1].fn = "main" /\ m \in 1 .. Len(u)
  BY DEF Linked
<1> QED BY <1>2, <1>3 DEF Linked

(* A record more. *)
LEMMA LinkedMore ==
  ASSUME NEW s, NEW u, NEW n \in Nat, NEW t, Linked(s, n, t), Len(u) = n + 1,
         \A k \in 1 .. n : u[k] = s[k], Link(u, n + 1, t)
  PROVE  Linked(u, n + 1, t)
<1>1. n \in 1 .. n
  BY DEF Linked
<1>2. Linked(u, n, t)
  BY <1>1, LinkedPrefix
<1> QED BY <1>2 DEF Linked

(* A task that is not loaded keeps what it has saved when its stack and    *)
(* the three fields of its struct stay.                                    *)
LEMMA SuspendedKept ==
  ASSUME NEW t, Suspended(t),
         task'[t].esp = task[t].esp, task'[t].eip = task[t].eip,
         task'[t].page_directory = task[t].page_directory,
         stack'[task[t].page_directory] = stack[task[t].page_directory]
  PROVE  Suspended(t)'
BY DEF Suspended

(***************************************************************************)
(* The running task and the others                                         *)
(***************************************************************************)

(* The record of the running function and the one below it. *)
LEMMA Running ==
  ASSUME TaskingInv
  PROVE  /\ TypeOK /\ Depth \in Nat /\ Depth > 0 /\ cr3 \in Directories
         /\ stack[cr3] \in Seq(Frame) /\ Depth = Len(stack[cr3])
         /\ Top \in Frame /\ Top = stack[cr3][Depth] /\ Owner(pc) = Top.fn
         /\ pc # "switch_load" =>
              /\ Linked(stack[cr3], Depth, current_task) /\ cr3 = current_directory
              /\ Top.fn = "main" <=> Depth = 1
              /\ Depth > 1 => Link(stack[cr3], Depth, current_task)
              /\ Top.fn = "fork" => Depth = 2
<1>1. TypeOK /\ Depth > 0 /\ Owner(pc) = Top.fn
  BY DEF TaskingInv, OnOwnStack
<1>2. /\ Depth \in Nat /\ cr3 \in Directories /\ Top \in Frame /\ Top = stack[cr3][Depth]
      /\ stack[cr3] \in Seq(Frame) /\ Depth = Len(stack[cr3])
  BY <1>1, Here
<1>3. ASSUME pc # "switch_load"
      PROVE  /\ Linked(stack[cr3], Depth, current_task) /\ cr3 = current_directory
             /\ Top.fn = "main" <=> Depth = 1
             /\ Depth > 1 => Link(stack[cr3], Depth, current_task)
             /\ Top.fn = "fork" => Depth = 2
  <2>1. Linked(stack[cr3], Depth, current_task) /\ cr3 = current_directory
    BY <1>3 DEF TaskingInv, OnOwnStack, OwnDirectories
  <2>2. Depth > 1 => Link(stack[cr3], Depth, current_task)
    BY <1>1, <1>2, <2>1 DEF Linked
  <2>3. Depth > 1 => Top.fn # "main" /\ (Top.fn = "fork" => Depth = 2)
    BY <1>2, <2>2 DEF Link
  <2>4. Depth = 1 => Top.fn = "main"
    BY <1>2, <2>1 DEF Linked
  <2>5. Depth = 1 \/ Depth > 1
    <3>1. Depth \in Nat /\ Depth > 0
      BY <1>1, <1>2
    <3> QED BY <3>1
  <2>6. (Top.fn = "main" <=> Depth = 1) /\ (Top.fn = "fork" => Depth = 2)
    BY <2>3, <2>4, <2>5
  <2> QED BY <2>1, <2>2, <2>6
<1> QED BY <1>1, <1>2, <1>3

(* Nobody else is on the running task's stack. *)
LEMMA Elsewhere ==
  ASSUME TaskingInv, pc # "switch_load", NEW t \in Created, t # current_task
  PROVE  task[t].page_directory \in Directories \ {cr3}
<1>1. next_pid \in Nat /\ current_task \in Created /\ current_task # nullptr
  <2>1. next_pid \in Nat
    BY DEF TaskingInv, TypeOK
  <2>2. next_pid # 0
    BY <2>1 DEF Created
  <2> QED BY <2>1, <2>2 DEF TaskingInv, Queue, Created, nullptr
<1>2. cr3 = task[current_task].page_directory
  BY <1>1 DEF TaskingInv, OwnDirectories
<1> QED BY <1>1, <1>2 DEF TaskingInv, OwnDirectories

(* The other tasks stay as they are saved while the CPU is busy with one.  *)
LEMMA SuspendedStay ==
  ASSUME TaskingInv, UNCHANGED <<current_task, next_pid, task>>, OthersKept,
         pc \notin {"switch_pick", "switch_load"},
         pc' \notin {"switch_pick", "switch_load"}, Appending' <=> Appending
  PROVE  AllSuspended'
<1>1. Created' = Created /\ Unfinished' = Unfinished
  BY DEF Created, Unfinished
<1>2. Saved' = Saved /\ Saved = Created \ {current_task}
  BY <1>1 DEF Saved
<1>3. ASSUME NEW t \in Saved \ Unfinished PROVE Suspended(t)'
  <2>1. Suspended(t)
    BY DEF TaskingInv, AllSuspended
  <2>2. task[t].page_directory \in Directories \ {cr3}
    BY <1>2, Elsewhere
  <2> QED BY <2>1, <2>2, SuspendedKept DEF OthersKept
<1> QED BY <1>1, <1>2, <1>3 DEF AllSuspended

(* fork has nothing new to tell. *)
LEMMA ToldStays ==
  ASSUME TaskingInv, UNCHANGED <<next_pid, returned>>, Appending' <=> Appending
  PROVE  Told'
<1>1. Unfinished' = Unfinished
  BY DEF Unfinished
<1> QED BY <1>1 DEF TaskingInv, Told, ForkTellsParentAndChild

(* What a step that stays in one task, and in one phase of it, leaves.     *)
StaysInTask ==
  /\ UNCHANGED <<current_task, ready_queue, next_pid, task, current_directory, cr3,
                 forks, returned>>
  /\ pc \notin {"switch_pick", "switch_load"}
  /\ pc' \notin {"fork_clone", "fork_append", "switch_pick", "switch_load"}
  /\ Appending' <=> Appending
  /\ OthersKept

(* Such a step need only care for the running task's stack and labels. *)
LEMMA StaysKeeps ==
  ASSUME TaskingInv, StaysInTask, TypeOK', OnOwnStack', Labelled', Forking'
  PROVE  TaskingInv'
<1> USE DEF StaysInTask
<1>1. Created' = Created
  BY DEF Created
<1>2. Queue'
  BY <1>1 DEF TaskingInv, Queue
<1>3. OwnDirectories'
  BY <1>1 DEF TaskingInv, OwnDirectories
<1>4. Told' /\ AllSuspended'
  BY ToldStays, SuspendedStay
<1> QED BY <1>2, <1>3, <1>4 DEF TaskingInv

(* A step that pushes a record for the running task. *)
LEMMA PushedOnTop ==
  ASSUME TaskingInv, UNCHANGED <<cr3, current_task>>, NEW f \in Frame, Pushed(f),
         pc # "switch_load", Owner(pc') = f.fn, f.fn # "main", f.fn = "fork" => Depth = 1,
         f.fn = "irq" =>
           /\ f.resume \in Interruptible /\ Owner(f.resume) = Top.fn
           /\ f.resume = "boot" <=> current_task = nullptr
           /\ f.resume = "fork_check" => Top.parent # current_task /\ current_task # 1
           /\ f.resume = "switch_check" => f.eax = DEADBABA,
         f.fn = "switch" => Top.fn = "irq" /\ f.esp = Depth + 1
  PROVE  Depth' = Depth + 1 /\ Top' = f /\ OnOwnStack'
<1>1. /\ Depth \in Nat /\ Depth > 0 /\ Top = stack[cr3][Depth]
      /\ Linked(stack[cr3], Depth, current_task)
  BY Running
<1>2. Depth' = Depth + 1 /\ Top' = f
  BY <1>1 DEF Pushed, Depth, Top
<1>3. stack'[cr3][Depth + 1] = f /\ stack'[cr3][Depth] = Top /\ Depth + 1 - 1 = Depth
  BY <1>1 DEF Pushed
<1>4. Link(stack'[cr3], Depth + 1, current_task)
  BY <1>1, <1>3 DEF Link
<1>5. Linked(stack'[cr3], Depth + 1, current_task)
  BY <1>1, <1>4, LinkedMore DEF Pushed
<1>6. Depth' > 0 /\ Owner(pc') = (Top').fn
  BY <1>1, <1>2
<1>7. Linked(stack'[cr3'], Depth', current_task')
  BY <1>2, <1>5
<1> QED BY <1>2, <1>6, <1>7 DEF OnOwnStack

(* A step that returns to the record below. *)
LEMMA PoppedFromTop ==
  ASSUME TaskingInv, UNCHANGED <<cr3, current_task>>, Popped, Depth > 1,
         pc # "switch_load", Owner(pc') = stack[cr3][Depth - 1].fn
  PROVE  Depth' = Depth - 1 /\ Top' = stack[cr3][Depth - 1] /\ OnOwnStack'
<1>1. Depth \in Nat /\ Linked(stack[cr3], Depth, current_task)
  BY Running
<1>2. Depth' = Depth - 1 /\ Top' = stack[cr3][Depth - 1]
  BY <1>1 DEF Popped, Depth, Top
<1>3. Linked(stack'[cr3], Depth - 1, current_task)
  <2>1. /\ Depth - 1 \in 1 .. Depth /\ Len(stack'[cr3]) \in Nat
        /\ Depth - 1 <= Len(stack'[cr3])
        /\ \A k \in 1 .. Depth - 1 : stack'[cr3][k] = stack[cr3][k]
    BY <1>1 DEF Popped
  <2> DEFINE s == stack[cr3]
             u == stack'[cr3]
             n == Depth
             m == Depth - 1
  <2>2. /\ n \in Nat /\ m \in 1 .. n /\ Linked(s, n, current_task) /\ Len(u) \in Nat
        /\ m <= Len(u) /\ \A k \in 1 .. m : u[k] = s[k]
    BY <1>1, <2>1
  <2> HIDE DEF s, u, n, m
  <2>3. Linked(u, m, current_task)
    BY <2>2, LinkedPrefix
  <2> QED BY <2>3 DEF u, m
<1>4. Depth' > 0 /\ Owner(pc') = (Top').fn
  BY <1>1, <1>2
<1>5. Linked(stack'[cr3'], Depth', current_task')
  BY <1>2, <1>3
<1> QED BY <1>2, <1>4, <1>5 DEF OnOwnStack

(* A step inside the running function. *)
LEMMA StackUnchanged ==
  ASSUME TaskingInv, UNCHANGED <<stack, cr3, current_task>>, pc # "switch_load",
         Owner(pc') = Owner(pc)
  PROVE  Depth' = Depth /\ Top' = Top /\ OnOwnStack' /\ OthersKept
<1>1. Depth' = Depth /\ Top' = Top
  BY DEF Depth, Top
<1>2. Depth > 0 /\ Owner(pc) = Top.fn /\ Linked(stack[cr3], Depth, current_task)
  BY Running
<1>3. Depth' > 0 /\ Owner(pc') = (Top').fn
  BY <1>1, <1>2
<1>4. Linked(stack'[cr3'], Depth', current_task')
  BY <1>1, <1>2
<1> QED BY <1>1, <1>3, <1>4 DEF OnOwnStack, OthersKept

(* The types, for a step that stays in its task. *)
LEMMA StaysTyped ==
  ASSUME TypeOK, stack' \in [Directories -> Seq(Frame)], pc' \in Labels,
         eax' \in Labels \cup {DEADBABA}, interrupts' \in BOOLEAN,
         UNCHANGED <<current_task, ready_queue, next_pid, task, current_directory, cr3,
                     forks, returned>>
  PROVE  TypeOK'
BY DEF TypeOK

(* The types of the CPU's registers. *)
LEMMA Registers ==
  ASSUME TypeOK
  PROVE  /\ interrupts \in BOOLEAN /\ pc \in Labels /\ eax \in Labels \cup {DEADBABA}
         /\ stack \in [Directories -> Seq(Frame)] /\ next_pid \in Nat /\ forks \in Nat
BY TaskingAssumption DEF TypeOK

(***************************************************************************)
(* Steps that stay in their task                                           *)
(***************************************************************************)

(* The hook returns at once before tasking is initialised. *)
LEMMA SwitchTooEarlyPreserves ==
  ASSUME TaskingInv, SwitchTooEarly
  PROVE  TaskingInv'
<1>1. /\ pc = "switch" /\ current_task = nullptr /\ pc' = "irq_return"
      /\ UNCHANGED <<current_task, ready_queue, next_pid, task, current_directory, cr3,
                     stack, eax, interrupts, forks, returned>>
  BY DEF SwitchTooEarly
<1>2. OnOwnStack' /\ OthersKept
  BY <1>1, StackUnchanged, Owners
<1>3. TypeOK'
  BY <1>1, Running, Registers, StaysTyped DEF Labels
<1>4. StaysInTask
  BY <1>1, <1>2 DEF StaysInTask, Appending
<1>5. ~interrupts
  BY <1>1 DEF TaskingInv, Labelled, Interruptible
<1>6. Labelled' /\ Forking'
  BY <1>1, <1>5 DEF Labelled, Forking, Appending
<1> QED BY <1>2, <1>3, <1>4, <1>6, StaysKeeps

(* ralloc has thrown in fork. *)
LEMMA ForkExhaustedPreserves ==
  ASSUME TaskingInv, ForkExhausted
  PROVE  TaskingInv'
<1>1. /\ pc = "fork_append" /\ pc' = "hung"
      /\ UNCHANGED <<current_task, ready_queue, next_pid, task, current_directory, cr3,
                     stack, eax, interrupts, forks, returned>>
  BY DEF ForkExhausted
<1>2. OnOwnStack' /\ OthersKept
  BY <1>1, StackUnchanged, Owners
<1>3. TypeOK'
  BY <1>1, Running, Registers, StaysTyped DEF Labels
<1>4. StaysInTask
  BY <1>1, <1>2 DEF StaysInTask, Appending
<1>5. ~interrupts /\ current_task # nullptr
  BY <1>1 DEF TaskingInv, Labelled, Interruptible
<1>6. Labelled' /\ Forking'
  BY <1>1, <1>5 DEF Labelled, Forking, Appending
<1> QED BY <1>2, <1>3, <1>4, <1>6, StaysKeeps

(* get_instruction_pointer, called by fork. *)
LEMMA ForkGipPreserves ==
  ASSUME TaskingInv, ForkGip
  PROVE  TaskingInv'
<1>1. /\ pc = "fork_gip" /\ pc' = "fork_check" /\ eax' = "fork_check"
      /\ UNCHANGED <<current_task, ready_queue, next_pid, task, current_directory, cr3,
                     stack, interrupts, forks, returned>>
  BY DEF ForkGip, GetInstructionPointer
<1>2. OnOwnStack' /\ OthersKept /\ Top' = Top
  BY <1>1, StackUnchanged, Owners
<1>3. TypeOK'
  BY <1>1, Running, Registers, StaysTyped DEF Labels
<1>4. ~interrupts /\ current_task # nullptr /\ Top.parent = current_task
  BY <1>1 DEF TaskingInv, Labelled, Interruptible
<1>5. StaysInTask
  BY <1>1, <1>2, <1>4 DEF StaysInTask, Appending
<1>6. Labelled'
  BY <1>1, <1>2, <1>4 DEF Labelled, Interruptible
<1>7. Forking'
  BY <1>1, <1>2, <1>4 DEF TaskingInv, Forking, Appending
<1> QED BY <1>2, <1>3, <1>5, <1>6, <1>7, StaysKeeps

(* get_instruction_pointer, called by switch_task. *)
LEMMA SwitchGipPreserves ==
  ASSUME TaskingInv, SwitchGip
  PROVE  TaskingInv'
<1>1. /\ pc = "switch_gip" /\ pc' = "switch_check" /\ eax' = "switch_check"
      /\ UNCHANGED <<current_task, ready_queue, next_pid, task, current_directory, cr3,
                     stack, interrupts, forks, returned>>
  BY DEF SwitchGip, GetInstructionPointer
<1>2. OnOwnStack' /\ OthersKept
  BY <1>1, StackUnchanged, Owners
<1>3. TypeOK'
  BY <1>1, Running, Registers, StaysTyped DEF Labels
<1>4. ~interrupts /\ current_task # nullptr
  BY <1>1 DEF TaskingInv, Labelled, Interruptible
<1>5. StaysInTask
  BY <1>1, <1>2 DEF StaysInTask, Appending
<1>6. Labelled' /\ Forking'
  BY <1>1, <1>4 DEF Labelled, Forking, Appending
<1> QED BY <1>2, <1>3, <1>5, <1>6, StaysKeeps

(* switch_task is entered. *)
LEMMA SwitchTaskPreserves ==
  ASSUME TaskingInv, SwitchTask
  PROVE  TaskingInv'
<1> DEFINE f == [fn |-> "switch", esp |-> Depth + 1]
<1>1. /\ pc = "switch" /\ current_task # nullptr /\ pc' = "switch_gip" /\ Push(f)
      /\ UNCHANGED <<current_task, ready_queue, next_pid, task, current_directory, cr3,
                     eax, interrupts, forks, returned>>
  BY DEF SwitchTask
<1>2. f \in Frame /\ f.fn = "switch" /\ f.esp = Depth + 1
  <2>1. Depth + 1 \in Nat
    BY Running
  <2> QED BY <2>1 DEF Frame
<1> HIDE DEF f
<1>3. Pushed(f)
  BY <1>1, <1>2, Running, PushIs
<1>4. Top.fn = "irq" /\ Owner(pc') = f.fn
  BY <1>1, <1>2, Running, Owners
<1>5. OnOwnStack'
  BY <1>1, <1>2, <1>3, <1>4, PushedOnTop
<1>6. TypeOK'
  <2>1. pc' \in Labels
    BY <1>1 DEF Labels
  <2> QED BY <1>1, <1>3, <2>1, Running, Registers, StaysTyped DEF Pushed
<1>7. StaysInTask
  BY <1>1, <1>3 DEF StaysInTask, Appending, Pushed
<1>8. ~interrupts
  BY <1>1 DEF TaskingInv, Labelled, Interruptible
<1>9. Labelled' /\ Forking'
  BY <1>1, <1>8 DEF Labelled, Forking, Appending
<1> QED BY <1>5, <1>6, <1>7, <1>9, StaysKeeps

(* A resumed switch_task returns to the stub. *)
LEMMA SwitchReturnPreserves ==
  ASSUME TaskingInv, SwitchReturn
  PROVE  TaskingInv'
<1>1. /\ pc = "switch_check" /\ eax = DEADBABA /\ pc' = "irq_return" /\ Pop
      /\ UNCHANGED <<current_task, ready_queue, next_pid, task, current_directory, cr3,
                     eax, interrupts, forks, returned>>
  BY DEF SwitchReturn
<1>2. Top.fn = "switch" /\ Depth > 1 /\ Link(stack[cr3], Depth, current_task)
  <2>1. Top.fn = "switch" /\ Depth \in Nat /\ Depth > 0
    BY <1>1, Running, Owners
  <2>2. Depth # 1
    BY <1>1, <2>1, Running
  <2>3. Depth > 1
    BY <2>1, <2>2
  <2> QED BY <1>1, <2>1, <2>3, Running
<1>3. stack[cr3][Depth - 1].fn = "irq"
  BY <1>2, Running DEF Link
<1>4. Popped
  BY <1>1, Running, PopIs
<1>5. OnOwnStack'
  BY <1>1, <1>2, <1>3, <1>4, Owners, PoppedFromTop
<1>6. TypeOK'
  <2>1. pc' \in Labels
    BY <1>1 DEF Labels
  <2> QED BY <1>1, <1>4, <2>1, Running, Registers, StaysTyped DEF Popped
<1>7. StaysInTask
  BY <1>1, <1>4 DEF StaysInTask, Appending, Popped
<1>8. current_task # nullptr
  BY <1>1 DEF TaskingInv, Labelled
<1>9. Labelled' /\ Forking'
  BY <1>1, <1>8 DEF Labelled, Forking, Appending, Interruptible
<1> QED BY <1>5, <1>6, <1>7, <1>9, StaysKeeps

(* A tick: the stub's record remembers where the task was. *)
LEMMA TimerInterruptPreserves ==
  ASSUME TaskingInv, TimerInterrupt
  PROVE  TaskingInv'
<1> DEFINE f == [fn |-> "irq", resume |-> pc, eax |-> eax]
<1>1. /\ interrupts = TRUE /\ interrupts' = FALSE /\ pc' = "switch" /\ Push(f)
      /\ UNCHANGED <<current_task, ready_queue, next_pid, task, current_directory, cr3,
                     eax, forks, returned>>
  BY Running, Registers DEF TimerInterrupt
<1>2. f \in Frame /\ f.fn = "irq" /\ f.resume = pc /\ f.eax = eax
  <2>1. pc \in Labels /\ eax \in Labels \cup {DEADBABA}
    BY Running, Registers
  <2> QED BY <2>1 DEF Frame
<1> HIDE DEF f
<1>3. Pushed(f)
  BY <1>1, <1>2, Running, PushIs
<1>4. /\ pc \in Interruptible /\ (pc = "boot" <=> current_task = nullptr)
      /\ pc = "fork_check" => Top.parent # current_task /\ current_task # 1
      /\ pc = "switch_check" => eax = DEADBABA
  BY <1>1 DEF TaskingInv, Labelled
<1>5. pc # "switch_load" /\ Owner(pc) = Top.fn /\ Owner(pc') = f.fn
  BY <1>1, <1>2, <1>4, Running, Owners DEF Interruptible
<1>6. OnOwnStack'
  BY <1>1, <1>2, <1>3, <1>4, <1>5, PushedOnTop
<1>7. TypeOK'
  <2>1. pc' \in Labels /\ interrupts' \in BOOLEAN
    BY <1>1 DEF Labels
  <2> QED BY <1>1, <1>3, <2>1, Running, Registers, StaysTyped DEF Pushed
<1>8. StaysInTask
  BY <1>1, <1>3, <1>4 DEF StaysInTask, Appending, Pushed, Interruptible
<1>9. Labelled' /\ Forking'
  BY <1>1 DEF Labelled, Forking, Appending
<1> QED BY <1>6, <1>7, <1>8, <1>9, StaysKeeps

(* iret, to where the tick was taken. *)
LEMMA IrqReturnPreserves ==
  ASSUME TaskingInv, IrqReturn
  PROVE  TaskingInv'
<1>1. /\ pc = "irq_return" /\ pc' = Top.resume /\ eax' = Top.eax /\ interrupts' = TRUE
      /\ Pop
      /\ UNCHANGED <<current_task, ready_queue, next_pid, task, current_directory, cr3,
                     forks, returned>>
  BY DEF IrqReturn
<1>2. Top.fn = "irq" /\ Depth > 1 /\ Link(stack[cr3], Depth, current_task)
  <2>1. Top.fn = "irq" /\ Depth \in Nat /\ Depth > 0
    BY <1>1, Running, Owners
  <2>2. Depth # 1
    BY <1>1, <2>1, Running
  <2>3. Depth > 1
    BY <2>1, <2>2
  <2> QED BY <1>1, <2>1, <2>3, Running
<1>3. /\ Top.resume \in Interruptible /\ Owner(Top.resume) = stack[cr3][Depth - 1].fn
      /\ Top.resume = "boot" <=> current_task = nullptr
      /\ Top.resume = "fork_check" =>
           stack[cr3][Depth - 1].parent # current_task /\ current_task # 1
      /\ Top.resume = "switch_check" => Top.eax = DEADBABA
  BY <1>2, Running DEF Link
<1>4. Popped
  BY <1>1, Running, PopIs
<1>5. OnOwnStack' /\ Top' = stack[cr3][Depth - 1]
  BY <1>1, <1>2, <1>3, <1>4, PoppedFromTop
<1>6. TypeOK'
  <2>1. pc' \in Labels /\ eax' \in Labels \cup {DEADBABA}
    BY <1>1, <1>2, Running, FrameFields
  <2>2. interrupts' \in BOOLEAN
    BY <1>1
  <2> QED BY <1>1, <1>4, <2>1, <2>2, Running, StaysTyped DEF Popped
<1>7. StaysInTask
  BY <1>1, <1>3, <1>4 DEF StaysInTask, Appending, Popped, Interruptible
<1>8. Labelled'
  BY <1>1, <1>3, <1>5 DEF Labelled, Interruptible
<1>9. Forking'
  BY <1>1, <1>3 DEF Forking, Appending, Interruptible
<1> QED BY <1>5, <1>6, <1>7, <1>8, <1>9, StaysKeeps

(***************************************************************************)
(* fork                                                                    *)
(***************************************************************************)

(* The task that runs, once tasking is initialised. *)
LEMMA CurrentIsCreated ==
  ASSUME TaskingInv, current_task # nullptr
  PROVE  /\ current_task \in Created /\ current_task \in Tasks /\ next_pid \in Nat
         /\ next_pid \in 1 .. MaxTasks /\ current_task \in 1 .. next_pid
         /\ Created \subseteq Tasks
         /\ current_directory = task[current_task].page_directory
<1>1. /\ next_pid \in 0 .. MaxTasks /\ current_task \in 0 .. next_pid /\ MaxTasks \in Nat
      /\ next_pid # 0
  BY TaskingAssumption DEF TaskingInv, TypeOK, Queue
<1>2. current_directory = task[current_task].page_directory
  BY DEF TaskingInv, OwnDirectories
<1> QED BY <1>1, <1>2 DEF Created, Tasks, nullptr

(* The entry of fork. *)
LEMMA ForkPreserves ==
  ASSUME TaskingInv, Fork
  PROVE  TaskingInv'
<1> DEFINE f == [fn |-> "fork", parent |-> current_task, directory |-> nullptr,
                 child |-> nullptr]
<1>1. /\ pc = "task" /\ pc' = "fork_clone" /\ interrupts' = FALSE /\ Push(f)
      /\ forks < MaxForks /\ forks' = forks + 1
      /\ UNCHANGED <<current_task, ready_queue, next_pid, task, current_directory, cr3,
                     eax, returned>>
  BY DEF Fork
<1>2. current_task # nullptr
  BY <1>1 DEF TaskingInv, Labelled
<1>3. f \in Frame /\ f.fn = "fork" /\ f.parent = current_task
  <2>1. current_task \in Tasks
    BY <1>2, CurrentIsCreated
  <2> QED BY <2>1 DEF Frame
<1> HIDE DEF f
<1>4. Pushed(f)
  BY <1>1, <1>3, Running, PushIs
<1>5. Depth = 1 /\ Owner(pc') = f.fn
  BY <1>1, <1>3, Running, Owners
<1>6. OnOwnStack' /\ Top' = f
  BY <1>1, <1>3, <1>4, <1>5, PushedOnTop
<1>7. forks' \in 0 .. MaxForks /\ forks \in Nat /\ MaxForks \in Nat
  BY <1>1, TaskingAssumption DEF TaskingInv, TypeOK
<1>8. TypeOK'
  <2>1. pc' \in Labels /\ interrupts' \in BOOLEAN
    BY <1>1 DEF Labels
  <2> QED BY <1>1, <1>4, <1>7, <2>1, Running DEF Pushed, TypeOK
<1>9. ~Appending /\ ~Appending'
  BY <1>1 DEF Appending
<1>10. Created' = Created
  BY <1>1 DEF Created
<1>11. Queue'
  BY <1>1, <1>10 DEF TaskingInv, Queue
<1>12. OwnDirectories'
  <2>1. \A t \in Created : /\ task[t].page_directory \in Directories
                           /\ task[t].page_directory \in Int
                           /\ task[t].page_directory <= forks + 1
    BY DEF TaskingInv, OwnDirectories, Directories
  <2>2. ASSUME NEW t \in Created
        PROVE  /\ task'[t].page_directory \in Directories
               /\ task'[t].page_directory <= forks' + 1
               /\ task'[t].page_directory <= forks'
    BY <1>1, <1>7, <2>1
  <2>3. cr3' = current_directory' /\ UNCHANGED <<current_task, current_directory, task>>
    BY <1>1, Running
  <2> QED BY <1>10, <2>2, <2>3 DEF TaskingInv, OwnDirectories
<1>13. AllSuspended' /\ Told'
  BY <1>1, <1>4, <1>9, SuspendedStay, ToldStays DEF Pushed
<1>14. Labelled' /\ Forking'
  BY <1>1, <1>2, <1>3, <1>6, <1>9 DEF Labelled, Forking
<1> QED BY <1>6, <1>8, <1>11, <1>12, <1>13, <1>14 DEF TaskingInv

(* A fork frame in the place of the running one. *)
LEMMA ForkTopIs ==
  ASSUME NEW s \in Seq(Frame), Len(s) = 2, s[1].fn = "main", NEW f \in Frame,
         f.fn = "fork", NEW t
  PROVE  /\ [s EXCEPT ![2] = f] \in Seq(Frame) /\ Len([s EXCEPT ![2] = f]) = 2
         /\ [s EXCEPT ![2] = f][1] = s[1] /\ [s EXCEPT ![2] = f][2] = f
         /\ Linked([s EXCEPT ![2] = f], 2, t)
<1> DEFINE u == [s EXCEPT ![2] = f]
<1>1. u \in Seq(Frame) /\ Len(u) = 2 /\ u[1] = s[1] /\ u[2] = f
  <2>1. 2 \in 1 .. Len(s) /\ 1 \in 1 .. Len(s) /\ 1 # 2
    OBVIOUS
  <2>2. /\ u \in Seq(Frame) /\ Len(u) = Len(s)
        /\ \A j \in 1 .. Len(s) : u[j] = IF j = 2 THEN f ELSE s[j]
    <3> DEFINE i == 2
    <3>1. i \in 1 .. Len(s)
      BY <2>1
    <3> HIDE DEF i
    <3>2. /\ [s EXCEPT ![i] = f] \in Seq(Frame) /\ Len([s EXCEPT ![i] = f]) = Len(s)
          /\ \A j \in 1 .. Len(s) : [s EXCEPT ![i] = f][j] = IF j = i THEN f ELSE s[j]
      BY <3>1, ExceptSeq
    <3> QED BY <3>2 DEF i
  <2> HIDE DEF u
  <2> QED BY <2>1, <2>2
<1> HIDE DEF u
<1>2. Link(u, 2, t)
  BY <1>1 DEF Link
<1>3. \A k \in 2 .. 2 : k = 2
  OBVIOUS
<1>4. Linked(u, 2, t)
  BY <1>1, <1>2, <1>3 DEF Linked
<1> QED BY <1>1, <1>4 DEF u

(* Whoever is in fork stands directly on the task. *)
LEMMA InFork ==
  ASSUME TaskingInv, Owner(pc) = "fork"
  PROVE  /\ Depth = 2 /\ Len(stack[cr3]) = 2 /\ stack[cr3] \in Seq(Frame)
         /\ stack[cr3][1].fn = "main" /\ stack[cr3][2] = Top /\ pc # "switch_load"
         /\ Top.fn = "fork"
         /\ Top \in [fn : {"fork"}, parent : Tasks, directory : Directories \cup {nullptr},
                     child : Tasks \cup {nullptr}]
<1>1. pc # "switch_load"
  BY Owners
<1>2. Top.fn = "fork" /\ Depth = 2
  BY <1>1, Running
<1>3. stack[cr3][1].fn = "main"
  BY <1>1, Running DEF Linked
<1> QED BY <1>1, <1>2, <1>3, Running, FrameFields

(* clone_directory: the new directory is nobody's, and gets the records of *)
(* the parent.                                                             *)
LEMMA ForkCloneStacks ==
  ASSUME TaskingInv, ForkClone
  PROVE  /\ forks + 1 \in Directories \ {cr3} /\ Depth' = 2 /\ OnOwnStack'
         /\ stack' \in [Directories -> Seq(Frame)]
         /\ (Top').parent = Top.parent /\ (Top').directory = forks + 1
         /\ stack'[forks + 1] = stack[cr3]
         /\ \A e \in Directories \ {cr3, forks + 1} : stack'[e] = stack[e]
<1> DEFINE d == forks + 1
           f == [Top EXCEPT !.directory = d]
           s == stack[cr3]
           u == [s EXCEPT ![2] = f]
<1>1. /\ pc = "fork_clone" /\ pc' = "fork_append" /\ UNCHANGED <<cr3, current_task>>
      /\ stack' = [stack EXCEPT ![d] = stack[current_directory],
                                ![cr3][Depth].directory = d]
  BY DEF ForkClone
<1>2. Owner(pc) = "fork" /\ Owner(pc') = "fork"
  BY <1>1, Owners
<1>3. /\ Depth = 2 /\ Len(s) = 2 /\ s \in Seq(Frame) /\ s[1].fn = "main" /\ s[2] = Top
      /\ Top \in [fn : {"fork"}, parent : Tasks, directory : Directories \cup {nullptr},
                  child : Tasks \cup {nullptr}]
  BY <1>2, InFork
<1>4. /\ d \in Directories /\ cr3 \in Directories /\ cr3 # d
      /\ current_directory = cr3 /\ stack \in [Directories -> Seq(Frame)]
  <2>1. current_task # nullptr /\ cr3 = current_directory
    BY <1>1, Running DEF TaskingInv, Labelled
  <2>2. cr3 = task[current_task].page_directory /\ current_task \in Created
    BY <2>1, CurrentIsCreated
  <2>3. cr3 <= forks
    BY <1>1, <2>2 DEF TaskingInv, OwnDirectories
  <2>4. forks \in 0 .. MaxForks /\ MaxForks \in Nat /\ cr3 \in Directories
        /\ stack \in [Directories -> Seq(Frame)]
    BY TaskingAssumption DEF TaskingInv, TypeOK
  <2> QED BY <2>1, <2>3, <2>4 DEF Directories
<1> HIDE DEF d
<1>5. /\ f \in Frame /\ f.fn = "fork" /\ f.parent = Top.parent /\ f.directory = d
  BY <1>3, <1>4 DEF Frame
<1>6. stack' = [[stack EXCEPT ![d] = s] EXCEPT ![cr3] = u]
  BY <1>1, <1>3, <1>4
<1> HIDE DEF f
<1>7. /\ u \in Seq(Frame) /\ Len(u) = 2 /\ u[1] = s[1] /\ u[2] = f
      /\ Linked(u, 2, current_task)
  BY <1>3, <1>5, ForkTopIs
<1> HIDE DEF s, u
<1>8. /\ stack' \in [Directories -> Seq(Frame)] /\ stack'[cr3] = u /\ stack'[d] = s
      /\ \A e \in Directories \ {cr3, d} : stack'[e] = stack[e]
  BY <1>3, <1>4, <1>6, <1>7
<1>9. Depth' = 2 /\ Top' = f
  BY <1>1, <1>7, <1>8 DEF Depth, Top
<1>10. OnOwnStack'
  <2>1. Depth' > 0 /\ Owner(pc') = (Top').fn
    BY <1>2, <1>5, <1>9
  <2>2. Linked(stack'[cr3'], Depth', current_task')
    BY <1>1, <1>7, <1>8, <1>9
  <2> QED BY <2>1, <2>2 DEF OnOwnStack
<1> QED BY <1>4, <1>5, <1>8, <1>9, <1>10 DEF d, s

(* fork clones the directory: the child's stack is a copy of the parent's, *)
(* in a directory that no task has yet.                                    *)
LEMMA ForkClonePreserves ==
  ASSUME TaskingInv, ForkClone
  PROVE  TaskingInv'
<1>1. /\ pc = "fork_clone" /\ pc' = "fork_append"
      /\ UNCHANGED <<current_task, ready_queue, next_pid, task, current_directory, cr3,
                     eax, interrupts, forks, returned>>
  BY DEF ForkClone
<1>2. /\ forks + 1 \in Directories \ {cr3} /\ Depth' = 2 /\ OnOwnStack'
      /\ stack' \in [Directories -> Seq(Frame)]
      /\ (Top').parent = Top.parent /\ (Top').directory = forks + 1
      /\ stack'[forks + 1] = stack[cr3]
      /\ \A e \in Directories \ {cr3, forks + 1} : stack'[e] = stack[e]
  BY ForkCloneStacks
<1>3. ~interrupts /\ current_task # nullptr /\ Top.parent = current_task
  BY <1>1 DEF TaskingInv, Labelled, Interruptible
<1>4. TypeOK'
  BY <1>1, <1>2, Running, Registers, StaysTyped DEF Labels
<1>5. Created' = Created /\ ~Appending /\ ~Appending'
  BY <1>1 DEF Created, Appending
<1>6. Queue' /\ Told'
  BY <1>1, <1>5, ToldStays DEF TaskingInv, Queue
<1>7. OwnDirectories'
  BY <1>1, <1>5 DEF TaskingInv, OwnDirectories
<1>8. Labelled'
  BY <1>1, <1>2, <1>3 DEF Labelled
<1>9. Forking'
  <2>1. Cloned(stack[cr3], current_task)
    <3>1. Owner(pc) = "fork"
      BY <1>1, Owners
    <3> QED BY <1>3, <3>1, InFork DEF Cloned
  <2>2. (Top').directory = forks' + 1 /\ Cloned(stack'[forks' + 1], current_task')
    BY <1>1, <1>2, <2>1
  <2> QED BY <1>5, <2>2 DEF Forking
<1>10. AllSuspended'
  <2>1. Saved' = Created \ {current_task} /\ Saved = Created \ {current_task}
    BY <1>1, <1>5 DEF Saved
  <2>2. Unfinished' = {} /\ Unfinished = {}
    BY <1>5 DEF Unfinished
  <2>3. ASSUME NEW t \in Created \ {current_task} PROVE Suspended(t)'
    <3>1. Suspended(t)
      BY <2>1, <2>2 DEF TaskingInv, AllSuspended
    <3>2. task[t].page_directory \in Directories \ {cr3}
      BY <1>1, Elsewhere
    <3>3. task[t].page_directory # forks + 1
      <4>1. task[t].page_directory <= forks /\ forks \in Nat
        BY <1>1, Running, Registers DEF TaskingInv, OwnDirectories
      <4>2. task[t].page_directory \in Int
        BY <3>2 DEF Directories
      <4> QED BY <4>1, <4>2
    <3>4. stack'[task[t].page_directory] = stack[task[t].page_directory]
      BY <1>2, <3>2, <3>3
    <3> QED BY <1>1, <3>1, <3>4, SuspendedKept
  <2> QED BY <2>1, <2>2, <2>3 DEF AllSuspended
<1> QED BY <1>2, <1>4, <1>6, <1>7, <1>8, <1>9, <1>10 DEF TaskingInv

(* The structs, as TypeOK has them. *)
TaskStruct == [id : Nat, esp : Nat, eip : Labels,
               page_directory : Directories \cup {nullptr}, next : Tasks \cup {nullptr}]

(* A struct that fork or initialise_tasking has filled in. *)
LEMMA NewTaskIs ==
  ASSUME NEW pid \in Nat, NEW d \in Directories
  PROVE  /\ NewTask(pid, d) \in TaskStruct /\ NewTask(pid, d).id = pid
         /\ NewTask(pid, d).page_directory = d /\ NewTask(pid, d).next = nullptr
BY DEF NewTask, NoTask, TaskStruct, Labels, NullEip, nullptr

(* The structs after fork has appended the new one. *)
LEMMA ForkAppendTasks ==
  ASSUME TaskingInv, ForkAppend
  PROVE  LET t == next_pid + 1
         IN /\ t \in Tasks /\ task' \in [Tasks -> TaskStruct]
            /\ task'[t].id = next_pid /\ task'[t].next = nullptr
            /\ task'[t].page_directory = forks + 1
            /\ \A u \in Created :
                 /\ task'[u].id = task[u].id /\ task'[u].esp = task[u].esp
                 /\ task'[u].eip = task[u].eip
                 /\ task'[u].page_directory = task[u].page_directory
                 /\ task'[u].next = IF u = next_pid THEN t ELSE task[u].next
<1> DEFINE t == next_pid + 1
           new == NewTask(next_pid, Top.directory)
<1>1. /\ pc = "fork_append" /\ next_pid < MaxTasks
      /\ task' = [task EXCEPT ![t] = new, ![LastTask].next = t]
  BY DEF ForkAppend, HeapHasRoom
<1>2. current_task # nullptr
  BY <1>1 DEF TaskingInv, Labelled
<1>3. /\ next_pid \in 1 .. MaxTasks /\ next_pid \in Nat /\ MaxTasks \in Nat
      /\ Created \subseteq Tasks
  BY <1>2, CurrentIsCreated, TaskingAssumption
<1>4. LastTask = next_pid
  BY <1>3, LastIsNewest DEF TaskingInv
<1>5. t \in Tasks /\ next_pid \in Tasks /\ t # next_pid /\ t \notin Created
  BY <1>1, <1>3 DEF Tasks, Created
<1>6. Top.directory = forks + 1 /\ forks + 1 \in Directories
  <2>1. forks \in 0 .. MaxForks /\ MaxForks \in Nat
    BY TaskingAssumption DEF TaskingInv, TypeOK
  <2> QED BY <1>1, <2>1 DEF TaskingInv, Forking, Directories
<1>7. /\ new \in TaskStruct /\ new.id = next_pid /\ new.page_directory = forks + 1
      /\ new.next = nullptr
  BY <1>3, <1>6, NewTaskIs
<1>8. task \in [Tasks -> TaskStruct]
  BY DEF TaskingInv, TypeOK, TaskStruct
<1> HIDE DEF t, new
<1>9. task' = [[task EXCEPT ![t] = new] EXCEPT ![next_pid] = [task[next_pid] EXCEPT !.next = t]]
  BY <1>1, <1>4, <1>5, <1>8
<1> DEFINE last == [task[next_pid] EXCEPT !.next = t]
<1>10. /\ last \in TaskStruct /\ last.next = t
       /\ last.id = task[next_pid].id /\ last.esp = task[next_pid].esp
       /\ last.eip = task[next_pid].eip
       /\ last.page_directory = task[next_pid].page_directory
  <2>1. task[next_pid] \in TaskStruct
    BY <1>5, <1>8
  <2> QED BY <1>5, <2>1 DEF TaskStruct
<1> HIDE DEF last
<1>11. /\ task' \in [Tasks -> TaskStruct] /\ task'[t] = new /\ task'[next_pid] = last
       /\ \A u \in Created \ {next_pid} : task'[u] = task[u]
  <2>1. task' = [[task EXCEPT ![t] = new] EXCEPT ![next_pid] = last]
    BY <1>9 DEF last
  <2> QED BY <1>3, <1>5, <1>7, <1>8, <1>10, <2>1
<1> QED BY <1>5, <1>7, <1>10, <1>11 DEF t

(* The record of fork after the append. *)
LEMMA ForkAppendStacks ==
  ASSUME TaskingInv, ForkAppend
  PROVE  /\ OnOwnStack' /\ OthersKept /\ stack' \in [Directories -> Seq(Frame)]
         /\ (Top').parent = Top.parent /\ (Top').child = next_pid + 1
<1> DEFINE f == [Top EXCEPT !.child = next_pid + 1]
           s == stack[cr3]
           u == [s EXCEPT ![2] = f]
<1>1. /\ pc = "fork_append" /\ pc' = "fork_gip" /\ UNCHANGED <<cr3, current_task>>
      /\ stack' = [stack EXCEPT ![cr3][Depth] = f]
  BY DEF ForkAppend, SetTop
<1>2. Owner(pc) = "fork" /\ Owner(pc') = "fork"
  BY <1>1, Owners
<1>3. /\ Depth = 2 /\ Len(s) = 2 /\ s \in Seq(Frame) /\ s[1].fn = "main" /\ s[2] = Top
      /\ Top \in [fn : {"fork"}, parent : Tasks, directory : Directories \cup {nullptr},
                  child : Tasks \cup {nullptr}]
  BY <1>2, InFork
<1>4. next_pid + 1 \in Tasks
  BY ForkAppendTasks
<1>5. f \in Frame /\ f.fn = "fork" /\ f.parent = Top.parent /\ f.child = next_pid + 1
  BY <1>3, <1>4 DEF Frame
<1> HIDE DEF f
<1>6. cr3 \in Directories /\ stack \in [Directories -> Seq(Frame)]
  BY DEF TaskingInv, TypeOK
<1>7. stack' = [stack EXCEPT ![cr3] = u]
  BY <1>1, <1>3, <1>6
<1>8. /\ u \in Seq(Frame) /\ Len(u) = 2 /\ u[1] = s[1] /\ u[2] = f
      /\ Linked(u, 2, current_task)
  BY <1>3, <1>5, ForkTopIs
<1> HIDE DEF s, u
<1>9. stack' \in [Directories -> Seq(Frame)] /\ stack'[cr3] = u /\ OthersKept
  BY <1>6, <1>7, <1>8 DEF OthersKept
<1>10. Depth' = 2 /\ Top' = f
  BY <1>1, <1>8, <1>9 DEF Depth, Top
<1>11. OnOwnStack'
  <2>1. Depth' > 0 /\ Owner(pc') = (Top').fn
    BY <1>2, <1>5, <1>10
  <2>2. Linked(stack'[cr3'], Depth', current_task')
    BY <1>1, <1>8, <1>9, <1>10
  <2> QED BY <2>1, <2>2 DEF OnOwnStack
<1> QED BY <1>5, <1>9, <1>10, <1>11

(* fork appends the child behind the last task of the queue. *)
LEMMA ForkAppendPreserves ==
  ASSUME TaskingInv, ForkAppend
  PROVE  TaskingInv'
<1> DEFINE t == next_pid + 1
<1>1. /\ pc = "fork_append" /\ pc' = "fork_gip" /\ next_pid' = t
      /\ UNCHANGED <<current_task, ready_queue, current_directory, cr3, eax, interrupts,
                     forks, returned>>
  BY DEF ForkAppend
<1>2. /\ t \in Tasks /\ task' \in [Tasks -> TaskStruct]
      /\ task'[t].id = next_pid /\ task'[t].next = nullptr
      /\ task'[t].page_directory = forks + 1
      /\ \A u \in Created :
           /\ task'[u].id = task[u].id /\ task'[u].esp = task[u].esp
           /\ task'[u].eip = task[u].eip
           /\ task'[u].page_directory = task[u].page_directory
           /\ task'[u].next = IF u = next_pid THEN t ELSE task[u].next
  BY ForkAppendTasks
<1>3. /\ OnOwnStack' /\ OthersKept /\ stack' \in [Directories -> Seq(Frame)]
      /\ (Top').parent = Top.parent /\ (Top').child = t
  BY ForkAppendStacks
<1>4. ~interrupts /\ current_task # nullptr /\ Top.parent = current_task
  BY <1>1 DEF TaskingInv, Labelled, Interruptible
<1>5. /\ current_task \in 1 .. next_pid /\ next_pid \in Nat /\ current_task \in Created
      /\ current_directory = task[current_task].page_directory
      /\ cr3 = current_directory /\ forks \in Nat
  BY <1>1, <1>4, CurrentIsCreated, Running, Registers
<1>6. TypeOK'
  <2>1. next_pid' \in 0 .. MaxTasks
    BY <1>1, <1>2, <1>5, TaskingAssumption DEF Tasks
  <2>2. pc' \in Labels
    BY <1>1 DEF Labels
  <2> QED BY <1>1, <1>2, <1>3, <2>1, <2>2 DEF TaskingInv, TypeOK, TaskStruct
<1>7. /\ Created = 1 .. next_pid /\ Created' = Created \cup {t} /\ t \notin Created
      /\ ~Appending /\ Appending'
  BY <1>1, <1>5 DEF Created, Appending
<1>8. Queue'
  <2>1. ASSUME NEW u \in Created'
        PROVE  /\ task'[u].next = IF u = t THEN nullptr ELSE u + 1
               /\ task'[u].id = u - 1
    <3>1. CASE u = t
      BY <1>2, <1>5, <3>1
    <3>2. CASE u \in Created
      BY <1>2, <1>5, <1>7, <3>2 DEF TaskingInv, Queue
    <3> QED BY <1>7, <3>1, <3>2
  <2>2. current_task' \in 0 .. next_pid' /\ (current_task' = nullptr <=> next_pid' = 0)
    BY <1>1, <1>4, <1>5
  <2>3. ready_queue' = 1 /\ next_pid' # 0
    BY <1>1, <1>4, <1>5 DEF TaskingInv, Queue
  <2> QED BY <1>1, <2>1, <2>2, <2>3 DEF Queue
<1>9. OwnDirectories'
  <2>1. forks + 1 \in Directories
    <3>1. forks \in 0 .. MaxForks /\ MaxForks \in Nat
      BY TaskingAssumption DEF TaskingInv, TypeOK
    <3> QED BY <3>1 DEF Directories
  <2>2. \A u \in Created : /\ task'[u].page_directory = task[u].page_directory
                           /\ task[u].page_directory \in Directories
                           /\ task[u].page_directory \in Int
                           /\ task[u].page_directory <= forks
    BY <1>1, <1>2 DEF TaskingInv, OwnDirectories, Directories
  <2>3. ASSUME NEW u \in Created'
        PROVE  task'[u].page_directory \in Directories
               /\ task'[u].page_directory <= forks' + 1
    BY <1>1, <1>2, <1>5, <1>7, <2>1, <2>2
  <2>4. ASSUME NEW u \in Created', NEW w \in Created',
               task'[u].page_directory = task'[w].page_directory
        PROVE  u = w
    <3>1. u \in Created \/ u = t
      BY <1>7
    <3>2. w \in Created \/ w = t
      BY <1>7
    <3>3. \A x \in Created : task'[x].page_directory # forks + 1
      BY <1>5, <2>2
    <3>4. CASE u \in Created /\ w \in Created
      BY <2>2, <2>4, <3>4 DEF TaskingInv, OwnDirectories
    <3> QED BY <1>2, <2>4, <3>1, <3>2, <3>3, <3>4
  <2>5. current_directory' = task'[current_task'].page_directory /\ cr3' = current_directory'
    BY <1>1, <1>2, <1>5
  <2>6. current_task' # nullptr /\ pc' \notin {"fork_clone", "fork_append"}
    BY <1>1, <1>4
  <2> QED BY <2>3, <2>4, <2>5, <2>6 DEF OwnDirectories
<1>10. Labelled'
  BY <1>1, <1>3, <1>4 DEF Labelled
<1>11. Forking'
  <2>1. Cloned(stack[forks + 1], current_task)
    BY <1>1 DEF TaskingInv, Forking
  <2>2. forks + 1 \in Directories \ {cr3}
    <3>1. forks \in 0 .. MaxForks /\ MaxForks \in Nat
      BY TaskingAssumption DEF TaskingInv, TypeOK
    <3>2. cr3 <= forks
      BY <1>1, <1>5 DEF TaskingInv, OwnDirectories
    <3> QED BY <3>1, <3>2 DEF Directories
  <2>3. stack'[task'[next_pid'].page_directory] = stack[forks + 1]
    BY <1>1, <1>2, <1>3, <2>2 DEF OthersKept
  <2>4. (Top').child = next_pid' /\ current_task' < next_pid'
    BY <1>1, <1>3, <1>5
  <2>5. Cloned(stack'[task'[next_pid'].page_directory], current_task')
    BY <1>1, <2>1, <2>3
  <2> QED BY <1>1, <2>4, <2>5 DEF Forking
<1>12. AllSuspended'
  <2>1. Saved' = Created' \ {current_task} /\ Saved = Created \ {current_task}
    BY <1>1 DEF Saved
  <2>2. Unfinished' = {t} /\ Unfinished = {}
    BY <1>1, <1>7 DEF Unfinished
  <2>3. ASSUME NEW u \in Created \ {current_task} PROVE Suspended(u)'
    <3>1. Suspended(u)
      BY <2>1, <2>2 DEF TaskingInv, AllSuspended
    <3>2. task[u].page_directory \in Directories \ {cr3}
      BY <1>1, Elsewhere
    <3> QED BY <1>2, <1>3, <3>1, <3>2, SuspendedKept DEF OthersKept
  <2> QED BY <1>7, <2>1, <2>2, <2>3 DEF AllSuspended
<1>13. Told'
  <2>1. Unfinished' = {t} /\ Unfinished = {}
    BY <1>1, <1>7 DEF Unfinished
  <2>2. ASSUME NEW r \in returned'
        PROVE  r[2] \in 0 .. next_pid' - 1 /\ r[2] # next_pid' - 1
    BY <1>1, <1>5 DEF TaskingInv, Told
  <2>3. (2 .. next_pid') \ Unfinished' = (2 .. next_pid) \ Unfinished
    BY <1>1, <1>5, <2>1
  <2> QED BY <1>1, <2>2, <2>3 DEF TaskingInv, Told, ForkTellsParentAndChild
<1> QED BY <1>3, <1>6, <1>8, <1>9, <1>10, <1>11, <1>12, <1>13 DEF TaskingInv

(* Filling in esp and eip of one struct, in either order, moves nothing    *)
(* else.                                                                   *)
LEMMA SaveIs ==
  ASSUME TypeOK, NEW t \in Tasks, NEW n \in Nat, NEW l \in Labels,
         \/ task' = [task EXCEPT ![t].esp = n, ![t].eip = l]
         \/ task' = [task EXCEPT ![t].eip = l, ![t].esp = n]
  PROVE  /\ task' \in [Tasks -> TaskStruct] /\ task'[t].esp = n /\ task'[t].eip = l
         /\ \A u \in Tasks : /\ task'[u].id = task[u].id /\ task'[u].next = task[u].next
                             /\ task'[u].page_directory = task[u].page_directory
         /\ \A u \in Tasks \ {t} : task'[u] = task[u]
<1> DEFINE q == [[task[t] EXCEPT !.esp = n] EXCEPT !.eip = l]
<1>1. task \in [Tasks -> TaskStruct] /\ task[t] \in TaskStruct
  BY DEF TypeOK, TaskStruct
<1>2. /\ q \in TaskStruct /\ q.esp = n /\ q.eip = l /\ q.id = task[t].id
      /\ q.page_directory = task[t].page_directory /\ q.next = task[t].next
  BY <1>1 DEF TaskStruct
<1>3. q = [[task[t] EXCEPT !.eip = l] EXCEPT !.esp = n]
  BY <1>1 DEF TaskStruct
<1>4. task' = [task EXCEPT ![t] = q]
  BY <1>1, <1>3
<1> HIDE DEF q
<1>5. task' \in [Tasks -> TaskStruct] /\ task'[t] = q /\ \A u \in Tasks \ {t} : task'[u] = task[u]
  BY <1>1, <1>2, <1>4
<1> QED BY <1>2, <1>5

(* The queue and the directories when only esp and eip of structs change.  *)
LEMMA SaveKeeps ==
  ASSUME TaskingInv,
         \A u \in Tasks : /\ task'[u].id = task[u].id /\ task'[u].next = task[u].next
                          /\ task'[u].page_directory = task[u].page_directory,
         UNCHANGED <<current_task, ready_queue, next_pid, current_directory, cr3, forks>>,
         pc # "switch_load", pc' \notin {"fork_clone", "fork_append", "switch_load"}
  PROVE  Queue' /\ OwnDirectories'
<1>1. Created' = Created /\ Created \subseteq Tasks
  BY TaskingAssumption DEF Created, Tasks, TaskingInv, TypeOK
<1>2. Queue'
  BY <1>1 DEF TaskingInv, Queue
<1>3. current_task # nullptr => current_task \in Tasks
  BY CurrentIsCreated
<1>4. OwnDirectories'
  BY <1>1, <1>3 DEF TaskingInv, OwnDirectories
<1> QED BY <1>2, <1>4

(* The parent's side of fork: the child becomes a task like the others.    *)
LEMMA ForkParentPreserves ==
  ASSUME TaskingInv, ForkParent
  PROVE  TaskingInv'
<1> DEFINE c == next_pid
<1>1. /\ pc = "fork_check" /\ current_task = Top.parent /\ pc' = "task"
      /\ interrupts' = TRUE /\ Pop
      /\ task' = [task EXCEPT ![Top.child].esp = Depth, ![Top.child].eip = eax]
      /\ returned' = returned \cup {<<task[current_task].id, task[Top.child].id>>}
      /\ UNCHANGED <<current_task, ready_queue, next_pid, current_directory, cr3, eax, forks>>
  BY DEF ForkParent
<1>2. ~interrupts /\ eax = "fork_check" /\ current_task # nullptr
  BY <1>1 DEF TaskingInv, Labelled
<1>3. Appending /\ ~Appending'
  BY <1>1, <1>2 DEF Appending
<1>4. /\ Top.child = c /\ current_task < c
      /\ Cloned(stack[task[c].page_directory], current_task)
  BY <1>3 DEF TaskingInv, Forking
<1>5. /\ current_task \in 1 .. c /\ c \in Nat /\ current_task \in Created /\ c \in Created
      /\ c \in Tasks /\ current_task \in Tasks /\ Created \subseteq Tasks
  <2>1. /\ current_task \in 1 .. c /\ c \in Nat /\ current_task \in Created
        /\ c \in 1 .. MaxTasks /\ Created \subseteq Tasks /\ current_task \in Tasks
    BY <1>2, CurrentIsCreated
  <2> QED BY <2>1 DEF Created, Tasks
<1>6. /\ Depth = 2 /\ stack[cr3][1].fn = "main" /\ pc # "switch_load"
  <2>1. Owner(pc) = "fork"
    BY <1>1, Owners
  <2> QED BY <2>1, InFork
<1>7. /\ task' \in [Tasks -> TaskStruct] /\ task'[c].esp = 2 /\ task'[c].eip = "fork_check"
      /\ \A u \in Tasks : /\ task'[u].id = task[u].id /\ task'[u].next = task[u].next
                          /\ task'[u].page_directory = task[u].page_directory
      /\ \A u \in Tasks \ {c} : task'[u] = task[u]
  <2>1. "fork_check" \in Labels /\ TypeOK
    BY Running DEF Labels
  <2>2. task' = [task EXCEPT ![c].esp = 2, ![c].eip = "fork_check"]
    BY <1>1, <1>2, <1>4, <1>6
  <2> QED BY <1>5, <2>1, <2>2, SaveIs
<1>8. Popped
  BY <1>1, Running, PopIs
<1>9. OnOwnStack'
  <2>1. Owner(pc') = stack[cr3][Depth - 1].fn
    BY <1>1, <1>6, Owners
  <2>2. Depth > 1
    BY <1>6
  <2> QED BY <1>1, <1>8, <2>1, <2>2, PoppedFromTop
<1>10. Queue' /\ OwnDirectories'
  BY <1>1, <1>7, SaveKeeps
<1>11. /\ task[current_task].id = current_task - 1 /\ task[c].id = c - 1
       /\ returned' = returned \cup {<<current_task - 1, c - 1>>}
  BY <1>1, <1>4, <1>5 DEF TaskingInv, Queue
<1>12. TypeOK'
  <2>1. pc' \in Labels
    BY <1>1 DEF Labels
  <2>2. interrupts' \in BOOLEAN
    BY <1>1
  <2>3. <<current_task - 1, c - 1>> \in Nat \X Nat
    BY <1>5
  <2>4. returned' \in SUBSET (Nat \X Nat)
    BY <1>11, <2>3 DEF TaskingInv, TypeOK
  <2> QED BY <1>1, <1>7, <1>8, <2>1, <2>2, <2>4 DEF TaskingInv, TypeOK, TaskStruct, Popped
<1>13. Labelled' /\ Forking'
  BY <1>1, <1>2, <1>3 DEF Labelled, Forking, Interruptible
<1>14. AllSuspended'
  <2>1. /\ Saved' = Created \ {current_task} /\ Saved = Created \ {current_task}
        /\ Unfinished = {c} /\ Unfinished' = {}
    BY <1>1, <1>3 DEF Saved, Unfinished, Created
  <2>2. ASSUME NEW t \in Created \ {current_task}
        PROVE  stack'[task[t].page_directory] = stack[task[t].page_directory]
    BY <1>1, <1>6, <1>8, Elsewhere DEF Popped, OthersKept
  <2>3. ASSUME NEW t \in Created \ {current_task}, t # c PROVE Suspended(t)'
    <3>1. Suspended(t)
      BY <2>1, <2>3 DEF TaskingInv, AllSuspended
    <3>2. task'[t] = task[t]
      BY <1>5, <1>7, <2>3
    <3> QED BY <2>2, <3>1, <3>2, SuspendedKept
  <2>4. ASSUME NEW t \in Created \ {current_task}, t = c PROVE Suspended(t)'
    <3> DEFINE s == stack[task[t].page_directory]
    <3>1. stack'[task'[t].page_directory] = s /\ task'[t].esp = 2
      BY <1>5, <1>7, <2>2, <2>4
    <3>2. Len(s) = 2 /\ s[1].fn = "main" /\ s[2].fn = "fork" /\ s[2].parent = current_task
      BY <1>4, <2>4 DEF Cloned
    <3> HIDE DEF s
    <3>3. Linked(s, 2, t)
      <4>1. Link(s, 2, t)
        BY <3>2 DEF Link
      <4>2. \A k \in 2 .. 2 : k = 2
        OBVIOUS
      <4> QED BY <3>2, <4>1, <4>2 DEF Linked
    <3>4. s[2].parent # t /\ t # 1
      BY <1>4, <1>5, <2>4, <3>2
    <3>5. Linked(stack'[task'[t].page_directory], task'[t].esp, t)
      BY <3>1, <3>3
    <3>6. /\ task'[t].eip = "fork_check"
          /\ stack'[task'[t].page_directory][task'[t].esp].fn = "fork"
          /\ stack'[task'[t].page_directory][task'[t].esp].parent # t
      BY <1>7, <2>4, <3>1, <3>2, <3>4
    <3> QED BY <3>4, <3>5, <3>6 DEF Suspended
  <2> QED BY <2>1, <2>3, <2>4 DEF AllSuspended
<1>15. Told'
  <2> DEFINE x == <<current_task - 1, c - 1>>
  <2>1. x[1] = current_task - 1 /\ x[2] = c - 1 /\ x[2] # 0 /\ x[1] # x[2]
    BY <1>4, <1>5
  <2>2. \A r \in returned : r[2] \in 0 .. c - 1 /\ r[2] # c - 1
    BY <1>3 DEF TaskingInv, Told
  <2>3. returned' = returned \cup {x} /\ x \in returned'
    BY <1>11
  <2> HIDE DEF x
  <2>4. \A r \in returned' : r[2] \in 0 .. next_pid' - 1 /\ (Appending' => r[2] # next_pid' - 1)
    BY <1>1, <1>3, <1>5, <2>1, <2>2, <2>3
  <2>5. ASSUME NEW t \in (2 .. next_pid') \ Unfinished'
        PROVE  \E p \in returned' : p[2] = t - 1 /\ p[1] # t - 1
    <3>1. CASE t = c
      BY <2>1, <2>3, <3>1
    <3>2. CASE t # c
      <4>1. t \in (2 .. next_pid) \ Unfinished
        BY <1>1, <1>3, <3>2 DEF Unfinished
      <4> QED BY <2>3, <4>1 DEF TaskingInv, Told
    <3> QED BY <3>1, <3>2
  <2>6. ForkTellsParentAndChild'
    <3> SUFFICES ASSUME NEW r \in returned'
                 PROVE  IF r[2] = 0 THEN \E p \in returned' : p[2] = r[1] /\ p[1] # r[1]
                        ELSE \A p \in returned' : p[2] = r[2] => p = r
      BY DEF ForkTellsParentAndChild
    <3>1. CASE r = x
      BY <2>1, <2>2, <2>3, <3>1
    <3>2. CASE r \in returned
      BY <2>1, <2>2, <2>3, <3>2 DEF TaskingInv, Told, ForkTellsParentAndChild
    <3> QED BY <2>3, <3>1, <3>2
  <2> QED BY <2>4, <2>5, <2>6 DEF Told
<1> QED BY <1>9, <1>10, <1>12, <1>13, <1>14, <1>15 DEF TaskingInv

(* The child's side of fork: its parent has been told of it. *)
LEMMA ForkChildPreserves ==
  ASSUME TaskingInv, ForkChild
  PROVE  TaskingInv'
<1>1. /\ pc = "fork_check" /\ current_task # Top.parent /\ pc' = "task" /\ Pop
      /\ returned' = returned \cup {<<task[current_task].id, 0>>}
      /\ UNCHANGED <<current_task, ready_queue, next_pid, task, current_directory, cr3,
                     eax, interrupts, forks>>
  BY DEF ForkChild
<1>2. interrupts /\ current_task # 1 /\ current_task # nullptr
  BY <1>1 DEF TaskingInv, Labelled
<1>3. ~Appending /\ ~Appending'
  BY <1>1, <1>2 DEF Appending
<1>4. /\ current_task \in 1 .. next_pid /\ next_pid \in Nat /\ current_task \in Created
  BY <1>2, CurrentIsCreated
<1>5. Depth = 2 /\ stack[cr3][1].fn = "main"
  <2>1. Owner(pc) = "fork"
    BY <1>1, Owners
  <2> QED BY <2>1, InFork
<1>6. Popped
  BY <1>1, Running, PopIs
<1>7. OnOwnStack'
  <2>1. Owner(pc') = stack[cr3][Depth - 1].fn
    BY <1>1, <1>5, Owners
  <2>2. Depth > 1 /\ pc # "switch_load"
    BY <1>1, <1>5
  <2> QED BY <1>1, <1>6, <2>1, <2>2, PoppedFromTop
<1>8. task[current_task].id = current_task - 1
  BY <1>4 DEF TaskingInv, Queue
<1>9. TypeOK'
  <2>1. pc' \in Labels
    BY <1>1 DEF Labels
  <2>2. <<current_task - 1, 0>> \in Nat \X Nat
    BY <1>4
  <2>3. returned' \in SUBSET (Nat \X Nat)
    BY <1>1, <1>8, <2>2 DEF TaskingInv, TypeOK
  <2> QED BY <1>1, <1>6, <2>1, <2>3 DEF TaskingInv, TypeOK, Popped
<1>10. Queue' /\ OwnDirectories'
  BY <1>1, SaveKeeps
<1>11. Labelled' /\ Forking'
  BY <1>1, <1>2, <1>3 DEF Labelled, Forking, Interruptible
<1>12. AllSuspended'
  BY <1>1, <1>3, <1>6, SuspendedStay DEF Popped
<1>13. Told'
  <2> DEFINE x == <<current_task - 1, 0>>
  <2>1. x[1] = current_task - 1 /\ x[2] = 0
    OBVIOUS
  <2>2. returned' = returned \cup {x}
    BY <1>1, <1>8
  <2> HIDE DEF x
  <2>3. Unfinished = {} /\ Unfinished' = {}
    BY <1>3 DEF Unfinished
  <2>4. PICK p \in returned : p[2] = current_task - 1 /\ p[1] # current_task - 1
    <3>1. current_task \in (2 .. next_pid) \ Unfinished
      BY <1>2, <1>4, <2>3
    <3> QED BY <3>1 DEF TaskingInv, Told
  <2>5. \A r \in returned' : r[2] \in 0 .. next_pid' - 1 /\ (Appending' => r[2] # next_pid' - 1)
    BY <1>1, <1>3, <1>4, <2>1, <2>2 DEF TaskingInv, Told
  <2>6. \A t \in (2 .. next_pid') \ Unfinished' :
          \E q \in returned' : q[2] = t - 1 /\ q[1] # t - 1
    BY <1>1, <2>2, <2>3 DEF TaskingInv, Told
  <2>7. ForkTellsParentAndChild'
    <3> SUFFICES ASSUME NEW r \in returned'
                 PROVE  IF r[2] = 0 THEN \E q \in returned' : q[2] = r[1] /\ q[1] # r[1]
                        ELSE \A q \in returned' : q[2] = r[2] => q = r
      BY DEF ForkTellsParentAndChild
    <3>1. CASE r = x
      BY <2>1, <2>2, <2>4, <3>1
    <3>2. CASE r \in returned
      BY <2>1, <2>2, <3>2 DEF TaskingInv, Told, ForkTellsParentAndChild
    <3> QED BY <2>2, <3>1, <3>2
  <2> QED BY <2>5, <2>6, <2>7 DEF Told
<1> QED BY <1>7, <1>9, <1>10, <1>11, <1>12, <1>13 DEF TaskingInv

(***************************************************************************)
(* switch_task                                                             *)
(***************************************************************************)

(* The running task is saved, and is from now on a task like the others.   *)
LEMMA SwitchSavePreserves ==
  ASSUME TaskingInv, SwitchSave
  PROVE  TaskingInv'
<1>1. /\ pc = "switch_check" /\ eax # DEADBABA /\ pc' = "switch_pick"
      /\ task' = [task EXCEPT ![current_task].eip = eax, ![current_task].esp = Top.esp]
      /\ UNCHANGED <<current_task, ready_queue, next_pid, current_directory, cr3, stack,
                     eax, interrupts, forks, returned>>
  BY DEF SwitchSave
<1>2. ~interrupts /\ eax = "switch_check" /\ current_task # nullptr
  BY <1>1 DEF TaskingInv, Labelled
<1>3. /\ current_task \in Created /\ current_task \in Tasks /\ Created \subseteq Tasks
      /\ cr3 = task[current_task].page_directory /\ next_pid \in Nat
  BY <1>1, <1>2, CurrentIsCreated, Running
<1>4. /\ OnOwnStack' /\ Top.fn = "switch" /\ Linked(stack[cr3], Depth, current_task)
      /\ Top = stack[cr3][Depth] /\ Depth \in Nat /\ Top.esp = Depth
  <2>1. Owner(pc') = Owner(pc) /\ Owner(pc) = "switch"
    BY <1>1, Owners
  <2>2. OnOwnStack'
    BY <1>1, <2>1, StackUnchanged
  <2>3. /\ Top.fn = "switch" /\ Linked(stack[cr3], Depth, current_task)
        /\ Top = stack[cr3][Depth] /\ Depth \in Nat /\ Depth > 0 /\ Depth # 1
    BY <1>1, <2>1, Running
  <2>4. Depth > 1
    BY <2>3
  <2>5. Link(stack[cr3], Depth, current_task)
    BY <1>1, <2>4, Running
  <2> QED BY <2>2, <2>3, <2>5 DEF Link
<1>5. /\ task' \in [Tasks -> TaskStruct]
      /\ task'[current_task].esp = Depth /\ task'[current_task].eip = "switch_check"
      /\ \A u \in Tasks : /\ task'[u].id = task[u].id /\ task'[u].next = task[u].next
                          /\ task'[u].page_directory = task[u].page_directory
      /\ \A u \in Tasks \ {current_task} : task'[u] = task[u]
  <2>1. "switch_check" \in Labels /\ TypeOK
    BY Running DEF Labels
  <2>2. task' = [task EXCEPT ![current_task].eip = "switch_check", ![current_task].esp = Depth]
    BY <1>1, <1>2, <1>4
  <2>3. current_task \in Tasks /\ Depth \in Nat
    BY <1>3, <1>4
  <2> DEFINE t == current_task
             n == Depth
             l == "switch_check"
  <2>4. /\ TypeOK /\ t \in Tasks /\ n \in Nat /\ l \in Labels
        /\ task' = [task EXCEPT ![t].eip = l, ![t].esp = n]
    BY <2>1, <2>2, <2>3
  <2> HIDE DEF t, n, l
  <2>5. /\ task' \in [Tasks -> TaskStruct] /\ task'[t].esp = n /\ task'[t].eip = l
        /\ \A u \in Tasks : /\ task'[u].id = task[u].id /\ task'[u].next = task[u].next
                            /\ task'[u].page_directory = task[u].page_directory
        /\ \A u \in Tasks \ {t} : task'[u] = task[u]
    BY <2>4, SaveIs
  <2> QED BY <2>5 DEF t, n, l
<1>6. TypeOK'
  BY <1>1, <1>5 DEF TaskingInv, TypeOK, TaskStruct, Labels
<1>7. Queue' /\ OwnDirectories'
  BY <1>1, <1>5, SaveKeeps
<1>8. ~Appending /\ ~Appending'
  BY <1>1, <1>2 DEF Appending
<1>9. Labelled' /\ Forking' /\ Told'
  BY <1>1, <1>2, <1>8, ToldStays DEF Labelled, Forking
<1>10. AllSuspended'
  <2>1. /\ Saved' = Created /\ Saved = Created \ {current_task}
        /\ Unfinished = {} /\ Unfinished' = {}
    BY <1>1, <1>8 DEF Saved, Unfinished, Created
  <2>2. ASSUME NEW t \in Created PROVE Suspended(t)'
    <3>1. CASE t # current_task
      <4>1. Suspended(t)
        BY <2>1, <3>1 DEF TaskingInv, AllSuspended
      <4>2. task'[t] = task[t] /\ stack' = stack
        BY <1>1, <1>3, <1>5, <3>1
      <4> QED BY <4>1, <4>2, SuspendedKept
    <3>2. CASE t = current_task
      <4>1. /\ task'[t].page_directory = cr3 /\ task'[t].esp = Depth
            /\ task'[t].eip = "switch_check" /\ stack' = stack
        BY <1>1, <1>3, <1>5, <3>2
      <4>2. /\ Linked(stack'[task'[t].page_directory], task'[t].esp, t)
            /\ stack'[task'[t].page_directory][task'[t].esp].fn = "switch"
        BY <1>4, <3>2, <4>1
      <4> QED BY <4>1, <4>2 DEF Suspended
    <3> QED BY <3>1, <3>2
  <2> QED BY <2>1, <2>2 DEF AllSuspended
<1> QED BY <1>4, <1>6, <1>7, <1>9, <1>10 DEF TaskingInv

(* The next task of the queue. *)
LEMMA SwitchPickPreserves ==
  ASSUME TaskingInv, SwitchPick
  PROVE  TaskingInv'
<1> DEFINE n == IF task[current_task].next = nullptr THEN ready_queue
                ELSE task[current_task].next
<1>1. /\ pc = "switch_pick" /\ pc' = "switch_load"
      /\ current_task' = n /\ current_directory' = task[n].page_directory
      /\ UNCHANGED <<ready_queue, next_pid, task, cr3, stack, eax, interrupts, forks,
                     returned>>
  BY DEF SwitchPick
<1>2. ~interrupts /\ current_task # nullptr
  BY <1>1 DEF TaskingInv, Labelled, Interruptible
<1>3. /\ current_task \in Created /\ next_pid \in Nat /\ current_task \in 1 .. next_pid
      /\ next_pid \in 1 .. MaxTasks /\ MaxTasks \in Nat
  BY <1>2, CurrentIsCreated, TaskingAssumption
<1>4. n \in 1 .. next_pid /\ n \in Tasks /\ n \in Created /\ n # nullptr
  <2>1. ready_queue = 1
    BY <1>3 DEF TaskingInv, Queue
  <2>2. task[current_task].next = IF current_task = next_pid THEN nullptr ELSE current_task + 1
    BY <1>3 DEF TaskingInv, Queue
  <2>3. n \in 1 .. next_pid
    BY <1>3, <2>1, <2>2 DEF nullptr
  <2> HIDE DEF n
  <2> QED BY <1>3, <2>3 DEF Tasks, Created, nullptr
<1> HIDE DEF n
<1>5. Created' = Created /\ ~Appending /\ ~Appending'
  BY <1>1 DEF Created, Appending
<1>6. task[n].page_directory \in Directories
  BY <1>4 DEF TaskingInv, OwnDirectories
<1>7. TypeOK'
  <2>1. pc' \in Labels
    BY <1>1 DEF Labels
  <2> QED BY <1>1, <1>4, <1>6, <2>1 DEF TaskingInv, TypeOK
<1>8. Queue'
  <2>1. current_task' \in 0 .. next_pid' /\ (current_task' = nullptr <=> next_pid' = 0)
    BY <1>1, <1>3, <1>4
  <2> QED BY <1>1, <1>5, <2>1 DEF TaskingInv, Queue
<1>9. OwnDirectories'
  BY <1>1, <1>4, <1>5 DEF TaskingInv, OwnDirectories
<1>10. OnOwnStack'
  <2>1. Depth' = Depth /\ Top' = Top
    BY <1>1 DEF Depth, Top
  <2>2. Owner(pc') = Owner(pc)
    BY <1>1, Owners
  <2>3. Depth' > 0 /\ Owner(pc') = (Top').fn
    BY <2>1, <2>2, Running
  <2> QED BY <1>1, <2>3 DEF OnOwnStack
<1>11. Labelled' /\ Forking' /\ Told'
  BY <1>1, <1>2, <1>4, <1>5, ToldStays DEF Labelled, Forking
<1>12. AllSuspended'
  <2>1. Saved' = Created /\ Saved = Created /\ Unfinished = {} /\ Unfinished' = {}
    BY <1>1, <1>5 DEF Saved, Unfinished
  <2>2. ASSUME NEW t \in Created PROVE Suspended(t)'
    BY <1>1, <2>1, SuspendedKept DEF TaskingInv, AllSuspended
  <2> QED BY <2>1, <2>2 DEF AllSuspended
<1> QED BY <1>7, <1>8, <1>9, <1>10, <1>11, <1>12 DEF TaskingInv

(* The jump: the CPU comes to be on the stack that the task had saved.     *)
LEMMA SwitchLoadStacks ==
  ASSUME TaskingInv, SwitchLoad
  PROVE  /\ current_task # nullptr /\ current_task \in Created
         /\ current_directory = task[current_task].page_directory
         /\ stack' \in [Directories -> Seq(Frame)] /\ OnOwnStack'
         /\ \A d \in Directories \ {current_directory} : stack'[d] = stack[d]
         /\ \/ pc' = "switch_check"
            \/ pc' = "fork_check" /\ (Top').parent # current_task /\ current_task # 1
<1> DEFINE s == stack[current_directory]
           n == task[current_task].esp
           u == SubSeq(s, 1, n)
<1>1. /\ pc = "switch_load" /\ cr3' = current_directory /\ pc' = task[current_task].eip
      /\ stack' = [stack EXCEPT ![current_directory] = u]
      /\ UNCHANGED <<current_task, current_directory>>
  BY DEF SwitchLoad
<1>2. current_task # nullptr
  BY <1>1 DEF TaskingInv, Labelled
<1>3. current_task \in Created /\ current_directory = task[current_task].page_directory
  BY <1>2, CurrentIsCreated
<1>4. /\ current_directory \in Directories /\ s \in Seq(Frame)
      /\ stack \in [Directories -> Seq(Frame)]
  BY DEF TaskingInv, TypeOK
<1>5. /\ Linked(s, n, current_task)
      /\ \/ pc' = "switch_check" /\ s[n].fn = "switch"
         \/ /\ pc' = "fork_check" /\ s[n].fn = "fork" /\ s[n].parent # current_task
            /\ current_task # 1
  <2>1. Saved = Created /\ Unfinished = {}
    BY <1>1 DEF Saved, Unfinished, Appending
  <2>2. Suspended(current_task)
    BY <1>3, <2>1 DEF TaskingInv, AllSuspended
  <2> QED BY <1>1, <1>3, <2>2 DEF Suspended
<1>6. n \in 1 .. Len(s) /\ n \in Nat /\ Len(s) \in Nat
  <2>1. Len(s) \in Nat
    BY <1>4
  <2> QED BY <1>5, <2>1 DEF Linked
<1> HIDE DEF s, n
<1>7. /\ u \in Seq(Frame) /\ Len(u) = n /\ \A k \in 1 .. n : u[k] = s[k]
  <2>1. \A k \in 1 .. n : s[k] \in Frame
    BY <1>4, <1>6
  <2> QED BY <1>4, <1>6, <2>1, SubSeqProperties
<1> HIDE DEF u
<1>8. Linked(u, n, current_task)
  <2>1. n \in 1 .. n /\ Len(u) \in Nat /\ n <= Len(u)
    BY <1>6, <1>7
  <2> QED BY <1>5, <1>6, <1>7, <2>1, LinkedPrefix
<1>9. /\ stack' \in [Directories -> Seq(Frame)] /\ stack'[current_directory] = u
      /\ \A d \in Directories \ {current_directory} : stack'[d] = stack[d]
  BY <1>1, <1>4, <1>7
<1>10. Depth' = n /\ Top' = s[n]
  BY <1>1, <1>6, <1>7, <1>9 DEF Depth, Top
<1>11. OnOwnStack'
  <2>1. Depth' > 0
    BY <1>6, <1>10
  <2>2. Owner(pc') = (Top').fn
    BY <1>5, <1>10, Owners
  <2>3. Linked(stack'[cr3'], Depth', current_task')
    BY <1>1, <1>8, <1>9, <1>10
  <2> QED BY <2>1, <2>2, <2>3 DEF OnOwnStack
<1> QED BY <1>2, <1>3, <1>5, <1>9, <1>10, <1>11

(* switch_task loads the saved registers and the directory of the next     *)
(* task: it continues where that task was suspended, on its own stack.     *)
LEMMA SwitchLoadPreserves ==
  ASSUME TaskingInv, SwitchLoad
  PROVE  TaskingInv'
<1>1. /\ pc = "switch_load" /\ cr3' = current_directory
      /\ eax' = DEADBABA /\ interrupts' = TRUE
      /\ UNCHANGED <<current_task, ready_queue, next_pid, task, current_directory, forks,
                     returned>>
  BY DEF SwitchLoad
<1>2. /\ current_task # nullptr /\ current_task \in Created
      /\ current_directory = task[current_task].page_directory
      /\ stack' \in [Directories -> Seq(Frame)] /\ OnOwnStack'
      /\ \A d \in Directories \ {current_directory} : stack'[d] = stack[d]
      /\ \/ pc' = "switch_check"
         \/ pc' = "fork_check" /\ (Top').parent # current_task /\ current_task # 1
  BY SwitchLoadStacks
<1>3. TypeOK'
  <2>1. pc' \in Labels /\ eax' \in Labels \cup {DEADBABA}
    BY <1>1, <1>2 DEF Labels
  <2>2. interrupts' \in BOOLEAN
    BY <1>1
  <2> QED BY <1>1, <1>2, <2>1, <2>2 DEF TaskingInv, TypeOK
<1>4. Created' = Created /\ ~Appending /\ ~Appending'
  BY <1>1, <1>2 DEF Created, Appending
<1>5. Queue' /\ Told'
  BY <1>1, <1>4, ToldStays DEF TaskingInv, Queue
<1>6. OwnDirectories'
  BY <1>1, <1>2, <1>4 DEF TaskingInv, OwnDirectories
<1>7. Labelled' /\ Forking'
  BY <1>1, <1>2, <1>4 DEF Labelled, Forking, Interruptible
<1>8. AllSuspended'
  <2>1. Saved = Created /\ Saved' = Created \ {current_task}
    BY <1>1, <1>2, <1>4 DEF Saved
  <2>2. Unfinished = {} /\ Unfinished' = {}
    BY <1>4 DEF Unfinished
  <2>3. ASSUME NEW t \in Created \ {current_task} PROVE Suspended(t)'
    <3>1. Suspended(t)
      BY <2>1, <2>2 DEF TaskingInv, AllSuspended
    <3>2. task[t].page_directory \in Directories \ {current_directory}
      BY <1>2 DEF TaskingInv, OwnDirectories
    <3> QED BY <1>1, <1>2, <3>1, <3>2, SuspendedKept
  <2> QED BY <2>1, <2>2, <2>3 DEF AllSuspended
<1> QED BY <1>2, <1>3, <1>5, <1>6, <1>7, <1>8 DEF TaskingInv

(***************************************************************************)
(* initialise_tasking                                                      *)
(***************************************************************************)

(* The kernel becomes the first task, on the stack it has been using.      *)
LEMMA InitialiseTaskingPreserves ==
  ASSUME TaskingInv, InitialiseTasking
  PROVE  TaskingInv'
<1> DEFINE new == NewTask(0, kernel_directory)
<1>1. /\ pc = "boot" /\ pc' = "task" /\ interrupts' = TRUE
      /\ task' = [task EXCEPT ![1] = NewTask(next_pid, current_directory)]
      /\ current_task' = 1 /\ ready_queue' = 1 /\ next_pid' = next_pid + 1
      /\ UNCHANGED <<current_directory, cr3, stack, eax, forks, returned>>
  BY DEF InitialiseTasking
<1>2. current_task = nullptr
  BY <1>1 DEF TaskingInv, Labelled
<1>3. next_pid = 0 /\ current_directory = kernel_directory /\ cr3 = kernel_directory
  BY <1>1, <1>2 DEF TaskingInv, Queue, OwnDirectories
<1>4. /\ 1 \in Tasks /\ kernel_directory \in Directories /\ forks \in Nat
      /\ kernel_directory <= forks + 1 /\ 1 \in 0 .. MaxTasks
  <2>1. MaxTasks \in Nat /\ MaxTasks >= 1 /\ MaxForks \in Nat /\ forks \in Nat
    BY TaskingAssumption, Running, Registers
  <2> QED BY <2>1 DEF Tasks, Directories, kernel_directory
<1>5. /\ new \in TaskStruct /\ new.id = 0 /\ new.page_directory = kernel_directory
      /\ new.next = nullptr
  BY <1>4, NewTaskIs
<1> HIDE DEF new
<1>6. task' \in [Tasks -> TaskStruct] /\ task'[1] = new
  <2>1. task \in [Tasks -> TaskStruct]
    BY DEF TaskingInv, TypeOK, TaskStruct
  <2>2. task' = [task EXCEPT ![1] = new]
    BY <1>1, <1>3 DEF new
  <2> QED BY <1>4, <1>5, <2>1, <2>2
<1>7. TypeOK'
  <2>1. pc' \in Labels
    BY <1>1 DEF Labels
  <2>2. interrupts' \in BOOLEAN
    BY <1>1
  <2>3. next_pid' \in 0 .. MaxTasks /\ current_task' \in Tasks /\ ready_queue' \in Tasks
    BY <1>1, <1>3, <1>4
  <2> QED BY <1>1, <1>6, <2>1, <2>2, <2>3 DEF TaskingInv, TypeOK, TaskStruct
<1>8. /\ next_pid' = 1 /\ Created' = {1} /\ ~Appending' /\ Saved' = {}
  <2>1. next_pid' = 1 /\ ~Appending'
    BY <1>1, <1>3 DEF Appending
  <2>2. Created' = {1}
    BY <2>1 DEF Created
  <2> QED BY <1>1, <2>1, <2>2 DEF Saved
<1>9. Queue'
  BY <1>1, <1>5, <1>6, <1>8 DEF Queue, nullptr
<1>10. OwnDirectories'
  BY <1>1, <1>3, <1>4, <1>5, <1>6, <1>8 DEF OwnDirectories, nullptr
<1>11. OnOwnStack'
  <2>1. Depth' = Depth /\ Top' = Top
    BY <1>1 DEF Depth, Top
  <2>2. Owner(pc') = Owner(pc) /\ Owner(pc) = "main"
    BY <1>1, Owners
  <2>3. Depth = 1 /\ Top.fn = "main" /\ Top = stack[cr3][1] /\ Len(stack[cr3]) = 1
    BY <1>1, <2>2, Running
  <2>4. Linked(stack'[cr3'], 1, 1)
    BY <1>1, <2>3 DEF Linked
  <2>5. Linked(stack'[cr3'], Depth', current_task')
    BY <1>1, <2>1, <2>3, <2>4
  <2>6. Depth' > 0 /\ Owner(pc') = (Top').fn
    BY <2>1, <2>2, <2>3
  <2> QED BY <2>5, <2>6 DEF OnOwnStack
<1>12. Labelled' /\ Forking' /\ AllSuspended'
  BY <1>1, <1>8 DEF Labelled, Forking, AllSuspended, Interruptible, nullptr
<1>13. Told'
  <2>1. returned' = {}
    <3>1. \A r \in returned : r[2] \in 0 .. 0 - 1
      BY <1>3 DEF TaskingInv, Told
    <3> QED BY <1>1, <3>1
  <2>2. (2 .. next_pid') = {}
    BY <1>8
  <2> QED BY <2>1, <2>2 DEF Told, ForkTellsParentAndChild
<1> QED BY <1>7, <1>9, <1>10, <1>11, <1>12, <1>13 DEF TaskingInv

(* Before tasking there is the kernel's stack and nothing else. *)
LEMMA InitHolds == Init => TaskingInv
<1> SUFFICES ASSUME Init PROVE TaskingInv
  OBVIOUS
<1> DEFINE f == [fn |-> "main"]
<1>1. /\ current_task = nullptr /\ ready_queue = nullptr /\ next_pid = 0
      /\ task = [t \in Tasks |-> NoTask]
      /\ current_directory = kernel_directory /\ cr3 = kernel_directory
      /\ stack = [d \in Directories |-> IF d = kernel_directory THEN <<f>> ELSE <<>>]
      /\ pc = "boot" /\ eax = NullEip /\ interrupts = TRUE
      /\ forks = 0 /\ returned = {}
  BY DEF Init
<1>2. f \in Frame /\ f.fn = "main"
  BY DEF Frame
<1> HIDE DEF f
<1>3. <<f>> \in Seq(Frame) /\ Len(<<f>>) = 1 /\ <<f>>[1] = f
  BY <1>2
<1>4. kernel_directory \in Directories /\ MaxTasks \in Nat /\ MaxForks \in Nat
  BY TaskingAssumption DEF kernel_directory, Directories
<1>5. stack \in [Directories -> Seq(Frame)] /\ stack[cr3] = <<f>>
  <2>1. <<>> \in Seq(Frame)
    OBVIOUS
  <2> QED BY <1>1, <1>3, <1>4, <2>1
<1>6. Depth = 1 /\ Top = f
  BY <1>3, <1>5 DEF Depth, Top
<1>7. TypeOK
  <2>1. NoTask \in TaskStruct
    BY DEF NoTask, TaskStruct, Labels, NullEip, nullptr
  <2>2. task \in [Tasks -> TaskStruct]
    BY <1>1, <2>1
  <2>3. interrupts \in BOOLEAN
    BY <1>1
  <2>4. pc \in Labels /\ eax \in Labels \cup {DEADBABA}
    BY <1>1 DEF Labels
  <2>5. next_pid \in 0 .. MaxTasks /\ forks \in 0 .. MaxForks
    BY <1>1, <1>4
  <2>6. returned \in SUBSET (Nat \X Nat)
    BY <1>1
  <2> QED BY <1>1, <1>4, <1>5, <2>2, <2>3, <2>4, <2>5, <2>6 DEF TypeOK, TaskStruct
<1>8. Created = {} /\ ~Appending /\ Saved = {}
  <2>1. Created = {}
    BY <1>1 DEF Created
  <2> QED BY <1>1, <2>1 DEF Appending, Saved
<1>9. Queue /\ OwnDirectories
  BY <1>1, <1>8 DEF Queue, OwnDirectories, nullptr
<1>10. OnOwnStack
  <2>1. Linked(stack[cr3], 1, current_task)
    BY <1>2, <1>3, <1>5 DEF Linked
  <2>2. Owner(pc) = "main"
    BY <1>1, Owners
  <2> QED BY <1>2, <1>6, <2>1, <2>2 DEF OnOwnStack
<1>11. Labelled /\ Forking /\ AllSuspended
  BY <1>1, <1>8 DEF Labelled, Forking, AllSuspended, Interruptible
<1>12. Told
  <2>1. (2 .. next_pid) = {}
    BY <1>1
  <2> QED BY <1>1, <2>1 DEF Told, ForkTellsParentAndChild
<1> QED BY <1>7, <1>9, <1>10, <1>11, <1>12 DEF TaskingInv

(* Every step, and stuttering, keeps the invariant. *)
LEMMA NextPreserves == TaskingInv /\ [Next]_vars => TaskingInv'
<1> SUFFICES ASSUME TaskingInv, [Next]_vars PROVE TaskingInv'
  OBVIOUS
<1>1. CASE Step
  BY <1>1, InitialiseTaskingPreserves, ForkClonePreserves, ForkAppendPreserves,
     ForkExhaustedPreserves, ForkGipPreserves, ForkParentPreserves, ForkChildPreserves,
     SwitchTooEarlyPreserves, SwitchTaskPreserves, SwitchGipPreserves,
     SwitchSavePreserves, SwitchPickPreserves, SwitchLoadPreserves,
     SwitchReturnPreserves, IrqReturnPreserves DEF Step
<1>2. CASE Fork \/ TimerInterrupt
  BY <1>2, ForkPreserves, TimerInterruptPreserves
<1>3. CASE UNCHANGED vars
  <2>1. /\ Depth' = Depth /\ Top' = Top /\ Created' = Created /\ Saved' = Saved
        /\ (Appending' <=> Appending) /\ Unfinished' = Unfinished
    BY <1>3 DEF vars, Depth, Top, Created, Saved, Appending, Unfinished
  <2>2. TypeOK' /\ Queue' /\ OwnDirectories'
    BY <1>3, <2>1 DEF vars, TaskingInv, TypeOK, Queue, OwnDirectories
  <2>3. OnOwnStack' /\ Labelled' /\ Forking'
    BY <1>3, <2>1 DEF vars, TaskingInv, OnOwnStack, Labelled, Forking
  <2>4. ASSUME NEW t, Suspended(t) PROVE Suspended(t)'
    BY <1>3, <2>4, SuspendedKept DEF vars
  <2>5. AllSuspended' /\ Told'
    BY <1>3, <2>1, <2>4, ToldStays DEF vars, TaskingInv, AllSuspended
  <2> QED BY <2>2, <2>3, <2>5 DEF TaskingInv
<1> QED BY <1>1, <1>2, <1>3 DEF Next

(***************************************************************************)
(* The invariant and what follows from it                                  *)
(***************************************************************************)

(* How records follow each other on every stack, what every task that is   *)
(* not running has saved, and that no two tasks share a stack, for any     *)
(* number of tasks and forks and with nested ticks or without.             *)
THEOREM TaskingInvariance == Spec => []TaskingInv
BY InitHolds, NextPreserves, PTL DEF Spec

(* Every variable of the scheduler keeps its type: in particular fork      *)
(* writes no struct beyond the heap's room.                                *)
THEOREM TaskingTypeCorrect == Spec => []TypeOK
<1>1. TaskingInv => TypeOK
  BY DEF TaskingInv
<1> QED BY <1>1, TaskingInvariance, PTL

(* switch_task never resumes a function on the stack of another one, and   *)
(* never jumps to the eip of a child that fork has not filled in.          *)
THEOREM TaskingOwnFrame == Spec => []RunsOnItsOwnFrame
<1>1. TaskingInv => RunsOnItsOwnFrame
  BY DEF TaskingInv, OnOwnStack, RunsOnItsOwnFrame
<1> QED BY <1>1, TaskingInvariance, PTL

(* Whenever a tick may arrive, every task but the running one has saved an *)
(* esp and an eip that fit its stack.                                      *)
THEOREM TaskingResumable == Spec => []SuspendedTasksResumable
<1>1. TaskingInv => SuspendedTasksResumable
  <2> SUFFICES ASSUME TaskingInv, interrupts, NEW t \in Created \ {current_task}
               PROVE  Resumable(t)
    BY DEF SuspendedTasksResumable
  <2> DEFINE s == stack[task[t].page_directory]
             d == task[t].esp
  <2>1. ~Appending
    BY DEF TaskingInv, Labelled, Appending, Interruptible
  <2>2. t \in Saved \ Unfinished
    BY <2>1 DEF Saved, Unfinished
  <2>3. Suspended(t)
    BY <2>2 DEF TaskingInv, AllSuspended
  <2>4. /\ Linked(s, d, t)
        /\ \/ task[t].eip = "switch_check" /\ s[d].fn = "switch"
           \/ task[t].eip = "fork_check" /\ s[d].fn = "fork" /\ s[d].parent # t
    BY <2>3 DEF Suspended
  <2>5. t \in Tasks
    BY TaskingAssumption DEF TaskingInv, TypeOK, Created, Tasks
  <2>6. task[t].page_directory \in Directories
    BY DEF TaskingInv, OwnDirectories
  <2>7. s \in Seq(Frame)
    BY <2>6 DEF TaskingInv, TypeOK
  <2> HIDE DEF s, d
  <2>8. Len(s) \in Nat
    BY <2>7
  <2>9. d \in 1 .. Len(s) /\ s[1].fn = "main"
    BY <2>4 DEF Linked
  <2>10. Owner(task[t].eip) = s[d].fn
    BY <2>4, Owners
  <2>11. ASSUME task[t].eip = "switch_check" PROVE d > 1 /\ s[d - 1].fn = "irq"
    <3>1. s[d].fn = "switch"
      BY <2>4, <2>11
    <3>2. d # 1
      BY <2>9, <3>1
    <3>3. d \in 2 .. d /\ d > 1
      BY <2>8, <2>9, <3>2
    <3>4. Link(s, d, t)
      BY <2>4, <3>3 DEF Linked
    <3> QED BY <3>1, <3>3, <3>4 DEF Link
  <2>12. task[t].eip = "fork_check" => s[d].parent # t
    BY <2>4
  <2> QED BY <2>9, <2>10, <2>11, <2>12 DEF Resumable, s, d
<1> QED BY <1>1, TaskingInvariance, PTL

(* Outside the jump of switch_task the CPU translates with the directory   *)
(* of the task that the scheduler thinks is running.                       *)
THEOREM TaskingAddressSpace == Spec => []AddressSpaceAgrees
<1>1. TaskingInv => AddressSpaceAgrees
  BY DEF TaskingInv, OwnDirectories, Labelled, Interruptible, AddressSpaceAgrees
<1> QED BY <1>1, TaskingInvariance, PTL

(* The walk over the ready queue meets every task once, in the order of    *)
(* creation.                                                               *)
THEOREM TaskingQueue == Spec => []QueueHasEveryTask
<1>1. TaskingInv => QueueHasEveryTask
  <2> SUFFICES ASSUME TaskingInv PROVE QueueHasEveryTask
    OBVIOUS
  <2>1. next_pid \in Nat /\ Queue
    BY Running, Registers DEF TaskingInv
  <2>2. \A k \in Nat : Nth[k] = IF k < next_pid THEN k + 1 ELSE nullptr
    BY <2>1, NthOfQueue
  <2>3. ASSUME NEW k \in 0 .. next_pid
        PROVE  Nth[k] = IF k = next_pid THEN nullptr ELSE k + 1
    BY <2>1, <2>2
  <2> QED BY <2>3 DEF QueueHasEveryTask
<1> QED BY <1>1, TaskingInvariance, PTL

(* fork tells a child's pid to one parent only, before the child returns   *)
(* from the fork with 0.                                                   *)
THEOREM TaskingForkTells == Spec => []ForkTellsParentAndChild
<1>1. TaskingInv => ForkTellsParentAndChild
  BY DEF TaskingInv, Told
<1> QED BY <1>1, TaskingInvariance, PTL

(***************************************************************************)
(* Progress                                                                *)
(***************************************************************************)

(* Steps until interrupts are enabled again, from each label at which they *)
(* can be disabled; a fork that found the heap exhausted takes none.       *)
MaskedSteps == [l \in Labels |->
  CASE l = "switch"                                   -> 5
    [] l \in {"switch_gip", "fork_clone"}             -> 4
    [] l \in {"switch_check", "fork_append"}          -> 3
    [] l \in {"switch_pick", "fork_gip"}              -> 2
    [] l \in {"switch_load", "irq_return", "fork_check"} -> 1
    [] OTHER                                          -> 0]

(* Tasks run with interrupts enabled, and only a fork that has found the   *)
(* heap exhausted never enables them again.                                *)
Unmasked ==
  /\ pc \in {"boot", "task"} => interrupts
  /\ ~interrupts => MaskedSteps[pc] > 0 \/ pc = "hung"

(* Every step with interrupts disabled enables them or comes closer to it. *)
MaskedEnds ==
  ~interrupts => interrupts' \/ MaskedSteps[pc'] < MaskedSteps[pc]

(* How many times switch_task picks until it picks t. *)
Turns(t) == IF t > current_task THEN t - current_task ELSE next_pid - current_task + t

(* Nobody waits longer than a round. *)
WithinRound == current_task # nullptr => \A t \in Created : Turns(t) \in 1 .. next_pid

(* Every pick is t or brings t one turn closer, and nothing else takes it  *)
(* further away than the tasks that fork adds in front of it.              *)
TurnComes ==
  current_task # nullptr =>
    \A t \in Created :
      IF pc = "switch_pick" THEN current_task' = t \/ Turns(t)' = Turns(t) - 1
      ELSE Turns(t)' <= Turns(t) + (next_pid' - next_pid)

(* The labels in the order in which the code passes them. *)
LEMMA MaskedStepsAre ==
  /\ MaskedSteps["switch"] = 5 /\ MaskedSteps["switch_gip"] = 4
  /\ MaskedSteps["switch_check"] = 3 /\ MaskedSteps["switch_pick"] = 2
  /\ MaskedSteps["switch_load"] = 1 /\ MaskedSteps["irq_return"] = 1
  /\ MaskedSteps["fork_clone"] = 4 /\ MaskedSteps["fork_append"] = 3
  /\ MaskedSteps["fork_gip"] = 2 /\ MaskedSteps["fork_check"] = 1
  /\ MaskedSteps["hung"] = 0
BY DEF MaskedSteps, Labels, NullEip

(* fork and switch_task are left with interrupts enabled: a child returns  *)
(* from fork in the IF that switch_task has given it.                      *)
LEMMA UnmaskedStep == TaskingInv /\ TaskingInv' /\ Unmasked /\ [Next]_vars => Unmasked'
<1> SUFFICES ASSUME TaskingInv, TaskingInv', Unmasked, [Next]_vars PROVE Unmasked'
  OBVIOUS
<1>1. /\ interrupts \in BOOLEAN /\ interrupts' \in BOOLEAN
      /\ pc = "fork_check" /\ ~interrupts => current_task = Top.parent
  BY DEF TaskingInv, TypeOK, Labelled
<1>2. CASE UNCHANGED vars
  BY <1>2 DEF vars, Unmasked
<1>3. CASE InitialiseTasking \/ ForkParent \/ IrqReturn \/ SwitchLoad
  BY <1>3 DEF InitialiseTasking, ForkParent, IrqReturn, SwitchLoad, Unmasked
<1>4. CASE ForkChild
  BY <1>1, <1>4 DEF ForkChild, Unmasked
<1>5. CASE Fork \/ ForkClone \/ ForkAppend \/ ForkExhausted \/ ForkGip
  BY <1>5, MaskedStepsAre
     DEF Fork, ForkClone, ForkAppend, ForkExhausted, ForkGip, GetInstructionPointer, Unmasked
<1>6. CASE TimerInterrupt \/ SwitchTooEarly \/ SwitchTask \/ SwitchGip
  BY <1>6, MaskedStepsAre
     DEF TimerInterrupt, SwitchTooEarly, SwitchTask, SwitchGip, GetInstructionPointer, Unmasked
<1>7. CASE SwitchSave \/ SwitchPick \/ SwitchReturn
  BY <1>7, MaskedStepsAre DEF SwitchSave, SwitchPick, SwitchReturn, Unmasked
<1> QED BY <1>2, <1>3, <1>4, <1>5, <1>6, <1>7 DEF Next, Step

(* A step with interrupts disabled. *)
LEMMA MaskedStep ==
  ASSUME TaskingInv, Unmasked, Next, ~interrupts
  PROVE  interrupts' \/ MaskedSteps[pc'] < MaskedSteps[pc]
<1>1. /\ pc \notin {"boot", "task"}
      /\ pc = "fork_check" => current_task = Top.parent
      /\ pc = "switch_check" => eax = "switch_check"
  BY DEF TaskingInv, Unmasked, Labelled
<1>2. ~InitialiseTasking /\ ~Fork /\ ~TimerInterrupt /\ ~ForkChild /\ ~SwitchReturn
  BY <1>1 DEF InitialiseTasking, Fork, TimerInterrupt, ForkChild, SwitchReturn, DEADBABA
<1>3. CASE ForkParent \/ IrqReturn \/ SwitchLoad
  BY <1>3 DEF ForkParent, IrqReturn, SwitchLoad
<1>4. CASE ForkClone \/ ForkAppend \/ ForkExhausted \/ ForkGip
  BY <1>4, MaskedStepsAre DEF ForkClone, ForkAppend, ForkExhausted, ForkGip,
     GetInstructionPointer
<1>5. CASE SwitchTooEarly \/ SwitchTask \/ SwitchGip \/ SwitchSave \/ SwitchPick
  BY <1>5, MaskedStepsAre DEF SwitchTooEarly, SwitchTask, SwitchGip, SwitchSave, SwitchPick,
     GetInstructionPointer
<1> QED BY <1>2, <1>3, <1>4, <1>5 DEF Next, Step

(* fork and switch_task keep interrupts disabled for at most five steps,   *)
(* unless fork finds the heap exhausted: no path of task.c leaves a task   *)
(* running without the timer.                                              *)
THEOREM TaskingMaskedEnds == Spec => []Unmasked /\ [][MaskedEnds]_vars
<1>1. Init => Unmasked
  BY DEF Init, Unmasked
<1>2. TaskingInv /\ TaskingInv' /\ Unmasked /\ [Next]_vars => Unmasked'
  BY UnmaskedStep
<1>3. TaskingInv /\ Unmasked /\ [Next]_vars => [MaskedEnds]_vars
  BY MaskedStep DEF MaskedEnds
<1> QED BY <1>1, <1>2, <1>3, TaskingInvariance, PTL DEF Spec

(* A round is as long as the queue. *)
LEMMA InvWithinRound == TaskingInv => WithinRound
<1> SUFFICES ASSUME TaskingInv, current_task # nullptr, NEW t \in Created
             PROVE  Turns(t) \in 1 .. next_pid
  BY DEF WithinRound
<1>1. next_pid \in Nat /\ current_task \in 1 .. next_pid /\ t \in 1 .. next_pid
  BY CurrentIsCreated DEF Created
<1> QED BY <1>1 DEF Turns

(* switch_task picks the next in the queue, and behind the last the first. *)
LEMMA PickComes ==
  ASSUME TaskingInv, SwitchPick, current_task # nullptr, NEW t \in Created
  PROVE  current_task' = t \/ Turns(t)' = Turns(t) - 1
<1>1. /\ next_pid \in Nat /\ current_task \in 1 .. next_pid /\ t \in 1 .. next_pid
      /\ current_task \in Created /\ next_pid' = next_pid
  BY CurrentIsCreated DEF Created, SwitchPick
<1>2. current_task' = IF current_task = next_pid THEN 1 ELSE current_task + 1
  <2>1. ready_queue = 1
    BY <1>1 DEF TaskingInv, Queue
  <2>2. task[current_task].next = IF current_task = next_pid THEN nullptr ELSE current_task + 1
    BY <1>1 DEF TaskingInv, Queue
  <2> QED BY <1>1, <2>1, <2>2 DEF SwitchPick, nullptr
<1> QED BY <1>1, <1>2 DEF Turns

(* Nothing else changes the order; fork appends to the end of the queue.   *)
LEMMA OthersKeepTurns ==
  ASSUME TaskingInv, TaskingInv', Next, pc # "switch_pick", current_task # nullptr,
         NEW t \in Created
  PROVE  Turns(t)' <= Turns(t) + (next_pid' - next_pid)
<1>1. next_pid \in Nat /\ current_task \in 1 .. next_pid /\ t \in 1 .. next_pid
  BY CurrentIsCreated DEF Created
<1>2. pc # "boot"
  BY DEF TaskingInv, Labelled
<1>3. current_task' = current_task /\ (next_pid' = next_pid \/ next_pid' = next_pid + 1)
  BY <1>2 DEF Next, Step, InitialiseTasking, Fork, ForkClone, ForkAppend, ForkExhausted, ForkGip,
     ForkParent, ForkChild, TimerInterrupt, SwitchTooEarly, SwitchTask, SwitchGip, SwitchSave,
     SwitchPick, SwitchLoad, SwitchReturn, IrqReturn, GetInstructionPointer
<1> QED BY <1>1, <1>3 DEF Turns

(* Round robin: with every pick of switch_task each task is picked or one  *)
(* turn closer to it, never more than a round away, and a fork defers it   *)
(* by one turn at most.                                                    *)
THEOREM TaskingRoundRobin == Spec => []WithinRound /\ [][TurnComes]_vars
<1>1. TaskingInv => WithinRound
  BY InvWithinRound
<1>2. TaskingInv /\ TaskingInv' /\ [Next]_vars => [TurnComes]_vars
  <2> SUFFICES ASSUME TaskingInv, TaskingInv', Next, current_task # nullptr, NEW t \in Created
               PROVE  IF pc = "switch_pick" THEN current_task' = t \/ Turns(t)' = Turns(t) - 1
                      ELSE Turns(t)' <= Turns(t) + (next_pid' - next_pid)
    BY DEF TurnComes
  <2>1. CASE pc = "switch_pick"
    <3>1. ~interrupts
      BY <2>1 DEF TaskingInv, Labelled, Interruptible
    <3>2. SwitchPick
      BY <2>1, <3>1 DEF Next, Step, InitialiseTasking, Fork, ForkClone, ForkAppend, ForkExhausted,
         ForkGip, ForkParent, ForkChild, TimerInterrupt, SwitchTooEarly, SwitchTask, SwitchGip,
         SwitchSave, SwitchLoad, SwitchReturn, IrqReturn, GetInstructionPointer
    <3> QED BY <2>1, <3>2, PickComes
  <2>2. CASE pc # "switch_pick"
    BY <2>2, OthersKeepTurns
  <2> QED BY <2>1, <2>2
<1> QED BY <1>1, <1>2, TaskingInvariance, PTL DEF Spec
============================================================================
