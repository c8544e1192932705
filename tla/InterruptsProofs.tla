------------------------- MODULE InterruptsProofs -------------------------
(***************************************************************************)
(* Proofs about interrupt dispatch, for any lines, vectors, faults and     *)
(* lengths of reports: how activation records may follow each other on the *)
(* stack, what that means for the screen driver and the heap, and why a    *)
(* panic reports and halts.                                                *)
(***************************************************************************)
EXTENDS Interrupts, SequenceTheorems, TLAPS

(* _start has one record, the first. *)
StartIsFirst ==
  /\ Depth > 0 /\ stack[1].fn = "start"
  /\ \A k \in 2 .. Depth : stack[k].fn # "start"

(* The record that called the k-th one. *)
Caller(k) == stack[k - 1]

(* An interrupt that code raises comes from _start or from the int 48 of a *)
(* print; a hardware interrupt may come anywhere.                          *)
IsrCalled ==
  \A k \in 2 .. Depth :
    /\ stack[k].fn = "isr" => Caller(k).fn \in {"start", "print"}
    /\ stack[k].fn = "irq" => stack[k].v \in IrqVectors

(* Who prints: _start, a report, the announcement of an undefined vector,  *)
(* or irq_handler when nobody has registered the line.  Reports are made   *)
(* for interrupts that code raises.                                        *)
PrintCalled ==
  \A k \in 2 .. Depth :
    /\ stack[k].fn = "print" =>
         \/ Caller(k).fn \in {"start", "panic", "debug", "isr"}
         \/ Caller(k).fn = "irq" /\ interruption_handlers[Caller(k).v] = nullptr
    /\ stack[k].fn \in {"panic", "debug"} => Caller(k).fn = "isr"

(* Only vector 48 leads to the screen driver, and until it returns it is   *)
(* on top with interrupts disabled.                                        *)
OnlyInt48 ==
  \A v \in Vectors : interruption_handlers[v] = "screen_callback" => v = Screen

ScreenOnTop ==
  \A k \in 1 .. Depth :
    /\ stack[k].at = "screen" => stack[k].fn = "isr" /\ stack[k].v = Screen
    /\ stack[k].fn = "isr" /\ stack[k].v = Screen /\ stack[k].at # "return" =>
         k = Depth /\ ~interrupts

(* Handlers for lines never report. *)
LineHandlers ==
  \A v \in IrqVectors : interruption_handlers[v] \notin {"debug", "page_fault"}

(* From the fourth step of _start on the screen has its handler, and on a  *)
(* quiet boot nothing happens before.                                      *)
ScreenRegistered == stage > 3 => interruption_handlers[Screen] # nullptr

QuietUntilScreen ==
  QuietBoot /\ interruption_handlers[Screen] = nullptr => Depth = 1 /\ pending = {}

InterruptsInv ==
  /\ TypeOK /\ StartIsFirst /\ IsrCalled /\ PrintCalled /\ OnlyInt48 /\ ScreenOnTop
  /\ LineHandlers /\ ScreenRegistered /\ QuietUntilScreen /\ HandlersAvoidHeap

(***************************************************************************)
(* Stacks                                                                  *)
(***************************************************************************)

(* The running record. *)
LEMMA TopType ==
  ASSUME stack \in Seq(Frames), Depth > 0
  PROVE  Depth \in Nat /\ Top \in Frames /\ Top = stack[Depth]
BY DEF Depth, Top

(* Continue: the top record is replaced by f. *)
Replaces(f) ==
  /\ stack' \in Seq(Frames) /\ Len(stack') = Depth
  /\ \A k \in 1 .. Depth - 1 : stack'[k] = stack[k]
  /\ stack'[Depth] = f

(* Call and Gate: the top record becomes f, and g runs. *)
Pushes(f, g) ==
  /\ stack' \in Seq(Frames) /\ Len(stack') = Depth + 1
  /\ \A k \in 1 .. Depth - 1 : stack'[k] = stack[k]
  /\ stack'[Depth] = f
  /\ stack'[Depth + 1] = g

(* A return. *)
Pops ==
  /\ stack' \in Seq(Frames) /\ Len(stack') = Depth - 1
  /\ \A k \in 1 .. Depth - 1 : stack'[k] = stack[k]

(* The records below the running one. *)
LEMMA RestIs ==
  ASSUME stack \in Seq(Frames), Depth > 0
  PROVE  /\ Rest \in Seq(Frames) /\ Len(Rest) = Depth - 1
         /\ \A k \in 1 .. Depth - 1 : Rest[k] = stack[k]
<1>1. Depth \in Nat /\ Depth = Len(stack)
  BY TopType DEF Depth
<1>2. \A k \in 1 .. Depth - 1 : stack[k] \in Frames
  BY <1>1
<1> QED BY <1>1, <1>2, SubSeqProperties DEF Rest

(* A return takes the running record off the stack. *)
LEMMA PopIs ==
  ASSUME stack \in Seq(Frames), Depth > 0, stack' = Rest
  PROVE  Pops
BY RestIs DEF Pops

(* A step of the running code changes its record only. *)
LEMMA ReplaceIs ==
  ASSUME stack \in Seq(Frames), Depth > 0, NEW f \in Frames, stack' = Append(Rest, f)
  PROVE  Replaces(f)
<1>1. /\ Rest \in Seq(Frames) /\ Len(Rest) = Depth - 1
      /\ \A k \in 1 .. Depth - 1 : Rest[k] = stack[k]
  BY RestIs
<1>2. Depth \in Nat
  BY TopType
<1> QED BY <1>1, <1>2 DEF Replaces

(* A call, or an interrupt of a record that moves on, puts one on top. *)
LEMMA PushIs ==
  ASSUME stack \in Seq(Frames), Depth > 0, NEW f \in Frames, NEW g \in Frames,
         stack' = Rest \o <<f, g>> \/ stack' = Append(Append(Rest, f), g)
  PROVE  Pushes(f, g)
<1>1. /\ Rest \in Seq(Frames) /\ Len(Rest) = Depth - 1
      /\ \A k \in 1 .. Depth - 1 : Rest[k] = stack[k]
  BY RestIs
<1>2. Depth \in Nat
  BY TopType
<1>3. CASE stack' = Rest \o <<f, g>>
  <2> DEFINE two == <<f, g>>
  <2>1. two \in Seq(Frames) /\ Len(two) = 2 /\ two[1] = f /\ two[2] = g
    OBVIOUS
  <2>2. stack' = Rest \o two
    BY <1>3
  <2> HIDE DEF two
  <2>3. /\ Rest \o two \in Seq(Frames) /\ Len(Rest \o two) = Len(Rest) + Len(two)
        /\ \A k \in 1 .. Len(Rest) + Len(two) :
             (Rest \o two)[k] = IF k <= Len(Rest) THEN Rest[k] ELSE two[k - Len(Rest)]
    BY <1>1, <2>1, ConcatProperties, Zenon
  <2>4. /\ stack' \in Seq(Frames) /\ Len(stack') = Depth + 1
        /\ \A k \in 1 .. Depth + 1 :
             stack'[k] = IF k <= Depth - 1 THEN Rest[k] ELSE two[k - (Depth - 1)]
    BY <1>1, <1>2, <2>1, <2>2, <2>3
  <2>5. stack'[Depth] = f /\ stack'[Depth + 1] = g
    BY <1>2, <2>1, <2>4
  <2>6. \A k \in 1 .. Depth - 1 : stack'[k] = stack[k]
    <3> SUFFICES ASSUME NEW k \in 1 .. Depth - 1 PROVE stack'[k] = stack[k]
      OBVIOUS
    <3>1. k \in 1 .. Depth + 1 /\ k <= Depth - 1
      BY <1>2
    <3> QED BY <1>1, <2>4, <3>1
  <2> QED BY <2>4, <2>5, <2>6 DEF Pushes
<1>4. CASE stack' = Append(Append(Rest, f), g)
  BY <1>1, <1>2, <1>4 DEF Pushes
<1> QED BY <1>3, <1>4

(* A call moves the caller on and puts its frame on top. *)
LEMMA CallIs ==
  ASSUME NEW at, NEW g, Call(at, g)
  PROVE  stack' = Rest \o <<[Top EXCEPT !.at = at], g>>
BY DEF Call

(* A hardware interrupt leaves the record it interrupts as it was. *)
LEMMA PushOnTop ==
  ASSUME stack \in Seq(Frames), Depth > 0, NEW g \in Frames, stack' = Append(stack, g)
  PROVE  Pushes(Top, g)
BY TopType DEF Pushes, Depth, Top

(***************************************************************************)
(* What the three shapes of a step do to the order of the records          *)
(***************************************************************************)

StackInv ==
  /\ StartIsFirst /\ IsrCalled /\ PrintCalled /\ ScreenOnTop /\ HandlersAvoidHeap

(* Active(f): f leads to the screen driver, or is in it. *)
Active(f) == f.fn = "isr" /\ f.v = Screen /\ f.at # "return"

(* Moving on in the same code keeps the records in order, as long as no    *)
(* screen handler becomes active.                                          *)
LEMMA ReplaceKeeps ==
  ASSUME stack \in Seq(Frames), StackInv, NEW f \in Frames, Replaces(f),
         UNCHANGED interruption_handlers,
         f.fn = Top.fn, f.v = Top.v,
         f.at = "screen" => f.fn = "isr" /\ f.v = Screen,
         Active(f) => Active(Top) /\ UNCHANGED interrupts
  PROVE  StackInv'
<1> USE DEF StackInv
<1>1. Depth \in Nat /\ Depth > 0 /\ Top = stack[Depth]
  BY TopType DEF StartIsFirst
<1>2. Depth' = Depth
  BY DEF Replaces, Depth
<1>3. \A k \in 1 .. Depth : stack'[k].fn = stack[k].fn /\ stack'[k].v = stack[k].v
  BY <1>1 DEF Replaces
<1>4. StartIsFirst'
  BY <1>1, <1>2, <1>3 DEF StartIsFirst
<1>5. IsrCalled' /\ PrintCalled'
  <2>1. ASSUME NEW k \in 2 .. Depth
        PROVE  /\ stack'[k].fn = stack[k].fn /\ stack'[k].v = stack[k].v
               /\ stack'[k - 1].fn = stack[k - 1].fn /\ stack'[k - 1].v = stack[k - 1].v
    BY <1>1, <1>3
  <2>2. IsrCalled'
    BY <1>2, <2>1 DEF IsrCalled, Caller
  <2>3. PrintCalled'
    BY <1>2, <2>1 DEF PrintCalled, Caller
  <2> QED BY <2>2, <2>3
<1>6. ScreenOnTop'
  BY <1>1, <1>2 DEF ScreenOnTop, Replaces, Active
<1>7. HandlersAvoidHeap'
  <2> SUFFICES ASSUME NEW k \in 1 .. Depth, NEW l \in 1 .. Depth, k + 1 < l,
                      stack'[k].fn = "print", stack'[k + 1].fn = "irq",
                      stack'[l].fn = "print"
               PROVE  \E m \in k + 1 .. l - 1 :
                        /\ stack'[m].fn = "irq"
                        /\ interruption_handlers'[stack'[m].v] = nullptr
    BY <1>2 DEF HandlersAvoidHeap
  <2>1. k + 1 \in 1 .. Depth
    BY <1>1
  <2>2. PICK m \in k + 1 .. l - 1 :
          stack[m].fn = "irq" /\ interruption_handlers[stack[m].v] = nullptr
    BY <1>3, <2>1 DEF HandlersAvoidHeap
  <2>3. m \in 1 .. Depth
    BY <1>1
  <2> QED BY <1>3, <2>2, <2>3
<1> QED BY <1>4, <1>5, <1>6, <1>7

(* Returning keeps the records below in order. *)
LEMMA PopKeeps ==
  ASSUME stack \in Seq(Frames), StackInv, Depth > 1, Pops,
         UNCHANGED interruption_handlers
  PROVE  StackInv'
<1> USE DEF StackInv
<1>1. Depth \in Nat
  BY TopType DEF StartIsFirst
<1>2. Depth' = Depth - 1 /\ \A k \in 1 .. Depth - 1 : stack'[k] = stack[k]
  BY DEF Pops, Depth
<1>3. StartIsFirst'
  BY <1>1, <1>2 DEF StartIsFirst
<1>4. IsrCalled' /\ PrintCalled'
  BY <1>1, <1>2 DEF IsrCalled, PrintCalled, Caller
<1>5. ScreenOnTop'
  BY <1>1, <1>2 DEF ScreenOnTop
<1>6. HandlersAvoidHeap'
  BY <1>1, <1>2 DEF HandlersAvoidHeap
<1> QED BY <1>3, <1>4, <1>5, <1>6

(* Where a record may come to lie on another one. *)
MayCall(f, g) ==
  /\ g.fn # "start" /\ g.at # "screen"
  /\ g.fn = "isr" => f.fn \in {"start", "print"}
  /\ g.fn = "irq" => g.v \in IrqVectors
  /\ g.fn = "print" =>
       \/ f.fn \in {"start", "panic", "debug", "isr"}
       \/ f.fn = "irq" /\ interruption_handlers[f.v] = nullptr
  /\ g.fn \in {"panic", "debug"} => f.fn = "isr"

(* Below a print that was interrupted, the chain of callers of a new print *)
(* leads to an earlier print or to a line that nobody has registered.      *)
LEMMA PushAvoidsHeap ==
  ASSUME stack \in Seq(Frames), StackInv, NEW f \in Frames, NEW g \in Frames,
         Pushes(f, g), f.fn = Top.fn, f.v = Top.v, MayCall(f, g),
         UNCHANGED interruption_handlers
  PROVE  HandlersAvoidHeap'
<1> USE DEF StackInv
<1>1. Depth \in Nat /\ Depth > 0 /\ Top = stack[Depth] /\ Depth' = Depth + 1
  BY TopType DEF StartIsFirst, Pushes, Depth
<1>2. \A k \in 1 .. Depth : stack'[k].fn = stack[k].fn /\ stack'[k].v = stack[k].v
  BY <1>1 DEF Pushes
<1> SUFFICES ASSUME NEW k \in 1 .. Depth + 1, NEW l \in 1 .. Depth + 1, k + 1 < l,
                    stack'[k].fn = "print", stack'[k + 1].fn = "irq",
                    stack'[l].fn = "print"
             PROVE  \E m \in k + 1 .. l - 1 :
                      /\ stack'[m].fn = "irq"
                      /\ interruption_handlers[stack'[m].v] = nullptr
  BY <1>1 DEF HandlersAvoidHeap
<1>3. /\ k \in 2 .. Depth - 1 /\ k + 1 \in 1 .. Depth
      /\ stack[k].fn = "print" /\ stack[k + 1].fn = "irq"
  <2>1. k \in 1 .. Depth - 1 /\ k + 1 \in 1 .. Depth
    BY <1>1
  <2>2. stack[k].fn = "print" /\ stack[k + 1].fn = "irq"
    BY <1>1, <1>2, <2>1
  <2>3. k # 1
    BY <2>2 DEF StartIsFirst
  <2> QED BY <2>1, <2>2, <2>3
<1>4. ASSUME NEW e \in 1 .. Depth, k + 1 < e, e <= l, stack[e].fn = "print"
      PROVE  \E m \in k + 1 .. l - 1 :
               /\ stack'[m].fn = "irq"
               /\ interruption_handlers[stack'[m].v] = nullptr
  <2>1. PICK m \in k + 1 .. e - 1 :
          stack[m].fn = "irq" /\ interruption_handlers[stack[m].v] = nullptr
    <3>1. k \in 1 .. Depth /\ e \in 1 .. Depth /\ k + 1 < e
      BY <1>1, <1>3, <1>4
    <3>2. HandlersAvoidHeap
      OBVIOUS
    <3> QED BY <1>3, <1>4, <3>1, <3>2 DEF HandlersAvoidHeap
  <2>2. m \in k + 1 .. l - 1 /\ m \in 1 .. Depth
    BY <1>1, <1>3, <1>4
  <2> QED BY <1>2, <2>1, <2>2
<1>5. CASE l <= Depth
  BY <1>1, <1>2, <1>4, <1>5
<1>6. CASE l = Depth + 1
  <2>1. g.fn = "print" /\ f.fn = stack[Depth].fn /\ f.v = stack[Depth].v
    BY <1>1, <1>6 DEF Pushes
  <2>2. CASE f.fn = "irq" /\ interruption_handlers[f.v] = nullptr
    <3>1. Depth \in k + 1 .. l - 1
      BY <1>1, <1>3, <1>6
    <3>2. stack'[Depth].fn = "irq" /\ interruption_handlers[stack'[Depth].v] = nullptr
      BY <2>2 DEF Pushes
    <3> QED BY <3>1, <3>2
  <2>3. CASE f.fn \in {"start", "panic", "debug", "isr"}
    <3>1. k + 1 < Depth
      BY <1>1, <1>3, <2>1, <2>3
    <3>2. stack[Depth].fn # "start"
      BY <1>1, <1>3 DEF StartIsFirst
    <3>3. PICK i \in {Depth - 1, Depth} : i > k + 1 /\ stack[i].fn = "isr"
      <4>1. CASE f.fn = "isr"
        BY <1>1, <2>1, <3>1, <4>1
      <4>2. CASE f.fn \in {"panic", "debug"}
        <5>1. stack[Depth - 1].fn = "isr"
          BY <1>1, <1>3, <2>1, <4>2 DEF PrintCalled, Caller
        <5>2. Depth - 1 > k + 1
          BY <1>1, <1>3, <3>1, <5>1
        <5> QED BY <5>1, <5>2
      <4> QED BY <2>1, <2>3, <3>2, <4>1, <4>2
    <3>4. i \in 2 .. Depth /\ i - 1 \in 2 .. Depth /\ i - 1 >= k + 1
      BY <1>1, <1>3, <3>1, <3>3
    <3>5. stack[i - 1].fn \in {"start", "print"} /\ stack[i - 1].fn # "start"
      BY <3>3, <3>4 DEF IsrCalled, Caller, StartIsFirst
    <3>6. i - 1 > k + 1
      BY <1>1, <1>3, <3>4, <3>5
    <3> QED BY <1>1, <1>4, <1>6, <3>4, <3>5, <3>6
  <2> QED BY <2>1, <2>2, <2>3 DEF MayCall
<1> QED BY <1>1, <1>5, <1>6

(* Calling keeps the records in order if the caller may call that code,    *)
(* and a screen handler is entered with interrupts disabled.               *)
LEMMA PushKeeps ==
  ASSUME stack \in Seq(Frames), StackInv, NEW f \in Frames, NEW g \in Frames,
         Pushes(f, g), UNCHANGED interruption_handlers,
         f.fn = Top.fn, f.v = Top.v, f.at # "screen", ~Active(f), MayCall(f, g),
         Active(g) => ~interrupts'
  PROVE  StackInv'
<1> USE DEF StackInv
<1>1. Depth \in Nat /\ Depth > 0 /\ Top = stack[Depth] /\ Depth' = Depth + 1
  BY TopType DEF StartIsFirst, Pushes, Depth
<1>2. \A k \in 1 .. Depth : stack'[k].fn = stack[k].fn /\ stack'[k].v = stack[k].v
  BY <1>1 DEF Pushes
<1>3. StartIsFirst'
  BY <1>1, <1>2 DEF StartIsFirst, Pushes, MayCall
<1>4. ASSUME NEW k \in 2 .. Depth
      PROVE  /\ stack'[k].fn = stack[k].fn /\ stack'[k].v = stack[k].v
             /\ stack'[k - 1].fn = stack[k - 1].fn /\ stack'[k - 1].v = stack[k - 1].v
  BY <1>1, <1>2
<1>5. stack'[Depth + 1] = g /\ stack'[Depth] = f /\ Depth + 1 - 1 = Depth
  BY <1>1 DEF Pushes
<1>6. IsrCalled'
  <2> SUFFICES ASSUME NEW k \in 2 .. Depth + 1
               PROVE  /\ stack'[k].fn = "isr" => stack'[k - 1].fn \in {"start", "print"}
                      /\ stack'[k].fn = "irq" => stack'[k].v \in IrqVectors
    BY <1>1 DEF IsrCalled, Caller
  <2>1. CASE k \in 2 .. Depth
    BY <1>4, <2>1 DEF IsrCalled, Caller
  <2>2. CASE k = Depth + 1
    <3>1. stack'[k] = g /\ stack'[k - 1] = f
      BY <1>1, <1>5, <2>2
    <3> QED BY <3>1 DEF MayCall
  <2> QED BY <1>1, <2>1, <2>2
<1>7. PrintCalled'
  <2> SUFFICES ASSUME NEW k \in 2 .. Depth + 1
               PROVE  /\ stack'[k].fn = "print" =>
                           \/ stack'[k - 1].fn \in {"start", "panic", "debug", "isr"}
                           \/ /\ stack'[k - 1].fn = "irq"
                              /\ interruption_handlers[stack'[k - 1].v] = nullptr
                      /\ stack'[k].fn \in {"panic", "debug"} => stack'[k - 1].fn = "isr"
    BY <1>1 DEF PrintCalled, Caller
  <2>1. CASE k \in 2 .. Depth
    BY <1>4, <2>1 DEF PrintCalled, Caller
  <2>2. CASE k = Depth + 1
    <3>1. stack'[k] = g /\ stack'[k - 1] = f
      BY <1>1, <1>5, <2>2
    <3> QED BY <3>1 DEF MayCall
  <2> QED BY <1>1, <2>1, <2>2
<1>8. ScreenOnTop'
  <2> SUFFICES ASSUME NEW k \in 1 .. Depth + 1
               PROVE  /\ stack'[k].at = "screen" => stack'[k].fn = "isr" /\ stack'[k].v = Screen
                      /\ Active(stack'[k]) => k = Depth + 1 /\ ~interrupts'
    BY <1>1 DEF ScreenOnTop, Active
  <2>1. CASE k \in 1 .. Depth - 1
    BY <1>1, <2>1 DEF ScreenOnTop, Active, Pushes
  <2>2. CASE k = Depth
    BY <1>5, <2>2
  <2>3. CASE k = Depth + 1
    BY <1>5, <2>3 DEF MayCall
  <2> QED BY <1>1, <2>1, <2>2, <2>3
<1>9. HandlersAvoidHeap'
  BY PushAvoidsHeap
<1> QED BY <1>3, <1>6, <1>7, <1>8, <1>9

(***************************************************************************)
(* The steps of the kernel                                                 *)
(***************************************************************************)

(* What the invariant says of the code that is running. *)
LEMMA Running ==
  ASSUME InterruptsInv
  PROVE  /\ stack \in Seq(Frames) /\ Depth \in Nat /\ Depth > 0 /\ StackInv
         /\ Top \in Frames /\ Top = stack[Depth]
         /\ Top.fn = "start" <=> Depth = 1
         /\ Top.fn = "irq" => Top.v \in IrqVectors
         /\ Top.at = "screen" => Top.fn = "isr" /\ Top.v = Screen
         /\ Active(Top) => ~interrupts
<1> USE DEF InterruptsInv
<1>1. stack \in Seq(Frames) /\ Depth > 0 /\ StackInv
  BY DEF TypeOK, StackInv, StartIsFirst
<1>2. Depth \in Nat /\ Top \in Frames /\ Top = stack[Depth]
  BY <1>1, TopType
<1>3. Top.fn = "start" <=> Depth = 1
  BY <1>1, <1>2 DEF StartIsFirst
<1>4. Top.fn = "irq" => Top.v \in IrqVectors
  BY <1>1, <1>2, <1>3 DEF IsrCalled, StartIsFirst
<1>5. /\ Top.at = "screen" => Top.fn = "isr" /\ Top.v = Screen
      /\ Active(Top) => ~interrupts
  BY <1>1, <1>2 DEF ScreenOnTop, Active
<1> QED BY <1>1, <1>2, <1>3, <1>4, <1>5

(* A record as the stubs and the functions make it. *)
LEMMA FrameType ==
  ASSUME NEW fn \in {"start", "print", "isr", "irq", "panic", "debug"},
         NEW at \in {"run", "format", "call", "free", "enter", "dispatch", "screen", "return"},
         NEW v \in Vectors, NEW left \in 0 .. ReportLines + DebugLines, NEW flag \in BOOLEAN
  PROVE  /\ Frame(fn, at, v, left, flag) \in Frames
         /\ Frame(fn, at, v, left, flag).fn = fn
         /\ Frame(fn, at, v, left, flag).at = at
         /\ Frame(fn, at, v, left, flag).v = v
BY DEF Frame, Frames

(* print_formatted starts by formatting. *)
LEMMA PrintFrameType ==
  PrintFrame \in Frames /\ PrintFrame.fn = "print" /\ PrintFrame.at = "format"
<1>1. 0 \in Vectors /\ 0 \in 0 .. ReportLines + DebugLines
  BY InterruptsAssumption DEF Vectors
<1> QED BY <1>1 DEF PrintFrame, Frame, Frames

(* The running record at another place. *)
LEMMA TopAt ==
  ASSUME Top \in Frames,
         NEW at \in {"run", "format", "call", "free", "enter", "dispatch", "screen", "return"}
  PROVE  /\ [Top EXCEPT !.at = at] \in Frames
         /\ [Top EXCEPT !.at = at].fn = Top.fn
         /\ [Top EXCEPT !.at = at].v = Top.v
         /\ [Top EXCEPT !.at = at].at = at
BY DEF Frames

(* A step that leaves _start alone keeps InterruptsInv if it keeps the     *)
(* types and the order of the records, and happens on a booted screen.     *)
LEMMA Ordinary ==
  ASSUME InterruptsInv, UNCHANGED boot, TypeOK', StackInv',
         Depth > 1 \/ (QuietBoot => interruption_handlers[Screen] # nullptr)
  PROVE  InterruptsInv'
<1> USE DEF InterruptsInv, boot
<1>1. OnlyInt48' /\ LineHandlers' /\ ScreenRegistered'
  BY DEF OnlyInt48, LineHandlers, ScreenRegistered
<1>2. QuietBoot => interruption_handlers[Screen] # nullptr
  BY Running DEF QuietUntilScreen
<1>3. QuietUntilScreen'
  BY <1>2 DEF QuietUntilScreen
<1> QED BY <1>1, <1>3 DEF StackInv

(* A step of the running function to another place. *)
LEMMA ContinueKeeps ==
  ASSUME InterruptsInv, UNCHANGED <<boot, pending>>, interrupts' \in BOOLEAN,
         master' \subseteq 32 .. 39, slave' \subseteq 40 .. 47,
         reported' \in Nat,
         NEW at \in {"run", "format", "call", "free", "enter", "dispatch", "screen", "return"},
         Continue(at), Top.fn # "start",
         at = "screen" => Top.fn = "isr" /\ Top.v = Screen,
         at # "return" => Top.at # "return" /\ UNCHANGED interrupts
  PROVE  InterruptsInv'
<1> DEFINE f == [Top EXCEPT !.at = at]
<1>1. /\ stack \in Seq(Frames) /\ Depth \in Nat /\ Depth > 0 /\ StackInv
      /\ Top \in Frames /\ Depth # 1
  BY Running
<1>2. f \in Frames /\ f.fn = Top.fn /\ f.v = Top.v /\ f.at = at
  BY <1>1, TopAt
<1>3. Replaces(f)
  BY <1>1, <1>2, ReplaceIs DEF Continue
<1>4. Active(f) => Active(Top) /\ UNCHANGED interrupts
  BY <1>2 DEF Active
<1> HIDE DEF f
<1>5. UNCHANGED interruption_handlers
  BY DEF boot
<1>6. StackInv'
  BY <1>1, <1>2, <1>3, <1>4, <1>5, ReplaceKeeps
<1>7. TypeOK'
  BY <1>3 DEF InterruptsInv, TypeOK, Replaces, boot
<1> QED BY <1>1, <1>6, <1>7, Ordinary

(* A call: the running function goes on at another place afterwards.       *)
LEMMA CallKeeps ==
  ASSUME InterruptsInv, UNCHANGED <<boot, pics, history>>, interrupts' \in BOOLEAN,
         NEW f \in Frames, NEW g \in Frames, Pushes(f, g),
         f.fn = Top.fn, f.v = Top.v, f.at # "screen", ~Active(f), MayCall(f, g),
         Active(g) => ~interrupts',
         Depth > 1 \/ (QuietBoot => interruption_handlers[Screen] # nullptr)
  PROVE  InterruptsInv'
<1>1. stack \in Seq(Frames) /\ StackInv
  BY Running
<1>2. UNCHANGED interruption_handlers
  BY DEF boot
<1>3. StackInv'
  BY <1>1, <1>2, PushKeeps
<1>4. TypeOK'
  BY DEF InterruptsInv, TypeOK, Pushes, boot, pics, history
<1> QED BY <1>3, <1>4, Ordinary

(* Any code but _start may return. *)
LEMMA ReturnKeeps ==
  ASSUME InterruptsInv, UNCHANGED <<boot, pics, history>>, interrupts' \in BOOLEAN,
         stack' = Rest, Top.fn # "start"
  PROVE  InterruptsInv'
<1>1. stack \in Seq(Frames) /\ Depth \in Nat /\ Depth > 1 /\ StackInv
  BY Running
<1>2. Pops
  BY <1>1, PopIs
<1>3. UNCHANGED interruption_handlers
  BY DEF boot
<1>4. StackInv'
  BY <1>1, <1>2, <1>3, PopKeeps
<1>5. TypeOK'
  BY <1>2 DEF InterruptsInv, TypeOK, Pops, boot, pics, history
<1> QED BY <1>1, <1>4, <1>5, Ordinary

(***************************************************************************)
(* One lemma per group of actions                                          *)
(***************************************************************************)

(* print_formatted: formatting, the system call and the release. *)
LEMMA PrintSteps ==
  ASSUME InterruptsInv, PrintFormat \/ PrintCall \/ PrintFree
  PROVE  InterruptsInv'
<1>1. interrupts \in BOOLEAN /\ Top \in Frames
  BY Running DEF InterruptsInv, TypeOK
<1>2. CASE PrintFormat
  BY <1>2, ContinueKeeps DEF PrintFormat, At, InterruptsInv, TypeOK, boot, pics, history
<1>3. CASE PrintCall
  <2> DEFINE f == [Top EXCEPT !.at = "free"]
             g == Frame("isr", "enter", Screen, 0, interrupts)
  <2>1. /\ Top.fn = "print" /\ Top.at = "call"
        /\ stack' = Append(Append(Rest, f), g) /\ interrupts' = FALSE
        /\ UNCHANGED <<boot, pics, history>>
    BY <1>3 DEF PrintCall, At, Gate, IntNo, OwnStub, IrqVectors, Screen
  <2>2. f \in Frames /\ f.fn = "print" /\ f.v = Top.v /\ f.at = "free"
    BY <1>1, <2>1, TopAt
  <2>3. Screen \in Vectors /\ 0 \in 0 .. ReportLines + DebugLines
    BY InterruptsAssumption DEF Screen, Vectors
  <2>4. g \in Frames /\ g.fn = "isr" /\ g.at = "enter"
    BY <1>1, <2>3, FrameType
  <2> HIDE DEF f, g
  <2>5. Pushes(f, g)
    BY <2>1, <2>2, <2>4, Running, PushIs
  <2>6. MayCall(f, g) /\ ~Active(f)
    BY <2>2, <2>4 DEF MayCall, Active
  <2>7. Depth > 1
    BY <2>1, Running
  <2> QED BY <2>1, <2>2, <2>4, <2>5, <2>6, <2>7, CallKeeps
<1>4. CASE PrintFree
  BY <1>1, <1>4, ReturnKeeps DEF PrintFree, At
<1> QED BY <1>2, <1>3, <1>4

(* Call, with a record that prints. *)
LEMMA CallPrintKeeps ==
  ASSUME InterruptsInv, UNCHANGED <<boot, interrupts, pics, history>>,
         NEW at \in {"run", "dispatch", "return"}, Call(at, PrintFrame),
         Depth > 1,
         \/ Top.fn \in {"panic", "debug", "isr"}
         \/ Top.fn = "irq" /\ interruption_handlers[Top.v] = nullptr,
         Top.fn = "isr" /\ Top.v = Screen => at = "return"
  PROVE  InterruptsInv'
<1> DEFINE f == [Top EXCEPT !.at = at]
<1>1. interrupts' \in BOOLEAN /\ Top \in Frames /\ stack' = Rest \o <<f, PrintFrame>>
  BY Running DEF InterruptsInv, TypeOK, Call
<1>2. f \in Frames /\ f.fn = Top.fn /\ f.v = Top.v /\ f.at = at
  BY <1>1, TopAt
<1> HIDE DEF f
<1>3. Pushes(f, PrintFrame)
  BY <1>1, <1>2, Running, PushIs, PrintFrameType
<1>4. MayCall(f, PrintFrame) /\ ~Active(f) /\ ~Active(PrintFrame)
  BY <1>2, PrintFrameType DEF MayCall, Active
<1> QED BY <1>1, <1>2, <1>3, <1>4, PrintFrameType, CallKeeps

(* Call, with a record that reports. *)
LEMMA CallReportKeeps ==
  ASSUME InterruptsInv, UNCHANGED <<boot, interrupts, pics, history>>,
         NEW g \in Frames, g.fn \in {"panic", "debug"}, g.at = "run",
         Call("return", g), Depth > 1, Top.fn = "isr"
  PROVE  InterruptsInv'
<1> DEFINE f == [Top EXCEPT !.at = "return"]
<1>1. interrupts' \in BOOLEAN /\ Top \in Frames /\ stack' = Rest \o <<f, g>>
  BY Running DEF InterruptsInv, TypeOK, Call
<1>2. f \in Frames /\ f.fn = Top.fn /\ f.v = Top.v /\ f.at = "return"
  BY <1>1, TopAt
<1> HIDE DEF f
<1>3. Pushes(f, g)
  BY <1>1, <1>2, Running, PushIs
<1>4. MayCall(f, g) /\ ~Active(f) /\ ~Active(g)
  BY <1>2 DEF MayCall, Active
<1> QED BY <1>1, <1>2, <1>3, <1>4, CallKeeps

(* The records that PANIC and debug start with. *)
LEMMA ReportFrames ==
  /\ Frame("panic", "run", 0, ReportLines, FALSE) \in Frames
  /\ Frame("panic", "run", 0, ReportLines, FALSE).fn = "panic"
  /\ Frame("panic", "run", 0, ReportLines, FALSE).at = "run"
  /\ Frame("debug", "run", 0, DebugLines, FALSE) \in Frames
  /\ Frame("debug", "run", 0, DebugLines, FALSE).fn = "debug"
  /\ Frame("debug", "run", 0, DebugLines, FALSE).at = "run"
<1>1. /\ 0 \in Vectors /\ ReportLines \in 0 .. ReportLines + DebugLines
      /\ DebugLines \in 0 .. ReportLines + DebugLines
  BY InterruptsAssumption DEF Vectors
<1> QED BY <1>1 DEF Frame, Frames

(* isr_handler announces an undefined interrupt and goes on to the         *)
(* callback.                                                               *)
LEMMA IsrEnterPreserves ==
  ASSUME InterruptsInv, IsrEnter
  PROVE  InterruptsInv'
<1>1. /\ Top.fn = "isr" /\ Top.at = "enter"
      /\ UNCHANGED <<boot, interrupts, pics, history>> /\ Depth > 1
  BY Running DEF IsrEnter, At
<1>2. CASE Top.v = DEFAULT_IRS
  <2>1. Call("dispatch", PrintFrame) /\ Top.v # Screen
    BY <1>2 DEF IsrEnter, DEFAULT_IRS, Screen
  <2> QED BY <1>1, <2>1, CallPrintKeeps
<1>3. CASE Top.v # DEFAULT_IRS
  <2>1. Continue("dispatch")
    BY <1>3 DEF IsrEnter
  <2> QED BY <1>1, <2>1, ContinueKeeps DEF InterruptsInv, TypeOK, boot, pics, history
<1> QED BY <1>2, <1>3

(* irq_handler ends the interrupt at the controllers before the callback. *)
LEMMA IrqEnterPreserves ==
  ASSUME InterruptsInv, IrqEnter
  PROVE  InterruptsInv'
<1>1. /\ Top.fn = "irq" /\ Top.at = "enter" /\ Continue("dispatch")
      /\ UNCHANGED <<boot, interrupts, pending, history>>
  BY DEF IrqEnter, At
<1>2. master' \subseteq 32 .. 39 /\ slave' \subseteq 40 .. 47
  BY DEF IrqEnter, Ended, InterruptsInv, TypeOK
<1> QED BY <1>1, <1>2, ContinueKeeps DEF InterruptsInv, TypeOK, boot, history

(* A vector without a callback: a panic for an interrupt, a message for a  *)
(* hardware one.                                                           *)
LEMMA UnhandledPreserves ==
  ASSUME InterruptsInv, Unhandled
  PROVE  InterruptsInv'
<1>1. /\ Top.fn \in {"isr", "irq"} /\ interruption_handlers[Top.v] = nullptr /\ Depth > 1
      /\ UNCHANGED <<boot, interrupts, pics, history>>
  BY Running DEF Unhandled, Dispatching, Handler
<1>2. CASE Top.fn = "irq"
  BY <1>1, <1>2, CallPrintKeeps DEF Unhandled
<1>3. CASE Top.fn = "isr"
  BY <1>1, <1>3, CallReportKeeps, ReportFrames DEF Unhandled
<1> QED BY <1>1, <1>2, <1>3

(* The callbacks that print nothing: timer, screen and the idle ones. *)
LEMMA CallbackSteps ==
  ASSUME InterruptsInv,
         TimerCallback \/ ScreenCallback \/ ScreenWritten \/ IdleCallback
  PROVE  InterruptsInv'
<1>1. /\ interrupts \in BOOLEAN /\ tasking \in BOOLEAN /\ reported \in Nat
      /\ master \subseteq 32 .. 39 /\ slave \subseteq 40 .. 47
  BY DEF InterruptsInv, TypeOK
<1>2. CASE TimerCallback
  <2>1. interrupts' \in BOOLEAN
    BY <1>1, <1>2 DEF TimerCallback
  <2> QED BY <1>1, <1>2, <2>1, ContinueKeeps
          DEF TimerCallback, Dispatching, boot, pics, history
<1>3. CASE ScreenCallback
  <2>1. Top.v \in Vectors /\ Top.fn \in {"isr", "irq"} /\ Top.at = "dispatch"
    BY <1>3, Running DEF ScreenCallback, Dispatching, Frames
  <2>2. Top.v = Screen
    BY <1>3, <2>1 DEF InterruptsInv, OnlyInt48, ScreenCallback, Handler
  <2>3. Top.fn = "isr"
    BY <2>1, <2>2, Running DEF Screen, IrqVectors
  <2> QED BY <1>1, <1>3, <2>1, <2>2, <2>3, ContinueKeeps
          DEF ScreenCallback, boot, pics, history
<1>4. CASE ScreenWritten
  <2>1. reported' \in Nat /\ Top.fn # "start"
    BY <1>1, <1>4, Running DEF ScreenWritten
  <2> QED BY <1>1, <1>4, <2>1, ContinueKeeps DEF ScreenWritten, boot, pics
<1>5. CASE IdleCallback
  BY <1>1, <1>5, ContinueKeeps DEF IdleCallback, Dispatching, boot, pics, history
<1> QED BY <1>2, <1>3, <1>4, <1>5

(* debug and page_fault are never the callback of a hardware interrupt. *)
LEMMA PrintingCallbackPreserves ==
  ASSUME InterruptsInv, PrintingCallback
  PROVE  InterruptsInv'
<1>1. /\ Top.fn \in {"isr", "irq"} /\ Depth > 1
      /\ interruption_handlers[Top.v] \in {"debug", "page_fault"}
      /\ UNCHANGED <<boot, interrupts, pics, history>>
  BY Running DEF PrintingCallback, Dispatching, Handler
<1>2. Top.fn = "isr"
  BY <1>1, Running DEF InterruptsInv, LineHandlers
<1> QED BY <1>1, <1>2, CallReportKeeps, ReportFrames DEF PrintingCallback

(* debug and panic print line by line; handlers return with iret. *)
LEMMA ReportSteps ==
  ASSUME InterruptsInv, PrintLine \/ DebugReturn \/ InterruptReturn
  PROVE  InterruptsInv'
<1>1. interrupts \in BOOLEAN /\ Top \in Frames
  BY Running DEF InterruptsInv, TypeOK
<1>2. CASE PrintLine
  <2> DEFINE f == [Top EXCEPT !.left = @ - 1]
  <2>1. /\ Top.fn \in {"debug", "panic"} /\ Top.left > 0
        /\ stack' = Rest \o <<f, PrintFrame>>
        /\ UNCHANGED <<boot, interrupts, pics, history>>
    BY <1>2 DEF PrintLine
  <2>2. Top.left - 1 \in 0 .. ReportLines + DebugLines
    BY <1>1, <2>1, InterruptsAssumption DEF Frames
  <2>3. f \in Frames /\ f.fn = Top.fn /\ f.v = Top.v /\ f.at = Top.at
    BY <1>1, <2>2 DEF Frames
  <2>4. f.at # "screen"
    BY <2>1, <2>3, Running
  <2> HIDE DEF f
  <2>5. Pushes(f, PrintFrame)
    BY <2>1, <2>3, Running, PushIs, PrintFrameType
  <2>6. MayCall(f, PrintFrame) /\ ~Active(f) /\ ~Active(PrintFrame) /\ Depth > 1
    BY <2>1, <2>3, PrintFrameType, Running DEF MayCall, Active
  <2> QED BY <1>1, <2>1, <2>3, <2>4, <2>5, <2>6, PrintFrameType, CallKeeps
<1>3. CASE DebugReturn
  BY <1>1, <1>3, ReturnKeeps DEF DebugReturn
<1>4. CASE InterruptReturn
  <2>1. Top.flag \in BOOLEAN
    BY <1>1 DEF Frames
  <2> QED BY <1>4, <2>1, ReturnKeeps DEF InterruptReturn
<1> QED BY <1>2, <1>3, <1>4

(***************************************************************************)
(* Interrupts and faults                                                   *)
(***************************************************************************)

(* A device that fires only becomes pending. *)
LEMMA RaisePreserves ==
  ASSUME InterruptsInv, NEW v \in Lines, Raise(v)
  PROVE  InterruptsInv'
<1>1. UNCHANGED <<boot, interrupts, stack, master, slave, history>> /\ QuietEnough
  BY DEF Raise
<1>2. TypeOK'
  BY <1>1 DEF Raise, InterruptsInv, TypeOK, boot, history
<1>3. UNCHANGED Depth /\ UNCHANGED interruption_handlers
  BY <1>1 DEF Depth, boot
<1>4. StackInv'
  BY <1>1, <1>3 DEF InterruptsInv, StackInv, StartIsFirst, IsrCalled, PrintCalled, Caller,
                    ScreenOnTop, HandlersAvoidHeap
<1> QED BY <1>1, <1>2, <1>4, Ordinary DEF QuietEnough

(* The record that a gate pushes, for a vector with a stub of its own or   *)
(* for one that shares isr32.                                              *)
LEMMA GateFrame ==
  ASSUME interrupts \in BOOLEAN, NEW v \in Vectors, NEW kind \in {"isr", "irq"}
  PROVE  /\ Frame(kind, "enter", IntNo(v), 0, interrupts) \in Frames
         /\ Frame(kind, "enter", IntNo(v), 0, interrupts).fn = kind
         /\ Frame(kind, "enter", IntNo(v), 0, interrupts).at = "enter"
         /\ Frame(kind, "enter", IntNo(v), 0, interrupts).v = IntNo(v)
<1>1. IntNo(v) \in Vectors /\ 0 \in 0 .. ReportLines + DebugLines
  BY InterruptsAssumption DEF IntNo, DEFAULT_IRS, Vectors
<1> QED BY <1>1, FrameType

(* The CPU takes a line only while interrupts are enabled, so never in the *)
(* screen driver or on the way to it.                                      *)
LEMMA DeliverPreserves ==
  ASSUME InterruptsInv, NEW v \in Lines, Deliver(v)
  PROVE  InterruptsInv'
<1> DEFINE g == Frame("irq", "enter", IntNo(v), 0, interrupts)
<1>1. /\ interrupts = TRUE /\ v \in pending /\ stack' = Append(stack, g)
      /\ interrupts' = FALSE /\ UNCHANGED <<boot, history>>
  BY DEF Deliver, Gate, InterruptsInv, TypeOK
<1>2. v \in IrqVectors /\ v \in Vectors /\ IntNo(v) = v
  BY InterruptsAssumption DEF IrqVectors, IntNo, OwnStub, Vectors
<1>3. g \in Frames /\ g.fn = "irq" /\ g.at = "enter" /\ g.v = v
  BY <1>1, <1>2, GateFrame
<1> HIDE DEF g
<1>4. Pushes(Top, g)
  BY <1>1, <1>3, Running, PushOnTop
<1>5. ~Active(Top) /\ Top.at # "screen" /\ Top \in Frames
  BY <1>1, Running DEF Active
<1>6. MayCall(Top, g) /\ ~Active(g)
  BY <1>2, <1>3 DEF MayCall, Active
<1>7. UNCHANGED interruption_handlers
  BY <1>1 DEF boot
<1>8. StackInv'
  BY <1>3, <1>4, <1>5, <1>6, <1>7, Running, PushKeeps
<1>9. master' \subseteq 32 .. 39 /\ slave' \subseteq 40 .. 47 /\ pending' \subseteq Lines
  BY <1>2 DEF Deliver, InterruptsInv, TypeOK, Cascade, IrqVectors
<1>10. TypeOK'
  BY <1>1, <1>4, <1>9 DEF InterruptsInv, TypeOK, Pushes, boot, history
<1>11. QuietBoot => interruption_handlers[Screen] # nullptr
  BY <1>1 DEF InterruptsInv, QuietUntilScreen
<1> QED BY <1>1, <1>8, <1>10, <1>11, Ordinary

(* int n of the first task, and its faults. *)
LEMMA TrapPreserves ==
  ASSUME InterruptsInv, NEW v \in Vectors, Top.fn = "start", Gate(stack, v, "isr"),
         UNCHANGED <<boot, pics, history>>,
         QuietBoot => interruption_handlers[Screen] # nullptr
  PROVE  InterruptsInv'
<1> DEFINE g == Frame("isr", "enter", IntNo(v), 0, interrupts)
<1>1. stack' = Append(stack, g) /\ interrupts' = FALSE /\ interrupts \in BOOLEAN
  BY DEF Gate, InterruptsInv, TypeOK
<1>2. g \in Frames /\ g.fn = "isr" /\ g.at = "enter"
  BY <1>1, GateFrame
<1> HIDE DEF g
<1>3. Pushes(Top, g)
  BY <1>1, <1>2, Running, PushOnTop
<1>4. ~Active(Top) /\ Top.at # "screen" /\ Top \in Frames
  BY Running DEF Active
<1>5. MayCall(Top, g)
  BY <1>2 DEF MayCall
<1> QED BY <1>1, <1>2, <1>3, <1>4, <1>5, CallKeeps

(* An int instruction of running code. *)
LEMMA RaiseIntPreserves ==
  ASSUME InterruptsInv, NEW v \in Ints, RaiseInt(v)
  PROVE  InterruptsInv'
<1>1. v \in Vectors
  BY InterruptsAssumption DEF Vectors
<1>2. interruption_handlers[Screen] # nullptr
  <2>1. Len(BootOrder) = 10
    BY DEF BootOrder
  <2>2. stage > 3
    BY <2>1 DEF RaiseInt, Booted, InterruptsInv, TypeOK
  <2> QED BY <2>2 DEF InterruptsInv, ScreenRegistered
<1> QED BY <1>1, <1>2, TrapPreserves DEF RaiseInt

(* A fault of running code, where the boot has got far enough. *)
LEMMA FaultPreserves ==
  ASSUME InterruptsInv, NEW v \in Faults, Fault(v)
  PROVE  InterruptsInv'
<1>1. v \in Vectors
  BY InterruptsAssumption DEF Vectors
<1> QED BY <1>1, TrapPreserves DEF Fault, QuietEnough

(***************************************************************************)
(* _start                                                                  *)
(***************************************************************************)

(* What the s-th step of _start does: the timer's handler comes before the *)
(* screen's, the screen's before the first message.                        *)
BootStep(s) ==
  LET b == BootOrder[s] IN
    /\ b.op = "set" =>
         /\ s > 1 /\ b.n \in Vectors /\ b.h \in Handlers \ {nullptr}
         /\ b.h = "screen_callback" <=> b.n = Screen
         /\ b.n \in IrqVectors => b.h \notin {"debug", "page_fault"}
         /\ b.n = 32 <=> s = 2
         /\ b.n = Screen <=> s = 3
    /\ b.op = "print" => s > 4
    /\ b.op = "init_interruptions" <=> s = 1
    /\ b.op = "initialise_tasking" <=> s = 9

(* The list of steps is what BootStep says. *)
LEMMA BootSteps ==
  Len(BootOrder) = 10 /\ \A s \in 1 .. 10 : BootStep(s)
<1>1. Len(BootOrder) = 10
  BY DEF BootOrder
<1>2. /\ BootStep(1) /\ BootStep(2) /\ BootStep(3) /\ BootStep(4) /\ BootStep(5)
      /\ BootStep(6) /\ BootStep(7) /\ BootStep(8) /\ BootStep(9) /\ BootStep(10)
  <2> USE DEF BootStep, BootOrder, Set, Do, Screen, Vectors, Handlers, nullptr, IrqVectors
  <2>1. BootStep(1) /\ BootStep(2)
    OBVIOUS
  <2>2. BootStep(3) /\ BootStep(4)
    OBVIOUS
  <2>3. BootStep(5) /\ BootStep(6)
    OBVIOUS
  <2>4. BootStep(7) /\ BootStep(8)
    OBVIOUS
  <2>5. BootStep(9) /\ BootStep(10)
    OBVIOUS
  <2> HIDE DEF BootStep
  <2> QED BY <2>1, <2>2, <2>3, <2>4, <2>5
<1>3. \A s \in 1 .. 10 : s \in {1, 2, 3, 4, 5, 6, 7, 8, 9, 10}
  OBVIOUS
<1> QED BY <1>1, <1>2, <1>3

(* The record of _start alone, or with its first print. *)
LEMMA BootStack ==
  ASSUME InterruptsInv, Top.fn = "start",
         UNCHANGED stack \/ Call("run", PrintFrame)
  PROVE  StackInv' /\ stack' \in Seq(Frames)
<1> DEFINE f == [Top EXCEPT !.at = "run"]
<1>1. stack \in Seq(Frames) /\ Depth = 1 /\ Depth > 0 /\ Top \in Frames /\ Top = stack[1]
  BY Running
<1>2. f \in Frames /\ f.fn = "start" /\ f.at = "run"
  BY <1>1, TopAt
<1>3. CASE UNCHANGED stack
  <2>1. Depth' = 1 /\ stack'[1] = Top
    BY <1>1, <1>3 DEF Depth
  <2>2. Top.at # "screen"
    BY Running
  <2>3. StartIsFirst'
    BY <1>1, <2>1 DEF StartIsFirst
  <2>4. IsrCalled' /\ PrintCalled'
    BY <2>1 DEF IsrCalled, PrintCalled
  <2>5. ScreenOnTop'
    BY <2>1, <2>2 DEF ScreenOnTop
  <2>6. HandlersAvoidHeap'
    BY <2>1 DEF HandlersAvoidHeap
  <2> QED BY <1>1, <1>3, <2>3, <2>4, <2>5, <2>6 DEF StackInv
<1>4. CASE Call("run", PrintFrame)
  <2>1. stack' = Rest \o <<f, PrintFrame>>
    BY <1>4, CallIs
  <2> HIDE DEF f
  <2>2. Pushes(f, PrintFrame)
    BY <1>1, <1>2, <2>1, PushIs, PrintFrameType
  <2>3. /\ Depth' = 2 /\ stack'[1] = f /\ stack'[2] = PrintFrame
        /\ stack' \in Seq(Frames)
    BY <1>1, <2>2 DEF Pushes, Depth
  <2>4. StartIsFirst' /\ IsrCalled' /\ PrintCalled'
    BY <1>2, <2>3, PrintFrameType DEF StartIsFirst, IsrCalled, PrintCalled, Caller
  <2>5. ScreenOnTop'
    BY <1>2, <2>3, PrintFrameType DEF ScreenOnTop
  <2>6. HandlersAvoidHeap'
    BY <2>3 DEF HandlersAvoidHeap
  <2> QED BY <2>3, <2>4, <2>5, <2>6 DEF StackInv
<1> QED BY <1>3, <1>4

(* The steps of _start. *)
LEMMA BootPreserves ==
  ASSUME InterruptsInv, Boot
  PROVE  InterruptsInv'
<1>1. /\ Top.fn = "start" /\ stage \in 1 .. 10 /\ stage' = stage + 1
      /\ UNCHANGED <<pics, history>> /\ interrupts' \in BOOLEAN /\ tasking' \in BOOLEAN
  <2> USE DEF Boot, InitInterruptions, SetInterruptHandler, PrintMessage, InitialiseTasking
  <2>1. Top.fn = "start" /\ ~Booted /\ stage' = stage + 1 /\ UNCHANGED <<pics, history>>
    OBVIOUS
  <2>2. tasking \in BOOLEAN /\ interrupts \in BOOLEAN
    BY DEF InterruptsInv, TypeOK
  <2>3. interrupts' \in BOOLEAN /\ tasking' \in BOOLEAN
    BY <2>2
  <2>4. stage \in 1 .. 10
    BY <2>1, BootSteps DEF Booted, InterruptsInv, TypeOK
  <2> QED BY <2>1, <2>3, <2>4
<1>2. UNCHANGED stack \/ Call("run", PrintFrame)
  BY DEF Boot, InitInterruptions, SetInterruptHandler, PrintMessage, InitialiseTasking
<1>3. StackInv' /\ stack' \in Seq(Frames)
  BY <1>1, <1>2, BootStack
<1>4. BootStep(stage) /\ Depth = 1 /\ interruption_handlers \in [Vectors -> Handlers]
  BY <1>1, BootSteps, Running DEF InterruptsInv, TypeOK
<1>5. Screen \in Vectors /\ IrqVectors \subseteq Vectors
  BY DEF Screen, IrqVectors, Vectors
<1>6. CASE SetInterruptHandler
  <2> DEFINE n == BootOrder[stage].n
             h == BootOrder[stage].h
  <2>1. /\ BootOrder[stage].op = "set"
        /\ interruption_handlers' = [interruption_handlers EXCEPT ![n] = h]
        /\ n = 32 => UNCHANGED stack
    BY <1>6 DEF SetInterruptHandler, BootOp
  <2>2. /\ n \in Vectors /\ h \in Handlers \ {nullptr}
        /\ h = "screen_callback" <=> n = Screen
        /\ n \in IrqVectors => h \notin {"debug", "page_fault"}
        /\ n = 32 <=> stage = 2
        /\ n = Screen <=> stage = 3
        /\ stage > 1
    BY <1>4, <2>1 DEF BootStep
  <2> HIDE DEF n, h
  <2>3. /\ interruption_handlers' \in [Vectors -> Handlers]
        /\ interruption_handlers'[n] = h
        /\ \A v \in Vectors \ {n} : interruption_handlers'[v] = interruption_handlers[v]
    BY <1>4, <2>1, <2>2
  <2>4. TypeOK'
    BY <1>1, <1>3, <2>3, BootSteps DEF InterruptsInv, TypeOK, pics, history
  <2>5. OnlyInt48' /\ LineHandlers'
    BY <1>5, <2>2, <2>3 DEF InterruptsInv, OnlyInt48, LineHandlers
  <2>6. ScreenRegistered'
    BY <1>1, <1>5, <2>2, <2>3 DEF InterruptsInv, ScreenRegistered
  <2>7. QuietUntilScreen'
    <3>1. interruption_handlers'[Screen] = nullptr => stage = 2
      BY <1>1, <1>5, <2>2, <2>3 DEF InterruptsInv, ScreenRegistered
    <3>2. stage = 2 => Depth' = 1
      BY <1>4, <2>1, <2>2 DEF Depth
    <3>3. interruption_handlers'[Screen] = nullptr => interruption_handlers[Screen] = nullptr
      BY <1>5, <2>2, <2>3
    <3> QED BY <1>1, <3>1, <3>2, <3>3 DEF InterruptsInv, QuietUntilScreen, pics
  <2> QED BY <1>3, <2>4, <2>5, <2>6, <2>7 DEF InterruptsInv, StackInv
<1>7. CASE InitInterruptions \/ PrintMessage \/ InitialiseTasking
  <2>1. UNCHANGED interruption_handlers
    BY <1>7 DEF InitInterruptions, PrintMessage, InitialiseTasking
  <2>2. TypeOK'
    BY <1>1, <1>3, <2>1, BootSteps DEF InterruptsInv, TypeOK, pics, history
  <2>3. OnlyInt48' /\ LineHandlers'
    BY <2>1 DEF InterruptsInv, OnlyInt48, LineHandlers
  <2>4. stage = 1 \/ stage > 3
    BY <1>1, <1>4, <1>7 DEF InitInterruptions, PrintMessage, InitialiseTasking, BootOp, BootStep
  <2>5. ScreenRegistered'
    BY <1>1, <2>1, <2>4 DEF InterruptsInv, ScreenRegistered
  <2>6. QuietUntilScreen'
    <3>1. stage = 1 => UNCHANGED stack
      BY <1>4, <1>7 DEF InitInterruptions, PrintMessage, InitialiseTasking, BootOp, BootStep
    <3>2. stage = 1 => Depth' = 1
      BY <1>4, <3>1 DEF Depth
    <3> QED BY <1>1, <2>1, <2>4, <3>2
            DEF InterruptsInv, QuietUntilScreen, ScreenRegistered, pics
  <2> QED BY <1>3, <2>2, <2>3, <2>5, <2>6 DEF InterruptsInv, StackInv
<1> QED BY <1>6, <1>7 DEF Boot

(***************************************************************************)
(* The invariant and what follows from it                                  *)
(***************************************************************************)

(* When the loader enters the kernel, only _start is there. *)
LEMMA InitHolds == Init => InterruptsInv
<1> SUFFICES ASSUME Init PROVE InterruptsInv
  OBVIOUS
<1> DEFINE f == Frame("start", "run", 0, 0, FALSE)
<1>1. 0 \in Vectors /\ 0 \in 0 .. ReportLines + DebugLines
  BY InterruptsAssumption DEF Vectors
<1>2. f \in Frames /\ f.fn = "start" /\ f.at = "run"
  BY <1>1 DEF Frame, Frames
<1> HIDE DEF f
<1>3. stack = <<f>>
  BY DEF Init, f
<1>4. stack \in Seq(Frames) /\ Depth = 1 /\ stack[1] = f
  BY <1>2, <1>3 DEF Depth
<1>5. /\ stage = 1 /\ interruption_handlers = [v \in Vectors |-> nullptr]
      /\ tasking = FALSE /\ interrupts = FALSE
      /\ pending = {} /\ master = {} /\ slave = {} /\ reported = 0
  BY DEF Init
<1>6. interruption_handlers \in [Vectors -> Handlers]
  BY <1>5 DEF Handlers
<1>7. TypeOK
  <2>1. stage \in 1 .. Len(BootOrder) + 1
    BY <1>5, BootSteps
  <2>2. tasking \in BOOLEAN /\ interrupts \in BOOLEAN
    BY <1>5
  <2>3. /\ pending \subseteq Lines /\ master \subseteq 32 .. 39 /\ slave \subseteq 40 .. 47
        /\ reported \in Nat
    BY <1>5
  <2> QED BY <1>4, <1>6, <2>1, <2>2, <2>3 DEF TypeOK
<1>8. StartIsFirst /\ IsrCalled /\ PrintCalled /\ ScreenOnTop /\ HandlersAvoidHeap
  BY <1>2, <1>4 DEF StartIsFirst, IsrCalled, PrintCalled, ScreenOnTop, HandlersAvoidHeap
<1>9. OnlyInt48 /\ LineHandlers /\ ScreenRegistered
  BY <1>5 DEF OnlyInt48, LineHandlers, ScreenRegistered, nullptr, IrqVectors, Vectors
<1>10. QuietUntilScreen
  BY <1>4, <1>5 DEF QuietUntilScreen
<1> QED BY <1>7, <1>8, <1>9, <1>10 DEF InterruptsInv

(* Every step, and stuttering, keeps the invariant. *)
LEMMA NextPreserves == InterruptsInv /\ [Next]_vars => InterruptsInv'
<1> SUFFICES ASSUME InterruptsInv, [Next]_vars PROVE InterruptsInv'
  OBVIOUS
<1>1. CASE Step
  BY <1>1, BootPreserves, PrintSteps, IsrEnterPreserves, IrqEnterPreserves,
     UnhandledPreserves, CallbackSteps, PrintingCallbackPreserves, ReportSteps DEF Step
<1>2. CASE \E v \in Lines : Raise(v)
  BY <1>2, RaisePreserves
<1>3. CASE \E v \in Lines : Deliver(v)
  BY <1>3, DeliverPreserves
<1>4. CASE \E v \in Ints : RaiseInt(v)
  BY <1>4, RaiseIntPreserves
<1>5. CASE \E v \in Faults : Fault(v)
  BY <1>5, FaultPreserves
<1>6. CASE UNCHANGED vars
  <2>1. UNCHANGED <<stage, interruption_handlers, tasking, interrupts, stack, pending,
                    master, slave, reported>>
    BY <1>6 DEF vars, boot, pics, history
  <2>2. TypeOK'
    BY <2>1 DEF InterruptsInv, TypeOK, Depth
  <2>3. StartIsFirst' /\ IsrCalled' /\ PrintCalled' /\ ScreenOnTop' /\ HandlersAvoidHeap'
    BY <2>1 DEF InterruptsInv, StartIsFirst, IsrCalled, PrintCalled, Caller, ScreenOnTop,
                HandlersAvoidHeap, Depth
  <2>4. OnlyInt48' /\ LineHandlers' /\ ScreenRegistered' /\ QuietUntilScreen'
    BY <2>1 DEF InterruptsInv, OnlyInt48, LineHandlers, ScreenRegistered, QuietUntilScreen,
                Depth
  <2> QED BY <2>2, <2>3, <2>4 DEF InterruptsInv
<1> QED BY <1>1, <1>2, <1>3, <1>4, <1>5, <1>6 DEF Next

(* The order of activation records that the stubs, the handlers and the    *)
(* print macro keep, for every set of lines, vectors and faults.           *)
THEOREM InterruptsInvariance == Spec => []InterruptsInv
BY InitHolds, NextPreserves, PTL DEF Spec

(* Every variable of the dispatcher keeps its type; in particular EOI and  *)
(* delivery keep each line in the register of its own PIC.                 *)
THEOREM InterruptsTypeCorrect == Spec => []TypeOK
<1>1. InterruptsInv => TypeOK
  BY DEF InterruptsInv
<1> QED BY <1>1, InterruptsInvariance, PTL

(* The screen driver is never entered while it runs: only vector 48 leads  *)
(* to it, only print raises 48, and its gate keeps interrupts off until it *)
(* has returned.                                                           *)
THEOREM InterruptsScreenNotReentered == Spec => []ScreenNotReentered
<1>1. InterruptsInv => ScreenNotReentered
  BY DEF InterruptsInv, ScreenOnTop, ScreenNotReentered
<1> QED BY <1>1, InterruptsInvariance, PTL

(* No handler of a registered line allocates while the function that it    *)
(* interrupted may be in the middle of an allocation.                      *)
THEOREM InterruptsAvoidHeap == Spec => []HandlersAvoidHeap
<1>1. InterruptsInv => HandlersAvoidHeap
  BY DEF InterruptsInv
<1> QED BY <1>1, InterruptsInvariance, PTL

(* On a boot during which no line fires and nothing faults before _start   *)
(* has registered the screen, no print ends in a panic of its own.  Without *)
(* QuietBoot the run interrupts_early refutes it.                          *)
THEOREM InterruptsPrintFindsScreen == QuietBoot => (Spec => []PrintFindsScreen)
<1> SUFFICES ASSUME QuietBoot PROVE Spec => []PrintFindsScreen
  OBVIOUS
<1>1. InterruptsInv => PrintFindsScreen
  <2> SUFFICES ASSUME InterruptsInv, Dispatching
               PROVE  interruption_handlers[Screen] # nullptr
    BY DEF PrintFindsScreen
  <2>1. Depth # 1
    BY Running DEF Dispatching
  <2> QED BY <2>1 DEF InterruptsInv, QuietUntilScreen
<1> QED BY <1>1, InterruptsInvariance, PTL

(***************************************************************************)
(* Panics                                                                  *)
(*                                                                         *)
(* Why a panic prints its whole report and halts: PanicInv says that there *)
(* is only one, that nothing interrupts it and how far it has come, and    *)
(* PanicLeft counts the steps it has still to take.                        *)
(***************************************************************************)

(* What runs above the k-th record while it prints a line with interrupts  *)
(* disabled: the print, and the int 48 that it has raised.                 *)
PrintsAbove(k) ==
  /\ ~interrupts /\ Depth <= k + 2
  /\ Depth > k => stack[k + 1].fn = "print"
  /\ Depth = k + 2 => /\ stack[k + 1].at = "free" /\ stack[k + 2].fn = "isr"
                      /\ stack[k + 2].v = Screen /\ ~stack[k + 2].flag

(* An interrupt that _start has caused has not been dispatched yet. *)
Trapped == Depth >= 2 /\ stack[2].fn = "isr" /\ stack[2].at # "return"

(* The line of a report that is on its way to the screen. *)
Unprinted ==
  IF \/ Depth = 4 /\ stack[4].at # "free"
     \/ Depth = 5 /\ stack[5].at # "return" THEN 1 ELSE 0

(* Interrupts that code raises come from _start or from a print. *)
RaisedBy ==
  \A k \in 2 .. Depth :
    stack[k].fn = "isr" => k = 2 \/ (stack[k].v = Screen /\ Caller(k).fn = "print")

(* There is one panic, nothing interrupts it, and what it has printed and  *)
(* what it has left to print are the whole report.                         *)
PanicInv ==
  /\ RaisedBy /\ interruption_handlers[Screen] \in {nullptr, "screen_callback"}
  /\ Trapped => PrintsAbove(2)
  /\ \A k \in 1 .. Depth : stack[k].fn = "panic" =>
       k = 3 /\ PrintsAbove(3) /\ reported + stack[3].left + Unprinted = ReportLines
  /\ ~Panicking => reported = 0

(* Who halts has reported. *)
HaltReported == Halted => reported = ReportLines

(* Steps until a panic halts: eight for each line. *)
PanicLeft ==
  8 * stack[3].left +
    (CASE Depth = 4 /\ stack[4].at = "format" -> 7
       [] Depth = 4 /\ stack[4].at = "call"   -> 6
       [] Depth = 5 /\ stack[5].at = "enter"    -> 5
       [] Depth = 5 /\ stack[5].at = "dispatch" -> 4
       [] Depth = 5 /\ stack[5].at = "screen"   -> 3
       [] Depth = 5 /\ stack[5].at = "return"   -> 2
       [] Depth = 4 /\ stack[4].at = "free"   -> 1
       [] OTHER -> 0)

(* A panic goes on until it halts: devices may fire, but nothing is served *)
(* any more, and every other step takes the report further.                *)
PanicAdvances ==
  Panicking => Panicking' /\ (UNCHANGED stack \/ PanicLeft' < PanicLeft)

(* The three shapes of a step keep what is known of who raised what. *)
LEMMA RaisedReplace ==
  ASSUME Depth \in Nat, Depth > 0, RaisedBy, NEW f, Replaces(f),
         f.fn = Top.fn, f.v = Top.v
  PROVE  RaisedBy' /\ Depth' = Depth
<1>1. Depth' = Depth /\ Top = stack[Depth]
  BY DEF Replaces, Depth, Top
<1>2. \A k \in 1 .. Depth : stack'[k].fn = stack[k].fn /\ stack'[k].v = stack[k].v
  BY <1>1 DEF Replaces
<1>3. \A k \in 2 .. Depth : k \in 1 .. Depth /\ k - 1 \in 1 .. Depth
  OBVIOUS
<1> QED BY <1>1, <1>2, <1>3 DEF RaisedBy, Caller

(* A return. *)
LEMMA RaisedPop ==
  ASSUME Depth \in Nat, Depth > 0, RaisedBy, Pops
  PROVE  RaisedBy' /\ Depth' = Depth - 1
<1>1. Depth' = Depth - 1
  BY DEF Pops, Depth
<1>2. \A k \in 2 .. Depth - 1 : stack'[k] = stack[k] /\ stack'[k - 1] = stack[k - 1]
  BY DEF Pops
<1> QED BY <1>1, <1>2 DEF RaisedBy, Caller

(* A call or a gate. *)
LEMMA RaisedPush ==
  ASSUME Depth \in Nat, Depth > 0, RaisedBy, NEW f, NEW g, Pushes(f, g),
         f.fn = Top.fn, f.v = Top.v,
         g.fn = "isr" => Depth = 1 \/ (g.v = Screen /\ f.fn = "print")
  PROVE  RaisedBy' /\ Depth' = Depth + 1
<1>1. Depth' = Depth + 1 /\ Top = stack[Depth]
  BY DEF Pushes, Depth, Top
<1>2. \A k \in 1 .. Depth : stack'[k].fn = stack[k].fn /\ stack'[k].v = stack[k].v
  BY <1>1 DEF Pushes
<1>3. \A k \in 2 .. Depth : k \in 1 .. Depth /\ k - 1 \in 1 .. Depth
  OBVIOUS
<1>4. stack'[Depth + 1] = g /\ stack'[Depth] = f /\ Depth + 1 - 1 = Depth
  BY DEF Pushes
<1> SUFFICES ASSUME NEW k \in 2 .. Depth + 1, stack'[k].fn = "isr"
             PROVE  k = 2 \/ (stack'[k].v = Screen /\ stack'[k - 1].fn = "print")
  BY <1>1 DEF RaisedBy, Caller
<1>5. CASE k \in 2 .. Depth
  BY <1>2, <1>3, <1>5 DEF RaisedBy, Caller
<1>6. CASE k = Depth + 1
  BY <1>4, <1>6
<1> QED BY <1>5, <1>6

(* Where the stack and the running record move in a step. *)
Moves(d, from, e, to) ==
  Depth = d /\ stack[d].at = from /\ Depth' = e /\ stack'[e].at = to

(* A step of the print above the k-th record, or of its int 48. *)
PrintGoesOn(k) ==
  /\ PrintsAbove(k)' /\ RaisedBy' /\ UNCHANGED interruption_handlers
  /\ \A j \in 1 .. k : stack'[j] = stack[j]
  /\ \/ /\ UNCHANGED reported
        /\ \/ Moves(k + 1, "format", k + 1, "call")
           \/ Moves(k + 1, "call", k + 2, "enter")
           \/ Moves(k + 2, "enter", k + 2, "dispatch")
           \/ Moves(k + 2, "dispatch", k + 2, "screen")
           \/ Moves(k + 2, "return", k + 1, "free")
           \/ Depth = k + 1 /\ stack[k + 1].at = "free" /\ Depth' = k
     \/ /\ Moves(k + 2, "screen", k + 2, "return")
        /\ reported' = IF stack[k].fn = "panic" THEN reported + 1 ELSE reported

(* With interrupts disabled, the print itself is all that goes on. *)
LEMMA PrintAdvances ==
  ASSUME InterruptsInv, RaisedBy, NEW k \in {2, 3}, PrintsAbove(k), Depth = k + 1,
         PrintFormat \/ PrintCall \/ PrintFree
  PROVE  PrintGoesOn(k)
<1>1. /\ stack \in Seq(Frames) /\ Depth \in Nat /\ Depth > 0 /\ Top \in Frames
      /\ Top = stack[k + 1] /\ Top.fn = "print" /\ interrupts = FALSE
  BY Running DEF PrintsAbove, InterruptsInv, TypeOK
<1>2. \A j \in 1 .. k : j \in 1 .. Depth - 1
  OBVIOUS
<1>3. CASE PrintFormat
  <2> DEFINE f == [Top EXCEPT !.at = "call"]
  <2>1. /\ Top.at = "format" /\ stack' = Append(Rest, f)
        /\ UNCHANGED <<interruption_handlers, interrupts, reported>>
    BY <1>3 DEF PrintFormat, At, Continue, boot, history
  <2>2. f \in Frames /\ f.fn = Top.fn /\ f.v = Top.v /\ f.at = "call"
    BY <1>1, TopAt
  <2> HIDE DEF f
  <2>3. Replaces(f)
    BY <1>1, <2>1, <2>2, ReplaceIs
  <2>4. RaisedBy' /\ Depth' = k + 1
    BY <1>1, <2>2, <2>3, RaisedReplace
  <2>5. /\ stack'[k + 1] = f /\ \A j \in 1 .. k : stack'[j] = stack[j]
    BY <1>2, <2>3 DEF Replaces
  <2>6. PrintsAbove(k)'
    BY <1>1, <2>1, <2>2, <2>4, <2>5 DEF PrintsAbove
  <2> QED BY <1>1, <2>1, <2>2, <2>4, <2>5, <2>6 DEF PrintGoesOn, Moves
<1>4. CASE PrintCall
  <2> DEFINE f == [Top EXCEPT !.at = "free"]
             g == Frame("isr", "enter", Screen, 0, interrupts)
  <2>1. /\ Top.at = "call" /\ stack' = Append(Append(Rest, f), g) /\ interrupts' = FALSE
        /\ UNCHANGED <<interruption_handlers, reported>>
    BY <1>4 DEF PrintCall, At, Gate, IntNo, OwnStub, IrqVectors, Screen, boot, history
  <2>2. f \in Frames /\ f.fn = Top.fn /\ f.v = Top.v /\ f.at = "free"
    BY <1>1, TopAt
  <2>3. Screen \in Vectors /\ 0 \in 0 .. ReportLines + DebugLines
    BY InterruptsAssumption DEF Screen, Vectors
  <2>4. g \in Frames /\ g.fn = "isr" /\ g.at = "enter" /\ g.v = Screen
    <3>1. interrupts \in BOOLEAN
      BY DEF InterruptsInv, TypeOK
    <3> QED BY <2>3, <3>1, FrameType
  <2>5. ~g.flag
    BY <1>1 DEF Frame
  <2> HIDE DEF f, g
  <2>6. Pushes(f, g)
    BY <1>1, <2>1, <2>2, <2>4, PushIs
  <2>7. RaisedBy' /\ Depth' = k + 2
    BY <1>1, <2>2, <2>4, <2>6, RaisedPush
  <2>8. /\ stack'[k + 1] = f /\ stack'[k + 2] = g
        /\ \A j \in 1 .. k : stack'[j] = stack[j]
    BY <1>2, <2>6 DEF Pushes
  <2>9. PrintsAbove(k)'
    BY <1>1, <2>1, <2>2, <2>4, <2>5, <2>7, <2>8 DEF PrintsAbove
  <2> QED BY <1>1, <2>1, <2>4, <2>7, <2>8, <2>9 DEF PrintGoesOn, Moves
<1>5. CASE PrintFree
  <2>1. /\ Top.at = "free" /\ stack' = Rest
        /\ UNCHANGED <<interruption_handlers, interrupts, reported>>
    BY <1>5 DEF PrintFree, At, boot, history
  <2>2. Pops
    BY <1>1, <2>1, PopIs
  <2>3. RaisedBy' /\ Depth' = k
    BY <1>1, <2>2, RaisedPop
  <2>4. \A j \in 1 .. k : stack'[j] = stack[j]
    BY <1>2, <2>2 DEF Pops
  <2>5. PrintsAbove(k)'
    BY <1>1, <2>1, <2>3 DEF PrintsAbove
  <2> QED BY <1>1, <2>1, <2>3, <2>4, <2>5 DEF PrintGoesOn
<1> QED BY <1>3, <1>4, <1>5

(* The screen has its handler once anything but _start runs. *)
LEMMA ScreenServes ==
  ASSUME InterruptsInv, PanicInv, QuietBoot, Depth > 1
  PROVE  interruption_handlers[Screen] = "screen_callback"
BY Running DEF InterruptsInv, QuietUntilScreen, PanicInv

(* int 48: its handler writes the line and returns. *)
LEMMA ScreenAdvances ==
  ASSUME InterruptsInv, PanicInv, QuietBoot, NEW k \in {2, 3}, PrintsAbove(k), Depth = k + 2,
         IsrEnter \/ ScreenCallback \/ ScreenWritten \/ InterruptReturn
  PROVE  PrintGoesOn(k)
<1>1. /\ stack \in Seq(Frames) /\ Depth \in Nat /\ Depth > 0 /\ Top \in Frames
      /\ Top = stack[k + 2] /\ Top.fn = "isr" /\ Top.v = Screen /\ ~Top.flag
      /\ interrupts = FALSE /\ RaisedBy
      /\ stack[k + 1].fn = "print" /\ stack[k + 1].at = "free"
  BY Running DEF PrintsAbove, PanicInv, InterruptsInv, TypeOK
<1>2. \A j \in 1 .. k + 1 : j \in 1 .. Depth - 1
  OBVIOUS
<1>3. ASSUME NEW at \in {"dispatch", "screen", "return"}, Continue(at),
             UNCHANGED <<interruption_handlers, interrupts>>
      PROVE  /\ PrintsAbove(k)' /\ RaisedBy' /\ UNCHANGED interruption_handlers
             /\ \A j \in 1 .. k : stack'[j] = stack[j]
             /\ Depth' = k + 2 /\ stack'[k + 2].at = at
  <2> DEFINE f == [Top EXCEPT !.at = at]
  <2>1. stack' = Append(Rest, f)
    BY <1>3 DEF Continue
  <2>2. f \in Frames /\ f.fn = Top.fn /\ f.v = Top.v /\ f.at = at
    BY <1>1, TopAt
  <2>3. f.flag = Top.flag
    BY <1>1 DEF Frames
  <2> HIDE DEF f
  <2>4. Replaces(f)
    BY <1>1, <2>1, <2>2, ReplaceIs
  <2>5. RaisedBy' /\ Depth' = k + 2
    BY <1>1, <2>2, <2>4, RaisedReplace
  <2>6. stack'[k + 2] = f /\ \A j \in 1 .. k + 1 : stack'[j] = stack[j]
    BY <1>2, <2>4 DEF Replaces
  <2>7. stack'[k + 1] = stack[k + 1] /\ \A j \in 1 .. k : stack'[j] = stack[j]
    BY <2>6
  <2>8. PrintsAbove(k)'
    BY <1>1, <1>3, <2>2, <2>3, <2>5, <2>6, <2>7 DEF PrintsAbove
  <2> QED BY <1>3, <2>2, <2>5, <2>6, <2>7, <2>8
<1>4. CASE IsrEnter
  <2>1. /\ Top.at = "enter" /\ Continue("dispatch")
        /\ UNCHANGED <<interruption_handlers, interrupts, reported>>
    BY <1>1, <1>4 DEF IsrEnter, At, Screen, DEFAULT_IRS, boot, history
  <2> QED BY <1>1, <1>3, <2>1 DEF PrintGoesOn, Moves
<1>5. CASE ScreenCallback
  <2>1. /\ Top.at = "dispatch" /\ Continue("screen")
        /\ UNCHANGED <<interruption_handlers, interrupts, reported>>
    BY <1>5 DEF ScreenCallback, Dispatching, boot, history
  <2> QED BY <1>1, <1>3, <2>1 DEF PrintGoesOn, Moves
<1>6. CASE ScreenWritten
  <2>1. /\ Top.at = "screen" /\ Continue("return")
        /\ UNCHANGED <<interruption_handlers, interrupts>>
        /\ reported' = IF stack[k].fn = "panic" THEN reported + 1 ELSE reported
    <3>1. Depth > 2 /\ Depth - 2 = k
      OBVIOUS
    <3> QED BY <1>6, <3>1 DEF ScreenWritten, boot
  <2> QED BY <1>1, <1>3, <2>1 DEF PrintGoesOn, Moves
<1>7. CASE InterruptReturn
  <2>1. /\ Top.at = "return" /\ stack' = Rest /\ interrupts' = Top.flag
        /\ UNCHANGED <<interruption_handlers, reported>>
    BY <1>7 DEF InterruptReturn, boot, history
  <2>2. Pops
    BY <1>1, <2>1, PopIs
  <2>3. RaisedBy' /\ Depth' = k + 1
    BY <1>1, <2>2, RaisedPop
  <2>4. \A j \in 1 .. k + 1 : stack'[j] = stack[j]
    BY <1>2, <2>2 DEF Pops
  <2>5. stack'[k + 1] = stack[k + 1] /\ \A j \in 1 .. k : stack'[j] = stack[j]
    BY <2>4
  <2>6. PrintsAbove(k)'
    BY <1>1, <2>1, <2>3, <2>5 DEF PrintsAbove
  <2> QED BY <1>1, <2>1, <2>3, <2>5, <2>6 DEF PrintGoesOn, Moves
<1> QED BY <1>4, <1>5, <1>6, <1>7

(* Nothing else happens meanwhile, except that devices fire. *)
LEMMA PrintOnly ==
  ASSUME InterruptsInv, PanicInv, QuietBoot, NEW k \in {2, 3}, PrintsAbove(k), Depth > k, Next
  PROVE  PrintGoesOn(k) \/ \E v \in Lines : Raise(v)
<1>1. /\ Depth \in {k + 1, k + 2} /\ Depth \in Nat /\ Top = stack[Depth] /\ Depth > 1
      /\ ~interrupts /\ RaisedBy /\ interruption_handlers[Screen] = "screen_callback"
  BY Running, ScreenServes DEF PrintsAbove, PanicInv
<1>2. ~\E v \in Lines : Deliver(v)
  BY <1>1 DEF Deliver
<1>3. Top.fn \in {"print", "isr"}
  BY <1>1 DEF PrintsAbove
<1>4. ~Boot /\ (~\E v \in Ints : RaiseInt(v)) /\ (~\E v \in Faults : Fault(v))
  BY <1>3 DEF Boot, InitInterruptions, SetInterruptHandler, PrintMessage, InitialiseTasking,
              RaiseInt, Fault
<1>5. ~IrqEnter /\ ~PrintLine /\ ~DebugReturn
  BY <1>3 DEF IrqEnter, At, PrintLine, DebugReturn
<1>6. CASE Depth = k + 1
  <2>1. Top.fn = "print"
    BY <1>1, <1>6 DEF PrintsAbove
  <2>2. /\ ~IsrEnter /\ ~Unhandled /\ ~TimerCallback /\ ~ScreenCallback /\ ~IdleCallback
        /\ ~PrintingCallback /\ ~InterruptReturn
    BY <2>1 DEF IsrEnter, At, Unhandled, TimerCallback, ScreenCallback, IdleCallback,
                PrintingCallback, InterruptReturn, Dispatching
  <2>3. ~ScreenWritten
    BY <2>1, Running DEF ScreenWritten
  <2> QED BY <1>1, <1>2, <1>4, <1>5, <1>6, <2>2, <2>3, PrintAdvances DEF Next, Step
<1>7. CASE Depth = k + 2
  <2>1. Top.fn = "isr" /\ Top.v = Screen
    BY <1>1, <1>7 DEF PrintsAbove
  <2>2. ~PrintFormat /\ ~PrintCall /\ ~PrintFree
    BY <2>1 DEF PrintFormat, PrintCall, PrintFree, At
  <2>3. ~Unhandled /\ ~TimerCallback /\ ~IdleCallback /\ ~PrintingCallback
    BY <1>1, <2>1 DEF Unhandled, TimerCallback, IdleCallback, PrintingCallback, Handler, nullptr
  <2> QED BY <1>1, <1>2, <1>4, <1>5, <1>7, <2>2, <2>3, ScreenAdvances DEF Next, Step
<1> QED BY <1>1, <1>6, <1>7

(* A step in which only devices fire. *)
LEMMA PanicQuiet ==
  ASSUME PanicInv, UNCHANGED <<interruption_handlers, interrupts, stack, reported>>
  PROVE  PanicInv' /\ PanicAdvances
<1>1. UNCHANGED <<Depth, Trapped, Unprinted, Panicking, RaisedBy, PrintsAbove(2), PrintsAbove(3)>>
  BY DEF Depth, Trapped, Unprinted, Panicking, RaisedBy, PrintsAbove, Caller
<1>2. PanicInv'
  BY <1>1 DEF PanicInv
<1> QED BY <1>1, <1>2 DEF PanicAdvances

(* Where a panic is. *)
LEMMA PanicPlace ==
  ASSUME InterruptsInv, PanicInv, Panicking
  PROVE  /\ Depth \in 3 .. 5 /\ stack[3].fn = "panic" /\ PrintsAbove(3)
         /\ reported + stack[3].left + Unprinted = ReportLines
         /\ stack[3].left \in Nat /\ reported \in Nat /\ ~Trapped
<1>1. PICK p \in 1 .. Depth : stack[p].fn = "panic"
  BY DEF Panicking
<1>2. p = 3 /\ PrintsAbove(3) /\ reported + stack[3].left + Unprinted = ReportLines
  BY <1>1 DEF PanicInv
<1>3. Depth \in Nat /\ Depth >= 3 /\ Depth <= 5 /\ stack \in Seq(Frames)
  BY <1>1, <1>2, Running DEF PrintsAbove
<1>4. stack[3] \in Frames
  BY <1>3 DEF Depth
<1>5. stack[3].left \in Nat
  BY <1>4, InterruptsAssumption DEF Frames
<1>6. ~Trapped
  <2> SUFFICES ASSUME Trapped PROVE FALSE
    OBVIOUS
  <2>1. PrintsAbove(2)
    BY DEF PanicInv
  <2> QED BY <1>1, <1>2, <1>3, <2>1 DEF PrintsAbove
<1> QED BY <1>1, <1>2, <1>3, <1>5, <1>6 DEF InterruptsInv, TypeOK

(* What has to be shown of a step of a panic. *)
LEMMA PanicKeeps ==
  ASSUME InterruptsInv, PanicInv, Panicking, RaisedBy', UNCHANGED interruption_handlers,
         PrintsAbove(3)', Depth' \in 3 .. 5, stack'[3].fn = "panic", stack'[2] = stack[2],
         \A k \in 1 .. Depth' : stack'[k].fn = "panic" => k = 3,
         reported' + stack'[3].left + Unprinted' = ReportLines
  PROVE  PanicInv' /\ Panicking'
<1>1. Panicking'
  BY DEF Panicking
<1>2. ~Trapped'
  BY PanicPlace DEF Trapped
<1>3. (interruption_handlers[Screen] \in {nullptr, "screen_callback"})'
  BY DEF PanicInv
<1>4. (\A k \in 1 .. Depth : stack[k].fn = "panic" =>
         k = 3 /\ PrintsAbove(3) /\ reported + stack[3].left + Unprinted = ReportLines)'
  OBVIOUS
<1> QED BY <1>1, <1>2, <1>3, <1>4 DEF PanicInv

(* The step that prints the next line of a report. *)
LEMMA PanicLine ==
  ASSUME InterruptsInv, PanicInv, Panicking, Depth = 3, PrintLine
  PROVE  PanicInv' /\ PanicAdvances
<1> DEFINE f == [Top EXCEPT !.left = @ - 1]
<1>1. /\ stack \in Seq(Frames) /\ Top \in Frames /\ Top = stack[3] /\ Top.fn = "panic"
      /\ interrupts = FALSE /\ RaisedBy /\ Depth > 0
      /\ reported + stack[3].left + Unprinted = ReportLines
      /\ Top.left \in Nat /\ reported \in Nat
  BY Running, PanicPlace DEF PrintsAbove, PanicInv, InterruptsInv, TypeOK
<1>2. /\ Top.left > 0 /\ interruption_handlers' = interruption_handlers
      /\ interrupts' = interrupts /\ reported' = reported
  BY DEF PrintLine, boot, history
<1>3. Top.left - 1 \in 0 .. ReportLines + DebugLines
  <2>1. Top.left \in 0 .. ReportLines + DebugLines
    BY <1>1 DEF Frames
  <2> QED BY <1>2, <2>1, InterruptsAssumption
<1>4. f \in Frames /\ f.fn = Top.fn /\ f.v = Top.v /\ f.left = Top.left - 1
  BY <1>1, <1>3 DEF Frames
<1>5. Pushes(f, PrintFrame)
  <2>1. stack' = Rest \o <<f, PrintFrame>>
    BY DEF PrintLine
  <2> HIDE DEF f
  <2> QED BY <1>1, <1>4, <2>1, PushIs, PrintFrameType
<1> HIDE DEF f
<1>6. RaisedBy' /\ Depth' = 4
  BY <1>1, <1>4, <1>5, PrintFrameType, RaisedPush
<1>7. /\ stack'[1] = stack[1] /\ stack'[2] = stack[2] /\ stack'[3] = f
      /\ stack'[4] = PrintFrame
  BY <1>5 DEF Pushes
<1>8. PrintsAbove(3)'
  BY <1>1, <1>2, <1>6, <1>7, PrintFrameType DEF PrintsAbove
<1>9. Unprinted = 0 /\ Unprinted' = 1
  BY <1>6, <1>7, PrintFrameType DEF Unprinted
<1>10. \A k \in 1 .. Depth' : stack'[k].fn = "panic" => k = 3
  <2>1. stack[1].fn # "panic" /\ stack[2].fn # "panic"
    BY DEF PanicInv
  <2>2. \A k \in 1 .. 4 : k \in {1, 2, 3, 4}
    OBVIOUS
  <2> QED BY <1>6, <1>7, <2>1, <2>2, PrintFrameType
<1>11. PanicInv' /\ Panicking'
  <2>1. reported' + stack'[3].left + Unprinted' = ReportLines
    BY <1>1, <1>2, <1>4, <1>7, <1>9
  <2>2. stack'[3].fn = "panic" /\ Depth' \in 3 .. 5 /\ UNCHANGED interruption_handlers
    BY <1>1, <1>2, <1>4, <1>6, <1>7
  <2> QED BY <1>6, <1>7, <1>8, <1>10, <2>1, <2>2, PanicKeeps
<1>12. PanicLeft = 8 * Top.left
  BY <1>1 DEF PanicLeft
<1>13. PanicLeft' = 8 * (Top.left - 1) + 7
  BY <1>4, <1>6, <1>7, PrintFrameType DEF PanicLeft
<1>14. PanicLeft' < PanicLeft
  <2>1. Top.left \in Nat
    BY <1>1
  <2> QED BY <1>12, <1>13, <2>1
<1> QED BY <1>11, <1>14 DEF PanicAdvances

(* The steps that bring a line of a report to the screen. *)
LEMMA PanicPrints ==
  ASSUME InterruptsInv, PanicInv, Panicking, Depth > 3, PrintGoesOn(3)
  PROVE  PanicInv' /\ PanicAdvances
<1>1. /\ Depth \in 3 .. 5 /\ stack[3].fn = "panic" /\ PrintsAbove(3)
      /\ reported + stack[3].left + Unprinted = ReportLines
      /\ stack[3].left \in Nat /\ reported \in Nat
  BY PanicPlace
<1>2. /\ PrintsAbove(3)' /\ RaisedBy' /\ UNCHANGED interruption_handlers
      /\ stack'[1] = stack[1] /\ stack'[2] = stack[2] /\ stack'[3] = stack[3]
  BY DEF PrintGoesOn
<1>3. Depth' \in 3 .. 5
  BY DEF PrintGoesOn, Moves
<1>4. \A k \in 1 .. Depth' : stack'[k].fn = "panic" => k = 3
  <2>1. stack[1].fn # "panic" /\ stack[2].fn # "panic"
    BY <1>1 DEF PanicInv
  <2>2. /\ Depth' >= 4 => stack'[4].fn = "print"
        /\ Depth' = 5 => stack'[5].fn = "isr"
    BY <1>2, <1>3 DEF PrintsAbove
  <2>3. \A k \in 1 .. Depth' : k \in {1, 2, 3} \/ (k = 4 /\ Depth' >= 4) \/ (k = 5 /\ Depth' = 5)
    BY <1>3
  <2> QED BY <1>2, <2>1, <2>2, <2>3
<1>5. /\ reported' + Unprinted' = reported + Unprinted
      /\ PanicLeft' < PanicLeft
  <2>1. CASE Moves(4, "format", 4, "call") /\ UNCHANGED reported
    BY <1>1, <1>2, <2>1 DEF Moves, Unprinted, PanicLeft
  <2>2. CASE Moves(4, "call", 5, "enter") /\ UNCHANGED reported
    BY <1>1, <1>2, <2>2 DEF Moves, Unprinted, PanicLeft
  <2>3. CASE Moves(5, "enter", 5, "dispatch") /\ UNCHANGED reported
    BY <1>1, <1>2, <2>3 DEF Moves, Unprinted, PanicLeft
  <2>4. CASE Moves(5, "dispatch", 5, "screen") /\ UNCHANGED reported
    BY <1>1, <1>2, <2>4 DEF Moves, Unprinted, PanicLeft
  <2>5. CASE Moves(5, "screen", 5, "return") /\ reported' = reported + 1
    BY <1>1, <1>2, <2>5 DEF Moves, Unprinted, PanicLeft
  <2>6. CASE Moves(5, "return", 4, "free") /\ UNCHANGED reported
    BY <1>1, <1>2, <2>6 DEF Moves, Unprinted, PanicLeft
  <2>7. CASE Depth = 4 /\ stack[4].at = "free" /\ Depth' = 3 /\ UNCHANGED reported
    BY <1>1, <1>2, <2>7 DEF Unprinted, PanicLeft
  <2> QED BY <1>1, <2>1, <2>2, <2>3, <2>4, <2>5, <2>6, <2>7 DEF PrintGoesOn
<1>6. reported' \in Nat /\ Unprinted \in Nat /\ Unprinted' \in Nat
  BY <1>1 DEF PrintGoesOn, Unprinted
<1>7. reported' + stack'[3].left + Unprinted' = ReportLines
  <2> DEFINE a == reported   b == stack[3].left   c == Unprinted
             d == reported'  e == Unprinted'
  <2>1. a \in Nat /\ b \in Nat /\ c \in Nat /\ d \in Nat /\ e \in Nat
    BY <1>1, <1>6
  <2>2. a + b + c = ReportLines /\ d + e = a + c /\ stack'[3].left = b
    BY <1>1, <1>2, <1>5
  <2> HIDE DEF a, b, c, d, e
  <2>3. d + b + e = ReportLines
    BY <2>1, <2>2
  <2> QED BY <2>2, <2>3 DEF d, e
<1>8. PanicInv' /\ Panicking'
  BY <1>1, <1>2, <1>3, <1>4, <1>7, PanicKeeps
<1> QED BY <1>5, <1>8 DEF PanicAdvances

(* Whatever happens while a panic is under way. *)
LEMMA PanicStep ==
  ASSUME InterruptsInv, PanicInv, QuietBoot, Panicking, Next
  PROVE  PanicInv' /\ PanicAdvances
<1>1. Depth \in 3 .. 5 /\ stack[3].fn = "panic" /\ PrintsAbove(3) /\ Top = stack[Depth]
  BY PanicPlace, Running
<1>2. CASE \E v \in Lines : Raise(v)
  BY <1>2, PanicQuiet DEF Raise, boot, history
<1>3. CASE Depth > 3
  BY <1>1, <1>2, <1>3, PrintOnly, PanicPrints
<1>4. CASE Depth = 3
  <2>1. Top.fn = "panic" /\ ~interrupts /\ Top.at # "screen"
    BY <1>1, <1>4, Running DEF PrintsAbove
  <2>2. /\ ~Boot /\ (~\E v \in Ints : RaiseInt(v)) /\ (~\E v \in Faults : Fault(v))
        /\ ~\E v \in Lines : Deliver(v)
    BY <2>1 DEF Boot, InitInterruptions, SetInterruptHandler, PrintMessage,
                InitialiseTasking, RaiseInt, Fault, Deliver
  <2>3. ~PrintFormat /\ ~PrintCall /\ ~PrintFree /\ ~IsrEnter /\ ~IrqEnter
    BY <2>1 DEF PrintFormat, PrintCall, PrintFree, IsrEnter, IrqEnter, At
  <2>4. /\ ~Unhandled /\ ~TimerCallback /\ ~ScreenCallback /\ ~ScreenWritten
        /\ ~IdleCallback /\ ~PrintingCallback /\ ~InterruptReturn /\ ~DebugReturn
    BY <2>1 DEF Unhandled, TimerCallback, ScreenCallback, ScreenWritten, IdleCallback,
                PrintingCallback, InterruptReturn, DebugReturn, Dispatching
  <2> QED BY <1>2, <1>4, <2>2, <2>3, <2>4, PanicLine DEF Next, Step
<1> QED BY <1>1, <1>3, <1>4

(* What has to be shown of a step after which there is no panic. *)
LEMMA NoPanicKeeps ==
  ASSUME PanicInv, RaisedBy', UNCHANGED interruption_handlers, ~Panicking, ~Panicking',
         UNCHANGED reported, Trapped' => PrintsAbove(2)'
  PROVE  PanicInv'
BY DEF PanicInv, Panicking

(* A callback that _start has caused moves on without calling. *)
LEMMA TrapContinues ==
  ASSUME InterruptsInv, PanicInv, Trapped, Depth = 2, ~Panicking,
         NEW at \in {"dispatch", "screen", "return"}, Continue(at),
         UNCHANGED interruption_handlers, UNCHANGED reported,
         at # "return" => UNCHANGED interrupts
  PROVE  PanicInv'
<1> DEFINE f == [Top EXCEPT !.at = at]
<1>1. /\ stack \in Seq(Frames) /\ Top \in Frames /\ Top = stack[2] /\ Top.fn = "isr"
      /\ Depth > 0 /\ interrupts = FALSE /\ RaisedBy
  BY Running DEF Trapped, PrintsAbove, PanicInv, InterruptsInv, TypeOK
<1>2. f \in Frames /\ f.fn = Top.fn /\ f.v = Top.v /\ f.at = at
  BY <1>1, TopAt
<1>3. Replaces(f)
  BY <1>1, <1>2, ReplaceIs DEF Continue
<1> HIDE DEF f
<1>4. RaisedBy' /\ Depth' = 2
  BY <1>1, <1>2, <1>3, RaisedReplace
<1>5. stack'[1] = stack[1] /\ stack'[2] = f
  BY <1>3 DEF Replaces
<1>6. ~Panicking'
  <2>1. stack[1].fn # "panic"
    BY DEF Panicking
  <2>2. \A k \in 1 .. 2 : k \in {1, 2}
    OBVIOUS
  <2> QED BY <1>1, <1>2, <1>4, <1>5, <2>1, <2>2 DEF Panicking
<1>7. Trapped' => PrintsAbove(2)'
  BY <1>1, <1>2, <1>4, <1>5 DEF Trapped, PrintsAbove
<1> QED BY <1>4, <1>6, <1>7, NoPanicKeeps

(* It calls: a message is announced, a report starts. *)
LEMMA TrapCalls ==
  ASSUME InterruptsInv, PanicInv, Trapped, Depth = 2, ~Panicking,
         NEW at \in {"dispatch", "return"}, NEW g \in Frames, Call(at, g),
         at = "dispatch" => g = PrintFrame,
         g.fn \in {"print", "debug", "panic"}, g.fn = "panic" => g.left = ReportLines,
         UNCHANGED interruption_handlers, UNCHANGED reported, UNCHANGED interrupts
  PROVE  PanicInv'
<1> DEFINE f == [Top EXCEPT !.at = at]
<1>1. /\ stack \in Seq(Frames) /\ Top \in Frames /\ Top = stack[2] /\ Top.fn = "isr"
      /\ Depth > 0 /\ interrupts = FALSE /\ RaisedBy /\ reported = 0
  BY Running DEF Trapped, PrintsAbove, PanicInv, InterruptsInv, TypeOK
<1>2. f \in Frames /\ f.fn = Top.fn /\ f.v = Top.v /\ f.at = at
  BY <1>1, TopAt
<1>3. Pushes(f, g)
  <2>1. stack' = Rest \o <<f, g>>
    BY CallIs
  <2> HIDE DEF f
  <2> QED BY <1>1, <1>2, <2>1, PushIs
<1> HIDE DEF f
<1>4. RaisedBy' /\ Depth' = 3
  BY <1>1, <1>2, <1>3, RaisedPush
<1>5. stack'[1] = stack[1] /\ stack'[2] = f /\ stack'[3] = g
  BY <1>3 DEF Pushes
<1>6. /\ stack'[1].fn # "panic" /\ stack'[2].fn # "panic"
      /\ \A k \in 1 .. Depth' : k \in {1, 2, 3}
  <2>1. stack[1].fn # "panic"
    BY DEF Panicking
  <2>2. \A k \in 1 .. 3 : k \in {1, 2, 3}
    OBVIOUS
  <2> QED BY <1>1, <1>2, <1>4, <1>5, <2>1, <2>2
<1>7. Trapped' => PrintsAbove(2)'
  <2>1. Trapped' => g = PrintFrame
    BY <1>2, <1>5 DEF Trapped
  <2>2. g = PrintFrame => PrintsAbove(2)'
    BY <1>1, <1>4, <1>5, PrintFrameType DEF PrintsAbove
  <2> QED BY <2>1, <2>2
<1>8. CASE g.fn = "panic"
  <2>1. PrintsAbove(3)'
    BY <1>1, <1>4 DEF PrintsAbove
  <2>2. Unprinted' = 0 /\ stack'[3].left = ReportLines /\ reported' = 0
    BY <1>1, <1>4, <1>5, <1>8 DEF Unprinted
  <2>3. reported' + stack'[3].left + Unprinted' = ReportLines
    BY <2>2, InterruptsAssumption
  <2>4. Panicking'
    BY <1>4, <1>5, <1>8 DEF Panicking
  <2>5. (\A k \in 1 .. Depth : stack[k].fn = "panic" =>
           k = 3 /\ PrintsAbove(3) /\ reported + stack[3].left + Unprinted = ReportLines)'
    BY <1>6, <2>1, <2>3
  <2> QED BY <1>4, <1>7, <2>4, <2>5 DEF PanicInv
<1>9. CASE g.fn # "panic"
  <2>1. ~Panicking'
    BY <1>5, <1>6, <1>9 DEF Panicking
  <2> QED BY <1>4, <1>7, <2>1, NoPanicKeeps
<1> QED BY <1>8, <1>9

(* The left of the records that PANIC and print start with. *)
LEMMA ReportLeft ==
  Frame("panic", "run", 0, ReportLines, FALSE).left = ReportLines
BY DEF Frame

(* Whatever happens before an interrupt that _start has caused is          *)
(* dispatched.                                                             *)
LEMMA TrapStep ==
  ASSUME InterruptsInv, PanicInv, QuietBoot, Trapped, Next
  PROVE  PanicInv'
<1>1. /\ Depth \in 2 .. 4 /\ stack[2].fn = "isr" /\ stack[2].at # "return"
      /\ PrintsAbove(2) /\ Top = stack[Depth]
  BY Running DEF Trapped, PanicInv, PrintsAbove
<1>2. ~Panicking
  BY PanicPlace
<1>3. CASE \E v \in Lines : Raise(v)
  BY <1>3, PanicQuiet DEF Raise, boot, history
<1>4. CASE Depth > 2
  <2>1. CASE PrintGoesOn(2)
    <3>1. /\ RaisedBy' /\ PrintsAbove(2)' /\ UNCHANGED interruption_handlers
          /\ stack'[1] = stack[1] /\ stack'[2] = stack[2]
      BY <2>1 DEF PrintGoesOn
    <3>2. Depth' \in 2 .. 4 /\ UNCHANGED reported
      BY <1>1, <2>1 DEF PrintGoesOn, Moves
    <3>3. ~Panicking'
      <4>1. stack[1].fn # "panic" /\ stack[2].fn # "panic"
        BY <1>1, <1>2 DEF Panicking
      <4>2. /\ Depth' >= 3 => stack'[3].fn = "print"
            /\ Depth' = 4 => stack'[4].fn = "isr"
        BY <3>1, <3>2 DEF PrintsAbove
      <4>3. \A k \in 1 .. Depth' : k \in {1, 2} \/ (k = 3 /\ Depth' >= 3) \/ (k = 4 /\ Depth' = 4)
        BY <3>2
      <4> QED BY <3>1, <4>1, <4>2, <4>3 DEF Panicking
    <3> QED BY <1>2, <3>1, <3>2, <3>3, NoPanicKeeps
  <2> QED BY <1>1, <1>3, <1>4, <2>1, PrintOnly
<1>5. CASE Depth = 2
  <2>1. Top.fn = "isr" /\ ~interrupts /\ Top.at # "return"
    BY <1>1, <1>5 DEF PrintsAbove
  <2>2. /\ ~Boot /\ (~\E v \in Ints : RaiseInt(v)) /\ (~\E v \in Faults : Fault(v))
        /\ ~\E v \in Lines : Deliver(v)
    BY <2>1 DEF Boot, InitInterruptions, SetInterruptHandler, PrintMessage,
                InitialiseTasking, RaiseInt, Fault, Deliver
  <2>3. /\ ~PrintFormat /\ ~PrintCall /\ ~PrintFree /\ ~IrqEnter /\ ~PrintLine
        /\ ~DebugReturn /\ ~InterruptReturn
    BY <2>1 DEF PrintFormat, PrintCall, PrintFree, IrqEnter, At, PrintLine, DebugReturn,
                InterruptReturn
  <2>4. CASE IsrEnter
    <3>1. /\ UNCHANGED interruption_handlers /\ UNCHANGED reported /\ UNCHANGED interrupts
          /\ Call("dispatch", PrintFrame) \/ Continue("dispatch")
      BY <2>4 DEF IsrEnter, boot, history
    <3> QED BY <1>2, <1>5, <3>1, TrapContinues, TrapCalls, PrintFrameType
  <2>5. CASE Unhandled
    <3>1. /\ UNCHANGED interruption_handlers /\ UNCHANGED reported /\ UNCHANGED interrupts
          /\ Call("return", Frame("panic", "run", 0, ReportLines, FALSE))
      BY <2>1, <2>5 DEF Unhandled, boot, history
    <3> QED BY <1>2, <1>5, <3>1, TrapCalls, ReportFrames, ReportLeft
  <2>6. CASE TimerCallback
    <3>1. UNCHANGED interruption_handlers /\ UNCHANGED reported /\ Continue("return")
      BY <2>6 DEF TimerCallback, boot, history
    <3> QED BY <1>2, <1>5, <3>1, TrapContinues
  <2>7. CASE ScreenCallback \/ IdleCallback
    <3>1. /\ UNCHANGED interruption_handlers /\ UNCHANGED reported /\ UNCHANGED interrupts
          /\ Continue("screen") \/ Continue("return")
      BY <2>7 DEF ScreenCallback, IdleCallback, boot, history
    <3> QED BY <1>2, <1>5, <3>1, TrapContinues
  <2>8. CASE ScreenWritten
    <3>1. UNCHANGED interruption_handlers /\ UNCHANGED reported /\ Continue("return")
      BY <1>5, <2>8 DEF ScreenWritten, boot
    <3> QED BY <1>2, <1>5, <3>1, TrapContinues
  <2>9. CASE PrintingCallback
    <3>1. /\ UNCHANGED interruption_handlers /\ UNCHANGED reported /\ UNCHANGED interrupts
          /\ \/ Call("return", Frame("debug", "run", 0, DebugLines, FALSE))
             \/ Call("return", Frame("panic", "run", 0, ReportLines, FALSE))
      BY <2>9 DEF PrintingCallback, boot, history
    <3> QED BY <1>2, <1>5, <3>1, TrapCalls, ReportFrames, ReportLeft
  <2> QED BY <1>3, <2>2, <2>3, <2>4, <2>5, <2>6, <2>7, <2>8, <2>9 DEF Next, Step
<1> QED BY <1>1, <1>4, <1>5

(* No interrupt that code raised is being dispatched, and nobody panics. *)
Idle == ~Trapped /\ ~Panicking /\ Depth > 1

(* Running code moves on. *)
LEMMA IdleContinues ==
  ASSUME InterruptsInv, PanicInv, Idle,
         NEW at \in {"call", "dispatch", "screen", "return"}, Continue(at),
         Top.at = "return" => at = "return",
         UNCHANGED interruption_handlers, UNCHANGED reported
  PROVE  PanicInv'
<1> DEFINE f == [Top EXCEPT !.at = at]
<1>1. /\ stack \in Seq(Frames) /\ Depth \in Nat /\ Depth > 0 /\ Top \in Frames
      /\ Top = stack[Depth] /\ RaisedBy
  BY Running DEF PanicInv
<1>2. f \in Frames /\ f.fn = Top.fn /\ f.v = Top.v /\ f.at = at
  BY <1>1, TopAt
<1>3. Replaces(f)
  BY <1>1, <1>2, ReplaceIs DEF Continue
<1> HIDE DEF f
<1>4. RaisedBy' /\ Depth' = Depth
  BY <1>1, <1>2, <1>3, RaisedReplace
<1>5. \A k \in 1 .. Depth : stack'[k] = stack[k] \/ (k = Depth /\ stack'[k] = f)
  BY <1>1, <1>3 DEF Replaces
<1>6. ~Panicking'
  BY <1>1, <1>2, <1>4, <1>5 DEF Panicking, Idle
<1>7. ~Trapped'
  <2>1. 2 \in 1 .. Depth
    BY <1>1 DEF Idle
  <2>2. CASE stack'[2] = stack[2]
    BY <1>4, <2>2 DEF Trapped, Idle
  <2>3. CASE Depth = 2 /\ stack'[2] = f
    BY <1>1, <1>2, <2>3 DEF Trapped, Idle
  <2> QED BY <1>5, <2>1, <2>2, <2>3
<1> QED BY <1>4, <1>6, <1>7, NoPanicKeeps DEF Idle

(* Running code calls, or is interrupted. *)
LEMMA IdlePushes ==
  ASSUME InterruptsInv, PanicInv, Idle, NEW f \in Frames, NEW g \in Frames, Pushes(f, g),
         f.fn = Top.fn, f.v = Top.v, f.fn = "isr" => f.at = "return", g.fn # "panic",
         g.fn = "isr" => g.v = Screen /\ f.fn = "print",
         UNCHANGED interruption_handlers, UNCHANGED reported
  PROVE  PanicInv'
<1>1. /\ Depth \in Nat /\ Depth > 0 /\ Top = stack[Depth] /\ RaisedBy
  BY Running DEF PanicInv
<1>2. RaisedBy' /\ Depth' = Depth + 1
  BY <1>1, RaisedPush
<1>3. \A k \in 1 .. Depth + 1 :
        \/ k \in 1 .. Depth /\ stack'[k] = stack[k]
        \/ k = Depth /\ stack'[k] = f
        \/ k = Depth + 1 /\ stack'[k] = g
  BY <1>1 DEF Pushes
<1>4. ~Panicking'
  BY <1>1, <1>2, <1>3 DEF Panicking, Idle
<1>5. ~Trapped'
  <2>1. 2 \in 1 .. Depth + 1 /\ Depth + 1 > 2
    BY <1>1 DEF Idle
  <2>2. CASE stack'[2] = stack[2]
    BY <1>1, <2>2 DEF Trapped, Idle
  <2>3. CASE stack'[2] = f
    BY <2>3 DEF Trapped
  <2> QED BY <1>3, <2>1, <2>2, <2>3
<1> QED BY <1>2, <1>4, <1>5, NoPanicKeeps DEF Idle

(* Running code returns. *)
LEMMA IdleReturns ==
  ASSUME InterruptsInv, PanicInv, Idle, stack' = Rest,
         UNCHANGED interruption_handlers, UNCHANGED reported
  PROVE  PanicInv'
<1>1. /\ stack \in Seq(Frames) /\ Depth \in Nat /\ Depth > 0 /\ RaisedBy
  BY Running DEF PanicInv
<1>2. Pops
  BY <1>1, PopIs
<1>3. RaisedBy' /\ Depth' = Depth - 1
  BY <1>1, <1>2, RaisedPop
<1>4. ~Panicking' /\ ~Trapped'
  BY <1>1, <1>2, <1>3 DEF Panicking, Trapped, Idle, Pops
<1> QED BY <1>3, <1>4, NoPanicKeeps DEF Idle

(* An interrupt that waits to be dispatched now comes from a print. *)
LEMMA IdleIsr ==
  ASSUME InterruptsInv, PanicInv, QuietBoot, Idle, Top.fn = "isr", Top.at # "return"
  PROVE  Top.v = Screen /\ interruption_handlers[Top.v] = "screen_callback"
<1>1. Depth \in Nat /\ Top = stack[Depth] /\ Depth > 1
  BY Running DEF Idle
<1>2. Depth # 2
  BY <1>1 DEF Idle, Trapped
<1>3. Top.v = Screen
  BY <1>1, <1>2 DEF PanicInv, RaisedBy
<1> QED BY <1>1, <1>3, ScreenServes

(* Whatever happens meanwhile, other than steps of _start. *)
LEMMA IdleStep ==
  ASSUME InterruptsInv, PanicInv, QuietBoot, Idle, Next
  PROVE  PanicInv'
<1>1. /\ stack \in Seq(Frames) /\ Depth \in Nat /\ Depth > 1 /\ Top \in Frames
      /\ Top = stack[Depth] /\ Top.fn # "start" /\ interrupts \in BOOLEAN
  BY Running DEF Idle, InterruptsInv, TypeOK
<1>2. ~Boot /\ (~\E v \in Ints : RaiseInt(v)) /\ (~\E v \in Faults : Fault(v))
  BY <1>1 DEF Boot, InitInterruptions, SetInterruptHandler, PrintMessage,
              InitialiseTasking, RaiseInt, Fault
<1>3. CASE \E v \in Lines : Raise(v)
  BY <1>3, PanicQuiet DEF Raise, boot, history
<1>4. CASE \E v \in Lines : Deliver(v)
  <2>1. PICK v \in Lines : Deliver(v)
    BY <1>4
  <2> DEFINE g == Frame("irq", "enter", IntNo(v), 0, interrupts)
  <2>2. /\ interrupts /\ stack' = Append(stack, g)
        /\ UNCHANGED interruption_handlers /\ UNCHANGED reported
    BY <2>1 DEF Deliver, Gate, boot, history
  <2>3. v \in Vectors
    BY InterruptsAssumption DEF IrqVectors, Vectors
  <2>4. g \in Frames /\ g.fn = "irq"
    BY <1>1, <2>3, GateFrame
  <2> HIDE DEF g
  <2>5. Pushes(Top, g)
    BY <1>1, <2>2, <2>4, PushOnTop
  <2>6. Top.fn = "isr" => Top.at = "return"
    <3>1. Top.fn = "isr" /\ Top.at # "return" => Active(Top)
      BY IdleIsr DEF Active
    <3> QED BY <2>2, <3>1, Running
  <2> QED BY <1>1, <2>2, <2>4, <2>5, <2>6, IdlePushes
<1>5. CASE PrintFormat
  BY <1>5, IdleContinues DEF PrintFormat, At, boot, history
<1>6. CASE PrintCall
  <2> DEFINE f == [Top EXCEPT !.at = "free"]
             g == Frame("isr", "enter", Screen, 0, interrupts)
  <2>1. /\ Top.fn = "print" /\ stack' = Append(Append(Rest, f), g)
        /\ UNCHANGED interruption_handlers /\ UNCHANGED reported
    BY <1>6 DEF PrintCall, At, Gate, IntNo, OwnStub, IrqVectors, Screen, boot, history
  <2>2. f \in Frames /\ f.fn = Top.fn /\ f.v = Top.v
    BY <1>1, TopAt
  <2>3. Screen \in Vectors /\ 0 \in 0 .. ReportLines + DebugLines
    BY InterruptsAssumption DEF Screen, Vectors
  <2>4. g \in Frames /\ g.fn = "isr" /\ g.v = Screen
    BY <1>1, <2>3, FrameType
  <2> HIDE DEF f, g
  <2>5. Depth > 0
    BY <1>1
  <2>6. Pushes(f, g)
    BY <1>1, <2>1, <2>2, <2>4, <2>5, PushIs
  <2> QED BY <2>1, <2>2, <2>4, <2>6, IdlePushes
<1>7. CASE PrintFree \/ InterruptReturn \/ DebugReturn
  BY <1>7, IdleReturns DEF PrintFree, InterruptReturn, DebugReturn, boot, history
<1>8. CASE IsrEnter
  <2>1. Top.fn = "isr" /\ Top.at = "enter"
    BY <1>8 DEF IsrEnter, At
  <2>2. Top.v = Screen
    BY <2>1, IdleIsr
  <2>3. Continue("dispatch") /\ UNCHANGED interruption_handlers /\ UNCHANGED reported
    BY <1>8, <2>2 DEF IsrEnter, Screen, DEFAULT_IRS, boot, history
  <2> QED BY <2>1, <2>3, IdleContinues
<1>9. CASE IrqEnter
  BY <1>9, IdleContinues DEF IrqEnter, At, boot, history
<1>10. CASE TimerCallback \/ ScreenCallback \/ IdleCallback
  BY <1>10, IdleContinues
     DEF TimerCallback, ScreenCallback, IdleCallback, Dispatching, boot, history
<1>11. CASE ScreenWritten
  <2>1. UNCHANGED reported
    <3>1. Depth > 2 => Depth - 2 \in 1 .. Depth
      BY <1>1
    <3> QED BY <1>11, <3>1 DEF ScreenWritten, Idle, Panicking
  <2> QED BY <1>11, <2>1, IdleContinues DEF ScreenWritten, boot
<1>12. ASSUME Unhandled \/ PrintingCallback
       PROVE  Unhandled /\ Top.fn = "irq"
  <2>1. Dispatching /\ interruption_handlers[Top.v] \in {nullptr, "debug", "page_fault"}
    BY <1>12 DEF Unhandled, PrintingCallback, Handler, Dispatching
  <2>2. Top.fn # "isr"
    BY <2>1, IdleIsr DEF Dispatching, nullptr
  <2>3. Top.fn = "irq"
    BY <2>1, <2>2 DEF Dispatching
  <2>4. ~PrintingCallback
    BY <2>3, Running DEF PrintingCallback, Handler, InterruptsInv, LineHandlers
  <2> QED BY <1>12, <2>3, <2>4
<1>13. CASE Unhandled \/ PrintingCallback
  <2> DEFINE f == [Top EXCEPT !.at = "return"]
  <2>1. /\ Top.fn = "irq" /\ Call("return", PrintFrame)
        /\ UNCHANGED interruption_handlers /\ UNCHANGED reported
    BY <1>12, <1>13 DEF Unhandled, boot, history
  <2>2. stack' = Rest \o <<f, PrintFrame>>
    BY <2>1, CallIs
  <2>3. f \in Frames /\ f.fn = Top.fn /\ f.v = Top.v
    BY <1>1, TopAt
  <2> HIDE DEF f
  <2>4. Depth > 0
    BY <1>1
  <2>5. Pushes(f, PrintFrame)
    BY <1>1, <2>2, <2>3, <2>4, PushIs, PrintFrameType
  <2> QED BY <2>1, <2>3, <2>5, IdlePushes, PrintFrameType
<1>14. CASE PrintLine
  <2> DEFINE f == [Top EXCEPT !.left = @ - 1]
  <2>1. /\ Top.fn \in {"debug", "panic"} /\ Top.left > 0
        /\ UNCHANGED interruption_handlers /\ UNCHANGED reported
    BY <1>14 DEF PrintLine, boot, history
  <2>2. stack' = Rest \o <<f, PrintFrame>>
    BY <1>14 DEF PrintLine
  <2>3. Top.left - 1 \in 0 .. ReportLines + DebugLines
    BY <1>1, <2>1, InterruptsAssumption DEF Frames
  <2>4. f \in Frames /\ f.fn = Top.fn /\ f.v = Top.v
    BY <1>1, <2>3 DEF Frames
  <2> HIDE DEF f
  <2>5. Depth > 0
    BY <1>1
  <2>6. Pushes(f, PrintFrame)
    BY <1>1, <2>2, <2>4, <2>5, PushIs, PrintFrameType
  <2> QED BY <2>1, <2>4, <2>6, IdlePushes, PrintFrameType
<1> QED BY <1>2, <1>3, <1>4, <1>5, <1>6, <1>7, <1>8, <1>9, <1>10, <1>11, <1>13, <1>14
        DEF Next, Step

(* The gate that is entered from _start, by an interrupt or a line. *)
LEMMA StartGate ==
  ASSUME InterruptsInv, PanicInv, Depth = 1, NEW v \in Vectors, NEW kind \in {"isr", "irq"},
         Gate(stack, v, kind), UNCHANGED interruption_handlers, UNCHANGED reported
  PROVE  PanicInv'
<1> DEFINE g == Frame(kind, "enter", IntNo(v), 0, interrupts)
<1>1. /\ stack \in Seq(Frames) /\ Depth > 0 /\ Top = stack[1] /\ Top.fn = "start" /\ RaisedBy
      /\ Depth \in Nat /\ interrupts \in BOOLEAN /\ Top \in Frames
  BY Running DEF PanicInv, InterruptsInv, TypeOK
<1>2. stack' = Append(stack, g) /\ interrupts' = FALSE
  BY DEF Gate
<1>3. g \in Frames /\ g.fn = kind
  BY <1>1, GateFrame
<1> HIDE DEF g
<1>4. Pushes(Top, g)
  BY <1>1, <1>2, <1>3, PushOnTop
<1>5. RaisedBy' /\ Depth' = 2
  BY <1>1, <1>4, RaisedPush
<1>6. stack'[1] = Top /\ stack'[2] = g
  BY <1>4 DEF Pushes
<1>7. ~Panicking /\ ~Panicking'
  <2>1. /\ \A k \in 1 .. 1 : k = 1
        /\ \A k \in 1 .. 2 : k = 1 \/ k = 2
    OBVIOUS
  <2> QED BY <1>1, <1>3, <1>5, <1>6, <2>1 DEF Panicking
<1>8. PrintsAbove(2)'
  BY <1>2, <1>5 DEF PrintsAbove
<1> QED BY <1>5, <1>7, <1>8, NoPanicKeeps

(* The steps of _start. *)
LEMMA StartBoots ==
  ASSUME InterruptsInv, PanicInv, Boot
  PROVE  PanicInv'
<1>1. /\ stack \in Seq(Frames) /\ Depth = 1 /\ Top = stack[1] /\ Top.fn = "start"
      /\ Top \in Frames
  BY Running DEF Boot, InitInterruptions, SetInterruptHandler, PrintMessage, InitialiseTasking
<1>2. /\ UNCHANGED reported
      /\ UNCHANGED stack \/ Call("run", PrintFrame)
  BY DEF Boot, InitInterruptions, SetInterruptHandler, PrintMessage, InitialiseTasking, history
<1>3. /\ Depth' = 1 \/ (Depth' = 2 /\ stack'[2] = PrintFrame)
      /\ stack'[1].fn = "start"
  <2>1. CASE UNCHANGED stack
    BY <1>1, <2>1 DEF Depth
  <2>2. CASE Call("run", PrintFrame)
    <3> DEFINE f == [Top EXCEPT !.at = "run"]
    <3>1. stack' = Rest \o <<f, PrintFrame>>
      BY <2>2, CallIs
    <3>2. f \in Frames /\ f.fn = "start" /\ Depth > 0
      BY <1>1, TopAt
    <3> HIDE DEF f
    <3>3. Pushes(f, PrintFrame)
      BY <1>1, <3>1, <3>2, PushIs, PrintFrameType
    <3> QED BY <1>1, <3>2, <3>3 DEF Pushes, Depth
  <2> QED BY <1>2, <2>1, <2>2
<1>4. \A k \in 1 .. Depth' : k = 1 \/ (k = 2 /\ stack'[2] = PrintFrame)
  BY <1>3
<1>5. ~Panicking /\ ~Panicking' /\ ~Trapped' /\ RaisedBy'
  <2>1. ~Panicking
    BY <1>1 DEF Panicking
  <2>2. ~Panicking'
    BY <1>3, <1>4, PrintFrameType DEF Panicking
  <2>3. ~Trapped'
    BY <1>3, PrintFrameType DEF Trapped
  <2>4. RaisedBy'
    BY <1>3 DEF RaisedBy
  <2> QED BY <2>1, <2>2, <2>3, <2>4
<1>6. interruption_handlers'[Screen] \in {nullptr, "screen_callback"}
  <2>1. CASE UNCHANGED interruption_handlers
    BY <2>1 DEF PanicInv
  <2>2. CASE SetInterruptHandler
    <3> DEFINE n == BootOrder[stage].n
               h == BootOrder[stage].h
    <3>1. /\ BootOrder[stage].op = "set" /\ stage \in 1 .. 10
          /\ interruption_handlers' = [interruption_handlers EXCEPT ![n] = h]
      BY <2>2, BootSteps DEF SetInterruptHandler, BootOp, Booted, InterruptsInv, TypeOK
    <3>2. h = "screen_callback" <=> n = Screen
      BY <3>1, BootSteps DEF BootStep
    <3>3. interruption_handlers \in [Vectors -> Handlers] /\ Screen \in Vectors
      BY DEF InterruptsInv, TypeOK, Screen, Vectors
    <3> HIDE DEF n, h
    <3>4. CASE n = Screen
      BY <3>1, <3>2, <3>3, <3>4
    <3>5. CASE n # Screen
      BY <3>1, <3>3, <3>5 DEF PanicInv
    <3> QED BY <3>4, <3>5
  <2> QED BY <2>1, <2>2 DEF Boot, InitInterruptions, PrintMessage, InitialiseTasking
<1>7. reported' = 0
  BY <1>2, <1>5 DEF PanicInv
<1>8. (\A k \in 1 .. Depth : stack[k].fn = "panic" =>
         k = 3 /\ PrintsAbove(3) /\ reported + stack[3].left + Unprinted = ReportLines)'
  BY <1>5 DEF Panicking
<1> QED BY <1>5, <1>6, <1>7, <1>8 DEF PanicInv

(* Whatever happens while _start runs. *)
LEMMA StartStep ==
  ASSUME InterruptsInv, PanicInv, Depth = 1, Next
  PROVE  PanicInv'
<1>1. Top.fn = "start" /\ Top.at # "screen"
  BY Running
<1>2. /\ ~PrintFormat /\ ~PrintCall /\ ~PrintFree /\ ~IsrEnter /\ ~IrqEnter
      /\ ~Unhandled /\ ~TimerCallback /\ ~ScreenCallback /\ ~ScreenWritten
      /\ ~IdleCallback /\ ~PrintingCallback /\ ~InterruptReturn /\ ~PrintLine /\ ~DebugReturn
  BY <1>1 DEF PrintFormat, PrintCall, PrintFree, IsrEnter, IrqEnter, At, Unhandled,
              TimerCallback, ScreenCallback, ScreenWritten, IdleCallback, PrintingCallback,
              InterruptReturn, PrintLine, DebugReturn, Dispatching
<1>3. CASE \E v \in Lines : Raise(v)
  BY <1>3, PanicQuiet DEF Raise, boot, history
<1>4. CASE \E v \in Lines : Deliver(v)
  <2>1. PICK v \in Lines : Deliver(v)
    BY <1>4
  <2>2. v \in Vectors
    BY InterruptsAssumption DEF IrqVectors, Vectors
  <2> QED BY <2>1, <2>2, StartGate DEF Deliver, boot, history
<1>5. CASE \E v \in Ints : RaiseInt(v)
  <2>1. PICK v \in Ints : RaiseInt(v)
    BY <1>5
  <2>2. v \in Vectors
    BY InterruptsAssumption DEF Vectors
  <2> QED BY <2>1, <2>2, StartGate DEF RaiseInt, boot, history
<1>6. CASE \E v \in Faults : Fault(v)
  <2>1. PICK v \in Faults : Fault(v)
    BY <1>6
  <2>2. v \in Vectors
    BY InterruptsAssumption DEF Vectors
  <2> QED BY <2>1, <2>2, StartGate DEF Fault, boot, history
<1> QED BY <1>2, <1>3, <1>4, <1>5, <1>6, StartBoots DEF Next, Step

(* Every step keeps what is known of panics, and takes one further. *)
LEMMA PanicPreserved ==
  ASSUME InterruptsInv, PanicInv, QuietBoot, [Next]_vars
  PROVE  PanicInv' /\ PanicAdvances
<1>1. CASE UNCHANGED vars
  BY <1>1, PanicQuiet DEF vars, boot, history
<1>2. CASE Next /\ Panicking
  BY <1>2, PanicStep
<1>3. CASE Next /\ ~Panicking
  <2>1. Depth = 1 \/ Depth > 1
    BY Running
  <2>2. PanicInv'
    BY <1>3, <2>1, StartStep, TrapStep, IdleStep DEF Idle
  <2> QED BY <1>3, <2>2 DEF PanicAdvances
<1> QED BY <1>1, <1>2, <1>3

(* On a quiet boot there is at most one panic.  It runs with interrupts    *)
(* disabled until it halts, nothing but it and its prints runs any more,   *)
(* every step of theirs leaves it less to do, and when it has halted all   *)
(* lines of its report have reached the screen: PANIC and throw_exception  *)
(* do what design_notes.md says of them, however long the report is.       *)
THEOREM InterruptsPanicReports ==
  QuietBoot => (Spec => [](PanicInv /\ HaltReported) /\ [][PanicAdvances]_vars)
<1> SUFFICES ASSUME QuietBoot
             PROVE  Spec => [](PanicInv /\ HaltReported) /\ [][PanicAdvances]_vars
  OBVIOUS
<1>1. Init => PanicInv
  <2> SUFFICES ASSUME Init PROVE PanicInv
    OBVIOUS
  <2>1. InterruptsInv
    BY InitHolds
  <2>2. Depth = 1 /\ Top = stack[1] /\ Top.fn = "start"
    <3>1. Depth = 1
      BY DEF Init, Depth
    <3> QED BY <2>1, <3>1, Running
  <2>3. ~Panicking /\ ~Trapped /\ RaisedBy
    BY <2>2 DEF Panicking, Trapped, RaisedBy
  <2>4. interruption_handlers[Screen] = nullptr
    BY DEF Init, Screen, Vectors
  <2> QED BY <2>3, <2>4 DEF PanicInv, Panicking, Init
<1>2. InterruptsInv /\ PanicInv /\ [Next]_vars => PanicInv' /\ PanicAdvances
  BY PanicPreserved
<1>3. InterruptsInv /\ PanicInv => HaltReported
  <2> SUFFICES ASSUME InterruptsInv, PanicInv, Halted PROVE reported = ReportLines
    BY DEF HaltReported
  <2>1. Depth \in Nat /\ Depth > 0 /\ Top = stack[Depth] /\ Top.fn = "panic" /\ Top.left = 0
    BY Running DEF Halted
  <2>2. Panicking
    BY <2>1 DEF Panicking
  <2>3. /\ Depth = 3 /\ reported + stack[3].left + Unprinted = ReportLines
        /\ reported \in Nat
    BY <2>1, <2>2, PanicPlace DEF PanicInv
  <2>4. stack[3].left = 0 /\ Unprinted = 0
    BY <2>1, <2>3 DEF Unprinted
  <2> QED BY <2>3, <2>4
<1> QED BY <1>1, <1>2, <1>3, InitHolds, NextPreserves, PTL DEF Spec
============================================================================
