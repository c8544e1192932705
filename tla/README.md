# MushOS: a verification project

MushOS is a 32-bit x86 kernel with its own freestanding library, MushLib. This
directory holds TLA+ models of the parts that carry its logic, TLC
configurations that check them, and TLAPS proofs, for every value of the
constants, of the safety properties that the configurations check on small
instances.

## Inventory

One CPU, no user mode: everything runs in ring 0. Concurrency comes from
hardware interrupts and from the tasks that the timer switches between. The
only mutual exclusion is the IF flag: `cli`/`sti` in `fork` and
`initialise_tasking`, and the interrupt gates of the IDT.

| Part | State it keeps | Operations | Talks to |
| --- | --- | --- | --- |
| Heap (`lib/base/heap.c`) | `first_address`, a header in front of every block (`size`, `previous`, `next`) | `ralloc`, `zalloc`, `challoc`, `unalloc`, `size_of`, `occupation` | throws through the exception table; used by every part that prints, by paging and by `fork` |
| Kernel allocation handler (`core/kernel/heap.c`) | none | hangs | heap |
| Tasks (`task.c`) | `current_task`, `ready_queue`, `next_pid`, the task list | `initialise_tasking`, `fork`, `switch_task`, `getpid` | timer callback, `clone_directory`, heap |
| Paging (`pages.c`) | two bitmaps, `kernel_directory`, `current_directory`, the tables themselves | `initialise_paging`, `clone_directory`, `page_fault` | heap (bitmaps), `fork`, `switch_task` |
| Interrupts (`interruption_tables.c`, `interruptions.asm`) | IDT, `interruption_handlers`, PIC in-service bits | `init_interruptions`, `set_interrupt_handler`, `isr_handler`, `irq_handler` | every driver, `PANIC` |
| Exceptions (`exceptions.c`) | handler table | `throw_exception`, `handle_exceptions`, `terminate` (empty) | console output |
| Console (`stdio.h`, `syscall.h`) | none but the caller's stack | `print_formatted` = `format` + `int 48` + `unalloc`; `call_system`, `call_system_ret` | heap, screen |
| Screen (`screen.c`) | VGA memory, hardware cursor | `screen_callback` and its six calls | `int 48` |
| Timer, keyboard, module loader | tick count; nothing; placement | callbacks on IRQ 0, 1, 14 | interrupts |
| Disk (`disk.asm`), boot loader (`loader.asm`) | drive registers | PIO read; BIOS read | module loader; boot |
| Strings, formatting, memory | none (pure, but they allocate) | `format` and its conversions | heap |
| VFS, port access | none | | |

What is hard here, and what makes each part correct:

- the heap is shared by all tasks and by interrupt handlers and has no lock; the
  list must be in order after *every store*, blocks must not overlap, a search
  must end, and an exhausted heap must be noticed;
- `fork` and `switch_task` return twice, on two copies of a stack, through a
  sentinel in `eax`; a tick may arrive at any instruction where IF is set, also in
  the middle of the unwinding of an earlier tick;
- `clone_directory` must give a child private copies of the stack pages and the
  very same kernel, or loading `cr3` in `switch_task` would pull the code away;
- interrupts are enabled before handlers exist, handlers print, printing
  allocates and raises an interrupt of its own, and a panic reports through the
  same path;
- a print goes through three conventions (variadic arguments, dwords on the stack
  of another function, a cursor in two byte registers) that no type checks, and
  its arithmetic has edges at the ends of the screen and of the number range;
- the disk driver polls a drive that works on its own and whose errors, pauses
  between sectors and refused commands come when it does not look.

`PROJECT.json` lists every hazard at its line with the properties about it.

## Modules

| Module | Models | Composition |
| --- | --- | --- |
| `HeapSpec` | what `heap.h` promises: a set of disjoint blocks | abstract specification |
| `Heap` | `heap.c`, one action per store to the list that another context can see and per turn of the search | implements `HeapSpec` (`ImplementsHeapSpec`) |
| `HeapProofs` | theorems about the list of `Heap` | extends `Heap` |
| `Tasking` | `task.c`, the tick of `timer.c`, `get_instruction_pointer` | |
| `TaskingProofs` | theorems about `Tasking` | extends `Tasking` |
| `AddressSpace` | private user pages per directory | abstract specification |
| `Paging` | `pages.c` | implements `AddressSpace` (`ImplementsAddressSpace`) |
| `PagingProofs` | theorems about `Paging` | extends `Paging` |
| `Interrupts` | IDT, dispatch, boot order, printing, PANIC, PICs | |
| `InterruptsProofs` | theorems about `Interrupts` | extends `Interrupts` |
| `Format` | `format.c`, the string functions it uses, `vararg.h` | |
| `Syscall` | `syscall.h`: a stack of dwords | |
| `Terminal` | what a text screen promises: rows of cells and a head | abstract specification |
| `Screen` | `screen.c`: text buffer, cursor registers, scrolling | |
| `Console` | `print_formatted`, system calls and `screen_callback` | extends `Format`, `Syscall` and `Screen`; implements `Terminal` (`ImplementsTerminal`) |
| `FormatProofs` | theorems about the conversions and the loop of `format` | extends `Format` |
| `ConsoleProofs` | theorems about `Console` | extends `Console` and `FormatProofs` |
| `Disk` | `read_disk` of `disk.asm` and `load_module`, with a concurrent ATA drive | |
| `DiskProofs` | theorems about `Disk` | extends `Disk` |
| `Loader` | the boot sector `loader.asm`, with a theorem | |
| `MCConsole`, `MCDisk` | the texts, calls and modules of the runs | |

### Heap

Variables `first`, `size`, `previous`, `next` are the header fields, indexed by
block pointer; `pc`, `want`, `cur`, `nxt`, `best`, `blk`, `old` are the locals of each
context's call. `live` and `asked` record what callers own. `u_dword` arithmetic
wraps modulo `Word`. `Masked` says that operations run with interrupts disabled;
`Careful` says that callers stay inside what the code really checks (no request
larger than an empty heap, no in-place growth into the next header);
`HandlerHalts` chooses between the kernel's handler, which hangs, and MushLib's,
which returns. `zalloc` is `Ralloc`: it clears only the block it has just got. The
three stores to the header of a block that is not linked yet are one action
(`WriteHeader`), as are the loads of one turn of the search (`ScanGap`).

### Tasking

`stack` maps each page directory to its copy of the stack, a sequence of
activation records; `esp` is a depth in it. `ebp` is saved and loaded with `esp`
and names the same record. An `eip` is the label behind a call of
`get_instruction_pointer`. `ForkClone` copies the stack at the point where
`clone_directory` does, so the child has `parent_task` and not `new_task`. Loading a
stack cuts it at `esp`. `MaxTasks` is the room in the heap; a fork beyond it hangs.

### Paging

Physical memory is pages of `PagesInTable` entries, and directories, tables and stack
pages are all just memory, so that a folder at frame 0 or a shared frame does what it
would do on the machine. The identity map, both allocators, and each turn of the
loops of `clone_directory` and `clone_table` are actions. Tasks write to their stacks
between clones only, because `fork` calls `clone_directory` with interrupts disabled;
so nothing interleaves with the copy of a page. `create_page_entry` leaves
six flag bits uninitialised; none of them is read by the code or, with CR4.PSE and
PGE clear, changes a translation, so they are left out.

### Interrupts

One stack of activation records; the top one runs. A print is three steps (format,
`int 48`, release). `BootOrder` is `_start` seen from the handler table. The two 8259s
are external: fully nested priorities, a non-specific end of interrupt.
`switch_task` appears as its effect on IF. The module covers the first task up to `fork`.
Hardware interrupts come wherever IF is set, faults wherever `_start` itself runs, and
software interrupts, which stand for later code of `_start`, once it has initialised
everything.

### Console

A call is a sequence of steps: `format` reads its template character by character
(`FormatChar`, `FormatPlaceholder`, `FormatPlain`, `FormatEnd`), `PrintCall` pushes five dwords
and raises `int 48`, `screen_callback` reads them back through the saved `ebp`, prints
each character with `print_char_color` and answers into the slot of argument 0, and
`Return` and `Release` clean up. Direct system calls enter at the same callback.

Texts are sequences of characters; constant words (`true`, `.null`, `0x`) are one
character. A conversion yields its text and its *traffic*: blocks left and most blocks
held. A number is what its digits are, computed as `int_to_string` does, with `Word`
for 2^32 and the powers of the base (`mult`) that its loops multiply and divide by; a
double is its whole part and its digits behind the point, both of them inputs: the
cast and the loop that shifts the fraction (`format.c:69`, `73-75`) are not modelled.
`int_to_string`
writes no digit for 0, so a part of a double that is 0 shows whatever byte the block
held: the argument carries that byte (`unwritten`), a character or the end of the
text. Offsets of the screen count cells; `Half` is 2^31, where a `u_dword` byte offset
wraps, `CursorRange` the 16 bits of the cursor registers. `outside` records writes that
leave the buffer; what lies there (the heap, `kernel.c:27-28`, reaches over the buffer)
is not modelled.

`Terminal` knows rows, a head and scrolling, and no offsets. The cursor maps to its row
and column, or to "off the screen", where nothing is promised until a call brings
it back. `asked`, what was asked for last, is taken from the caller's arguments and
not from what the driver read from the stack, so a wrong argument shows.

### Disk

One action per instruction or loop turn that touches the drive. The drive is
external: busy or ready, an error flag that rises before the busy flag falls, a pause
or none between two sectors, and, if it is given a command while it is busy or has
data to deliver, the freedom to ignore it. The word at position p of the disk is p,
so a block shows where its words came from. `start` records the drive as it stood when
the command of the call was sent. `load_module` enters `read_disk` with
every module of the constant `Modules`; its two `info()` lines and a `ralloc` that fails (and
hangs) are left out. Nothing in the kernel calls `load_module` yet.

### Loader

The boot sector with its real mode stack, whose words are named after what they
hold. The BIOS is external: it reads all sectors, fewer, or sets the carry flag.

## Runs

| Run | Bounds | Shows |
| --- | --- | --- |
| `heap` | 9 bytes, 1-byte headers, sizes 1 and 4, two contexts, masked | all sequences of calls (162 000 states): up to four live blocks, fragmentation, exact fits, refusals, wraps behind the last block, failed and successful moves of `challoc`; masking is enough for the inductive invariant `HeapInv`, of which `TypeOK` is a part, and for fresh results |
| `tasking` | 3 tasks, 3 forks (one beyond the heap), depth 6, nested ticks | stacks, queue, directories and `fork`'s two results at every instruction boundary that matters |
| `tasking_live` | 3 tasks, 2 forks, no nested ticks | round robin: every task runs again and again, every child returns |
| `paging` | tables of 4 entries, 12 kernel pages, 2 stack pages, 2 clones (also of a clone) | both pools exactly full and never asked for more (`PoolsSuffice`); private stacks, shared kernel, refinement |
| `interrupts` | IRQ 0, 1 and 14 wherever IF is set, `int` 49, 50 and 200 after boot, two faults wherever `_start` runs, depth 8 | printing finds its handler, the screen is not re-entered, registered handlers stay away from the heap, panics report and stop, every line is served |
| `console` | 3 by 5 cells, 7-bit numbers, 23 prints and 8 system calls, three in a row | 217 000 states: the screen is a terminal, templates expand, numbers read back, no block or stack word is left, every call returns |
| `disk` | sectors of 8 bytes, a 2-bit sector count, modules at every even byte of the first sector and just behind it, up to 18 bytes long, three loads | 348 000 states: what a load reads from a drive that pauses, fails or ignores commands, and when it waits forever |

`heap` needs three blocks for an inner gap with two live neighbours, a fourth for another gap (the first or the last) to choose between, and block lengths of both parities for gaps too small by one byte; `tasking`
needs three tasks for a queue with an inner element and a wrap; `paging` needs a
clone of a clone. `console` needs three rows for a scroll with a row in the middle, five
columns for a tab that fits and one that wraps, three calls for a cursor that is moved
off the screen, printed at and read; its numbers sit at the powers of each base and at
both ends of the range. `disk` needs a second load for what the first one left in the
drive. The scaled registers keep what matters: `CountRange` divides `SectorBytes`, as 256
divides 512. Deadlock is not checked where the system really stops: in `heap_preempted`
and `tasking` on an exhausted heap, in `interrupts` after a panic, in the runs of `Disk` and
in `loader` after the last load or in an endless loop.

Runs that expect a violation show where the code and its own words disagree:

| Run | Property | Disagreement |
| --- | --- | --- |
| `heap_preempted` | `ReturnsFreshBlock` | unmasked use of the heap hands out a block twice |
| `heap_challoc` | `BlocksDisjoint` | in-place growth covers the next header |
| `interrupts_early` | `PrintFindsScreen` | an interrupt before `init_screen_io` recurses |
| `disk_leftover` | `LoadsModule` | `read_disk` shifts left to "Divide ebx by sector size" (`disk.asm:20`), asks for 256 sectors and never drains what remains (`disk.asm:110`); the next load meets a drive that ignores its command and reads what the first one left |
| `loader` | `HangsOnError` | on a BIOS error the boot sector returns to a saved register |

Smaller disagreements that the model makes plain and no run is spent on:
`ralloc` asks the gap behind the last block for two headers, so it throws although the
block fits (`ThrowMeansNoGap` states exactly how much is lost; `heap.h:73` says "if no
free space is available"); `occupation()` returns the number of blocks, not the
"percent of allocated space" of `heap.h:57`; `terminate()` is empty, so after a failed
allocation an app runs on with a null pointer, and a `challoc` that fails this way
has released the old block as well (`heap.c:109`: "heap exception terminate app").
A fork after the paging pool is used up gets a page directory at physical address 0
(`pages.c:66`: "TODO: raise out of RAM exception!"); the `paging` run ends with both pools
exactly full, and `PagingPoolsSuffice` says how many forks that is. A line without a handler makes `irq_handler` print, and so allocate,
perhaps inside an interrupted `ralloc` (`HandlersAvoidHeap` states that nothing else
does). `%f` prints its fraction as a number, so 1.05 shows as 1.500, its leading zero
lost, and shows an unwritten byte for a part that is 0 (`NumbersReadBack` states which
doubles come out right). `call_system_ret` with two or more arguments returns the last
argument (`CallLeavesNoTrace` states the case of one). `SET_CHARS` falls through to
`GET_CURSOR`. The check in `set_cursor_offset` is commented out ("simple check not
working"), and a backspace at the first cell scrolls the screen and sends the cursor
off it.

`LoadsModule` says what `load_module` is for, without exemptions, and is false for two more
reasons, which `disk_leftover` keeps out by loading modules of the first sector only: `rep
insw` reads on while the drive is busy between two sectors (`disk.asm:98`), and from the
second sector on `load_module` passes the sector and the whole offset, so the offset is
skipped twice (`modules.c:30`). What the `disk` run checks is what the driver does get right
all the same. A module of the first sector is loaded by every call whose command the
drive takes (`ModuleLoaded`). And `DataInOrder` has no call exempt: the block is made of the
consecutive words behind the offset from wherever the drive stood, also after an ignored
command, all of them while the drive keeps up, and up to the end of the sector in which
it stood however slow it is. The result of `read_disk` is stored where `popa` discards it
(`disk.asm:117`: "Change saved eax to current."), so `load_module` never sees an error.

The stub shared by vectors 53 to 255 pushes the timer's number (`interruption_tables.c:118`),
so an undefined software interrupt switches tasks and counts a tick, although `task.h:21`
says of `switch_task` "Called by the timer hook"; in `interrupts`, `int` 200 does so.

### Fairness

- `Heap`: weak fairness of each context's steps; the CPU executes an operation to
  its end.
- `Tasking`: weak fairness of the CPU's steps and of the tick (the PIC keeps a tick
  pending until it is taken). Strong fairness of `InitialiseTasking` and `ForkChild`:
  a tick lasts 10 ms, so a task that gets the CPU again and again at these places is
  not always interrupted before its next instruction. `tasking_live` leaves nested
  ticks out: with them a task could be kept unwinding by ticks that come faster than
  they are served.
- `Console`: weak fairness of the steps of a call, written without `ENABLED`: the run
  has no deadlock, so a step is possible wherever `pc` is not `"idle"`.
- `Disk`: weak fairness of the driver and of the drive: a busy drive comes to an end,
  with data or with an error.
- `Interrupts`: weak fairness of the CPU, strong fairness of the delivery of each
  line: serving a line takes less time than passes until it fires again.

## Proofs

Every safety property that a passing run checks, invariant, action property or
refinement, is a theorem as well. Liveness is left to TLC, but what it rests on besides
fairness is proved: a measure of the work left, which is bounded and which every step
makes smaller, in the theorems named `...Progress` and their like. Each proof has the same
shape: an inductive invariant, one lemma per action that preserves it (the
parts that the action cannot disturb come from a frame lemma), and the property
as a consequence. The invariants were checked with TLC on the runs' constants before
they were proved. The constants range over all values that the `ASSUME` of the module
allows; the hypotheses that a theorem has besides are named here.

### Heap (`HeapProofs`)

Hypotheses: `Careful` on the constants and `OneAtATime` on the behaviour: no operation
starts or goes on while another one is under way (`Undisturbed`). Without either the
properties are false, which is what `heap_challoc` and `heap_preempted` show. heap.c does
nothing for the second one. `HeapUndisturbed` says when it holds all the same: when
operations run with interrupts disabled (`Masked`), as in `fork` and the handlers, or when
there is a single context, as from boot to the first `fork`. Two tasks that print are
neither.

- `HeapUndisturbed`: `Masked \/ (\A c, d \in Contexts : c = d) => (Spec => OneAtATime)`;
- `HeapInvariance`: `Careful => (Spec /\ OneAtATime => []HeapInv)`, and under the same
  hypotheses:
- `HeapTypeCorrect`, `HeapSafety`, `HeapListOrdered`, `HeapReturnsFresh`, `HeapKeepsSizes`:
  `TypeOK`, `BlocksDisjoint`, `ListInOrder`, `ReturnsFreshBlock`, `SizeRecoverable`;
- `HeapImplementsSpec`: `ImplementsHeapSpec`;
- `HeapSearchInvariance`, `HeapBestFit`, `HeapThrowMeansNoGap`: `SearchInv`, `BestFit`,
  `ThrowMeansNoGap`;
- `HeapProgress`: `[]WorkBounded` and `[][WorkDecreases]_vars`.

The safety properties are not inductive: that linking a block keeps the list in
order depends on what `ralloc` read many steps before. `HeapInv` adds `OneActive`
(at most one context is inside the heap) and `Knows(c)`: at each label, what the
context has read is still true; in particular the best gap so far is a `RealGap`,
whose two neighbours are neighbours and which holds the block with its header.
The arithmetic of the three kinds of gap, with the wrap behind the last block, is in
`FirstGapReal`, `InnerGapReal` and `LastGapReal`, the linked-list reasoning in `InsertNext`,
`InsertPrevious`, `RemoveNext` and `RemovePrevious`. The refinement maps `blocks` to the sizes
of the blocks in use; a block appears at `Publish`, goes at `Unalloc` or
`CopyAndRelease`, and changes at the in-place `challoc`.

`HeapInv` says that the remembered gap is real, not that it is the best.
`SearchInv` compares it with the gaps *passed*: `Kept(b, n, L)` says that `b` is the
tightest gap of `L` that holds the request, the lowest among equals, or nothing if
there is none. The lemmas show that each look at a gap extends `Kept` by this gap, and
that the gaps passed are all gaps when the search ends.

`WorkLeft` of a context is the rank of its label times the size of the heap, plus, in the
search of `ralloc`, the part of the heap behind the current block. Every step of anybody
makes it smaller while an operation is under way: the context inside is the only one
that runs, and the search moves to higher addresses because the list is in address
order. So an operation takes at most `12 * (HeapEnd - HeapStart + 1)` steps, and while it
is under way all others are idle (`OthersIdle`).

### Tasks (`TaskingProofs`)

No hypotheses: any number of tasks, forks and nested ticks. `TaskingInvariance`
(`TaskingInv`), and from it `TaskingTypeCorrect`, `TaskingOwnFrame`, `TaskingResumable`,
`TaskingAddressSpace`, `TaskingQueue` and `TaskingForkTells`.

That the code finds its own record after a switch depends on what another task saved
many ticks ago. The invariant therefore describes whole stacks: `Link` says which record
may lie on which (a stub on what can be interrupted, `switch_task` on a stub, `fork` on
`main` only) and what it must hold so that its return leads to the right place; `Linked`
says it of the first n records; `Suspended` says that what a task that is not running
saved is a record of its own linked stack. `Queue` orders the ready queue,
`OwnDirectories` keeps the directories of two tasks apart, and `Told` relates `returned` to
the two labels at which `fork` returns. The order of the queue is proved with the
least element of a set of numbers, from well-foundedness, because the enumeration of
the queue is a recursive function.

`TaskingMaskedEnds` and `TaskingRoundRobin` are about what `EveryTaskRuns` rests on. From every
label at which interrupts can be disabled it takes at most five steps to enable them
(`MaskedSteps`), except at the label where `fork` hangs on an exhausted heap; a child is
included, which leaves `fork` in the IF that `switch_task` restored. `Turns(t)` is how many
picks `t` is away from its own: at most a round, one fewer with every pick, and one more
only when a `fork` appends a task in front of it.

### Paging (`PagingProofs`)

- `PagingTypeCorrect`: `TypeOK`, without hypotheses, also beyond the end of the pools;
- `PagingInvariance`, `PagingKernelMapped`, `PagingUserPagesPrivate`, `PagingFoldersInPool`,
  `PagingImplementsAddressSpace`: the invariants and the refinement, for behaviours
  in which no allocator is asked for more than it has (`[]PoolsSuffice`);
- `PagingPoolsSuffice`: `Enough => (Spec => []PoolsSuffice)`, where `Enough` counts: the
  folders of the kernel and of `MaxClones` clones fit the paging pool, and the stack
  pages of as many clones fit the user space;
- `PagingWithinPools`: the two together, a statement about the constants alone.

The hypothesis is needed: behind the last folder `allocate_page_folder` answers
nullptr and a directory is built at physical page 0. The constants of the run meet
`Enough` exactly.

The properties speak of finished directories; the invariant also describes the
directory and the table that are being filled. `Shape` has six parts: directories point
to their tables (`DirectoriesGood`), folders come from the pool and are directories or
tables (`FoldersGood`), a table with stack pages has one owner (`TablesPrivate`), a table
stands at one index (`OneIndex`), filled entries map what they should (`EntriesGood`), and
no two entries for the stack have the same frame (`FramesPrivate`). Everything the code
does to memory is one of three kinds of step (no new table, a new table, a new entry),
and there is one lemma for each (`NoNewTable`, `NewTable`, `NewEntry`). The refinement needs `ContentsInv`: the pages cloned so far have the contents
of the parent's. The counting argument is `CountInv`: pages used up = what the finished
clones need plus what the one under way has got.

### Interrupts (`InterruptsProofs`)

`InterruptsInvariance` (`InterruptsInv`), `InterruptsTypeCorrect`,
`InterruptsScreenNotReentered` and `InterruptsAvoidHeap` have no hypotheses;
`InterruptsPrintFindsScreen` and `InterruptsPanicReports` have `QuietBoot` (nothing arrives
before the screen has its handler), without which the first is false
(`interrupts_early`).

The invariant is about the order of activation records: `_start` is first and only
first (`StartIsFirst`), an interrupt that code raises comes from `_start` or a print
(`IsrCalled`), a print from `_start`, a report, or a line without a handler (`PrintCalled`), only
vector 48 leads to the screen driver (`OnlyInt48`), and a record of the screen driver is
the top one, with IF clear (`ScreenOnTop`). The depth is not bounded in the argument.

`InterruptsPanicReports` has an invariant of its own, `PanicInv`. An interrupt that code
raises comes from `_start`, at the second record, or from a print, as vector 48
(`RaisedBy`); only the former can end in a panic, and from its gate to its dispatch
nothing runs above it but its own announcement (`Trapped`, `PrintsAbove`). So a panic is the
third record, there is only one, and interrupts stay disabled: the prints above it
and their int 48 are all that runs (`PrintGoesOn`). Lines printed, the line under way and
lines left are always `ReportLines`, `PanicLeft` falls with every step, and a panic that has
halted has reported everything (`HaltReported`).

### Console (`ConsoleProofs`)

`ConsoleInvariance` (`ConsoleInv`), `ConsoleLeavesNoTrace`, `ConsoleFootprint`,
`ConsoleOffScreenReturns` and `ConsoleWritesNearBuffer` have no hypotheses beyond the
assumptions on constants: callers pass as many arguments as a call reads
(`ConsoleAssumption`), and a `u_dword` counts further than the cursor registers
(`ScreenAssumption`). `ConsoleImplementsTerminal` needs `OffsetsFit`: callers move the cursor to
offsets that its registers hold. The driver does not check; a larger offset is cut,
and may be on the screen again.

`ConsoleInv` has three parts. `StackInv`: while a call is served, the arguments lie between
the saved registers and the saved frame pointer at the depths from which the driver
reads them, and afterwards its answer is where the caller pops it. `BlocksInv`: between two
steps a print holds one block; that every conversion gives back what it takes and
holds few blocks at a time is shown for the traffic of each operator of `Format`
(`Modest`). `ScreenInv`: the buffer keeps its cells. The refinement goes through the
grid of the buffer: what a scroll does to offsets (a copy of all rows but one, and a
blank row) is what it does to rows, and a cursor behind the last cell settles in the
last row; then one lemma per character and call.

`ConsoleTextInvariance` (`TextInv`) and `ConsoleTemplateExpanded` say what `format` builds, for
templates of every length. `Looping` is the invariant of its loop: the result, joined
to the characters between `printed` and `j` that are still to be copied, is what the
first `j` characters of the template stand for (`Expanded(j)`); `j` never stands inside a
placeholder; and `argumentor` is where the next argument starts, behind one dword for
every argument before it and one more for every double among them (`StartOf`).
`ConsoleNumbersReadBack` follows from the two theorems of `FormatProofs`.

`ConsoleProgress`: each step of a call or a print takes it to a later phase (`Phase`) or
leaves its loop less to do (`LoopLeft`: characters of the template in `format`, of the text
in `print_string_color`), and the loops' work is a natural number. It needs `TextsEnd`: who
calls `SET_CHARS` directly passes a length or a string that ends; what `format` hands over
always does.

### Formatting (`FormatProofs`)

`DwordsReadBack` and `FloatsReadBack`: what `number_to_string` and `float_to_string` write reads
back as the number. The assumptions on constants (`FormatAssumption`): callers pass at
least as many arguments as the template has placeholders, of the types that these
name; the digits behind the point fit a `u_dword`.

The operators here are recursive: powers of the base, the value of a numeral, the
concatenation of the texts of a template. The induction theorems of the library have an
operator as a parameter, so the module states the principle about a *set* of numbers
(`Inductive`, from the least element of its complement) and each use names the set of
the numbers for which the claim holds. That a recursively defined function exists at
all is `RecursionExists`: beginnings of every length exist and agree, and the function
takes its n-th value from the n-th beginning. From there: `Powers` (the loop computes the
powers of the base), `PowerIs` and `PowerOf` (it stops at the number of digits), `QuotientStep`
(dividing by one more power takes one digit off), and `IntReadsBack` with the
value of the first n digits, `b \div sys^(power - n)`, as closed form. `GatheredIs` and
`FlattenIs` do the same for texts; `OrdinalIs` and `StartOfIs` count placeholders by
cardinalities.

### Disk (`DiskProofs`)

`DiskInvariance` (`DiskInv`), `DiskDataInOrder` and `DiskModuleLoaded`, without hypotheses, for
sectors, sector counts and modules of every size and a drive that pauses, fails or
ignores commands when it likes. The invariant keeps driver and drive *in step*: the
drive is as far from `start` as the counters of the driver's loops say, until a word is
read too early (`late`); this holds for ignored commands as well. If the drive took the
command, `start` is at the first word of the module's sector (`Started`); taken or not, no
word up to the end of the sector of `start` is read too early (`FirstSectorReady`). So `ModuleLoaded` is
about calls whose command was taken, as it says; what becomes of the others is
`DataInOrder`, and that there are others is `DiskLeavesData`: a load of a module of the first
sector ends with the drive busy, with data or failed, because the sector count sent is
always the largest one and nothing is drained (`LeftOver`).

`DiskProgress`: a call has at most `3 * (LengthWords + OffsetWords + 7) + 2` steps of driver
and drive left (`CallLeft`), each of them takes one away, and until the call returns
one of the two can go on, unless the driver waits in `.ready` for a drive that has
failed (`WaitInv`, `Hung`). The remainder of a sector is never drained: it is always 0,
because the offset is shifted in the wrong direction.

### Boot sector (`Loader`)

`LoaderSafety`, for every number of sectors: the kernel is entered only with all of it in
memory and interrupts disabled. The invariant `CarryTells` adds that from the
comparison on a clear carry flag means a complete read.

### Only model-checked

- Liveness, which needs fairness and `ENABLED`: `OperationsReturn`, `EveryTaskRuns`,
  `ChildrenReturn`, `PanicReports`, `EveryLineServed`, `CallsReturn`, `ReadEnds`. The measures above
  show that nothing runs in circles; that the steps are taken at all is what TLC adds,
  under the fairness stated. For `ChildrenReturn` and `EveryLineServed` there is no measure:
  ticks and lines may nest in between, and a device may fire again at any time.

## Not modelled

VFS (forwards to pointers nobody sets), port access, build scripts; `occupation` (a walk
over the list for the tests), `free_frame`, `free_page_table`, `place_module`, `get_cursor`,
`first_pos`, `last_pos`, `equals`, `substring_end` and `move_string_by`, which nothing in the
system calls (`free_frame` and `free_page_table` index the bitmap with an offset that is
not divided by the page size, and `last_pos` never looks at index 0); negative doubles,
whose conversion to `u_dword` is undefined, and the conversion of the others to digits;
a heap or a formatter that fails in the middle of a panic's report; a `ralloc` that fails in
`load_module`; callee-saved registers, which `switch_task`
does not restore (the build does not optimise, so no local lives in one across the
call); ticks that nest faster than they are unwound, a matter of timing that the bound
on the depth cuts off; the contents of the GDT.

## Plan

Done: `HeapSpec`, `Heap`, `Tasking`, `AddressSpace`, `Paging`, `Interrupts`, `Format`, `Syscall`,
`Terminal`, `Screen`, `Console`, `Disk`, `Loader`, and the proofs about them.

Next: `Kernel`, tasks that print, composed of `Tasking` and the heap's steps, to derive
`heap_preempted` from the scheduler.
