------------------------------- MODULE Paging -------------------------------
(***************************************************************************)
(* Paging, core/kernel/pages.c: two bitmap allocators, the identity map    *)
(* that initialise_paging builds, and clone_directory, which fork uses to  *)
(* give a task an address space of its own.                                *)
(*                                                                         *)
(* Addresses are page numbers.  Physical memory is pages of PagesInTable   *)
(* dwords, and a dword is what the code reads it as: a page_pointer.  The  *)
(* flag bits that create_page_entry leaves as it found them on the stack   *)
(* (write, cache, accessed, dirty, zero, global) change nothing that is    *)
(* modelled and are left out.  The kernel works on directories and tables  *)
(* through the identity map, which KernelMapped says every directory has,  *)
(* so the model uses physical addresses throughout.                        *)
(***************************************************************************)
EXTENDS Integers, FiniteSets

CONSTANTS
  PagesInTable,         (* pages_in_table                                  *)
  PoolStart, PoolEnd,   (* paging_pool_start, paging_pool_end              *)
  UserStart, UserEnd,   (* user_space_start, user_space_end                *)
  StackPages,           (* pages of the boot stack                         *)
  Values,               (* what a task writes into its stack pages         *)
  MaxClones             (* fork calls, to bound the run                    *)

ASSUME PagingAssumption ==
  /\ PagesInTable \in Nat \ {0}
  /\ PoolStart \in Nat \ {0} /\ PoolEnd \in Nat /\ UserStart \in Nat /\ UserEnd \in Nat
  /\ PoolStart < PoolEnd /\ PoolEnd <= UserStart /\ UserStart < UserEnd
  /\ UserEnd <= PagesInTable * PagesInTable
  /\ StackPages \subseteq 1 .. PoolStart - 1
  /\ Values \subseteq 0 .. UserEnd - 1
  /\ MaxClones \in Nat

VARIABLES
  mem,                  (* physical memory                                 *)
  paging_pool,          (* the pages allocate_page_folder has given out    *)
  user_space_pool,      (* the frames allocate_frame has given out         *)
  kernel_directory, current_directory,
  pc,                   (* where the kernel is                             *)
  i, j,                 (* loop counters                                   *)
  dir, table,           (* the folders clone_directory is filling          *)
  built                 (* history: the directories that are complete      *)

vars == <<mem, paging_pool, user_space_pool, kernel_directory, current_directory,
          pc, i, j, dir, table, built>>

nullptr == 0
Frames  == 0 .. UserEnd - 1
Indices == 0 .. PagesInTable - 1

PagePointer == [present : BOOLEAN, rw : BOOLEAN, user : BOOLEAN, frame : Frames]

Zero     == [present |-> FALSE, rw |-> FALSE, user |-> FALSE, frame |-> 0]
Cleared  == [k \in Indices |-> Zero]
PageOf(v) == [k \in Indices |-> [Zero EXCEPT !.frame = v]]
TypeOK ==
  /\ mem \in [Frames -> [Indices -> PagePointer]]
  /\ paging_pool \subseteq PoolStart .. PoolEnd - 1
  /\ user_space_pool \subseteq UserStart .. UserEnd - 1
  /\ kernel_directory \in Frames /\ current_directory \in Frames
  /\ pc \in {"boot", "map", "run", "entry", "page"}
  /\ i \in IF pc = "map" THEN 0 .. UserStart
          ELSE IF pc = "page" THEN Indices ELSE 0 .. PagesInTable
  /\ j \in 0 .. PagesInTable
  /\ dir \in Frames /\ table \in Frames
  /\ built \in SUBSET Frames

Init ==
  /\ mem = [f \in Frames |-> Cleared]
  /\ paging_pool = {} /\ user_space_pool = {}
  /\ kernel_directory = nullptr /\ current_directory = nullptr
  /\ pc = "boot" /\ i = 0 /\ j = 0
  /\ dir = nullptr /\ table = nullptr
  /\ built = {}

(***************************************************************************)
(* The two allocators                                                      *)
(***************************************************************************)

(* The lowest clear bit of a bitmap, nullptr when every bit is set. *)
FirstFree(pool, from, to) ==
  LET free == (from .. to - 1) \ pool
  IN IF free = {} THEN nullptr
     ELSE CHOOSE f \in free : \A g \in free : f <= g

allocate_frame == FirstFree(user_space_pool, UserStart, UserEnd)

(* Mutant: the folder is placed at the base of the other pool. *)
allocate_page_folder_in_user_space == FirstFree(paging_pool, UserStart, UserEnd)

allocate_page_folder == FirstFree(paging_pool, PoolStart, PoolEnd)

(* Mutant: the bit of the page just given out is not set. *)
TakenUnmarked(pool, f) == pool

(* A pool with the page just given out marked; nothing is marked when      *)
(* there was none.                                                         *)
Taken(pool, f) == IF f = nullptr THEN pool ELSE pool \cup {f}

(* allocate_page_folder clears the folder it returns. *)
WithFolder(m, f) == IF f = nullptr THEN m ELSE [m EXCEPT ![f] = Cleared]

(***************************************************************************)
(* initialise_paging                                                       *)
(***************************************************************************)

create_page_entry(f, is_kernel, is_writeable) ==
  [present |-> TRUE, rw |-> is_writeable, user |-> ~is_kernel, frame |-> f]

MakeKernelDirectory ==
  /\ pc = "boot"
  /\ LET d == allocate_page_folder
     IN /\ kernel_directory' = d
        /\ paging_pool' = Taken(paging_pool, d)
        /\ mem' = WithFolder(mem, d)
  /\ pc' = "map" /\ i' = 0
  /\ UNCHANGED <<user_space_pool, current_directory, j, dir, table, built>>

(* get_page(i, true, kernel_directory): a table is made for the first page *)
(* that needs it.                                                          *)
TableOf(m, d, page) == m[d][page \div PagesInTable].frame

MapPage ==
  /\ pc = "map" /\ i < UserStart
  /\ LET has == TableOf(mem, kernel_directory, i) # nullptr
         t == IF has THEN TableOf(mem, kernel_directory, i) ELSE allocate_page_folder
         m == IF has THEN mem
              ELSE [WithFolder(mem, t) EXCEPT ![kernel_directory][i \div PagesInTable] =
                      create_page_entry(t, TRUE, TRUE)]
     IN /\ paging_pool' = IF has THEN paging_pool ELSE Taken(paging_pool, t)
        /\ mem' = [m EXCEPT ![t][i % PagesInTable] =
                     create_page_entry(i, i \notin StackPages, i \in StackPages)]
  /\ i' = i + 1
  /\ UNCHANGED <<user_space_pool, kernel_directory, current_directory, pc, j, dir, table,
                 built>>

(* current_directory = kernel_directory; mov cr3; set CR0.PG *)
EnablePaging ==
  /\ pc = "map" /\ i = UserStart
  /\ current_directory' = kernel_directory
  /\ built' = {kernel_directory}
  /\ pc' = "run" /\ i' = 0
  /\ UNCHANGED <<mem, paging_pool, user_space_pool, kernel_directory, j, dir, table>>

(***************************************************************************)
(* Tasks                                                                   *)
(***************************************************************************)

(* The frame the CPU finds for a page. *)
Entry(d, page) == mem[TableOf(mem, d, page)][page % PagesInTable]
Translate(d, page) == Entry(d, page).frame

(* The running task writes to its stack.  fork has interrupts disabled     *)
(* around clone_directory, so no task runs while a clone is under way.     *)
WriteStack ==
  /\ pc = "run"
  /\ \E p \in StackPages, v \in Values :
       mem' = [mem EXCEPT ![Translate(current_directory, p)] = PageOf(v)]
  /\ UNCHANGED <<paging_pool, user_space_pool, kernel_directory, current_directory,
                 pc, i, j, dir, table, built>>

(* switch_task loads another task's directory. *)
SwitchDirectory ==
  /\ pc = "run"
  /\ \E d \in built \ {current_directory} : current_directory' = d
  /\ UNCHANGED <<mem, paging_pool, user_space_pool, kernel_directory, pc, i, j, dir,
                 table, built>>

(***************************************************************************)
(* clone_directory(current_directory), called by fork                      *)
(***************************************************************************)

CloneDirectory ==
  /\ pc = "run" /\ Cardinality(built) <= MaxClones
  /\ LET d == allocate_page_folder
     IN /\ dir' = d
        /\ paging_pool' = Taken(paging_pool, d)
        /\ mem' = WithFolder(mem, d)
  /\ pc' = "entry" /\ i' = 0
  /\ UNCHANGED <<user_space_pool, kernel_directory, current_directory, j, table, built>>

Src == mem[current_directory][i]

contains_user_pages(folder) == \E k \in Indices : mem[folder.frame][k].user

InDirectory == pc = "entry" /\ i < PagesInTable

SkipTable ==
  /\ InDirectory /\ ~Src.present
  /\ i' = i + 1
  /\ UNCHANGED <<mem, paging_pool, user_space_pool, kernel_directory, current_directory,
                 pc, j, dir, table, built>>

(* Mutant: every table is shared with the child. *)
MustCloneNever(src) == FALSE

(* Mutant: every table that exists is copied. *)
MustCloneAlways(src) == src.present

MustClone(src) == src.user \/ contains_user_pages(src)

(* Mutant: a kernel table is taken for one that does not exist. *)
ShareTableSkipped ==
  /\ InDirectory /\ Src.present /\ ~MustClone(Src)
  /\ i' = i + 1
  /\ UNCHANGED <<mem, paging_pool, user_space_pool, kernel_directory, current_directory,
                 pc, j, dir, table, built>>

(* "completely in the kernel, so just use the same pointer" *)
ShareTable ==
  /\ InDirectory /\ Src.present /\ ~MustClone(Src)
  /\ mem' = [mem EXCEPT ![dir][i] = Src]
  /\ i' = i + 1
  /\ UNCHANGED <<paging_pool, user_space_pool, kernel_directory, current_directory,
                 pc, j, dir, table, built>>

(* clone_table: a new table ... *)
CloneTable ==
  /\ InDirectory /\ Src.present /\ MustClone(Src)
  /\ LET t == allocate_page_folder
     IN /\ table' = t
        /\ paging_pool' = Taken(paging_pool, t)
        /\ mem' = WithFolder(mem, t)
  /\ pc' = "page" /\ j' = 0
  /\ UNCHANGED <<user_space_pool, kernel_directory, current_directory, i, dir, built>>

Page == mem[Src.frame][j]

InTable == pc = "page" /\ j < PagesInTable

(* An absent page is skipped, a kernel page shared. *)
SharePage ==
  /\ InTable /\ ~(Page.present /\ (Src.user \/ Page.user))
  /\ mem' = IF Page.present THEN [mem EXCEPT ![table][j] = Page] ELSE mem
  /\ j' = j + 1
  /\ UNCHANGED <<paging_pool, user_space_pool, kernel_directory, current_directory,
                 pc, i, dir, table, built>>

(* Mutant: the new frame is not filled. *)
CopyPageEmpty ==
  /\ InTable /\ Page.present /\ (Src.user \/ Page.user)
  /\ LET f == allocate_frame
     IN /\ user_space_pool' = Taken(user_space_pool, f)
        /\ mem' = [mem EXCEPT ![table][j] = [Page EXCEPT !.frame = f]]
  /\ j' = j + 1
  /\ UNCHANGED <<paging_pool, kernel_directory, current_directory, pc, i, dir, table, built>>

(* ... whose user pages get a frame of their own, physically copied. *)
CopyPage ==
  /\ InTable /\ Page.present /\ (Src.user \/ Page.user)
  /\ LET f == allocate_frame
     IN /\ user_space_pool' = Taken(user_space_pool, f)
        /\ mem' = [mem EXCEPT ![table][j] = [Page EXCEPT !.frame = f],
                              ![f] = mem[Page.frame]]
  /\ j' = j + 1
  /\ UNCHANGED <<paging_pool, kernel_directory, current_directory, pc, i, dir, table, built>>

LinkTable ==
  /\ pc = "page" /\ j = PagesInTable
  /\ mem' = [mem EXCEPT ![dir][i] = [Src EXCEPT !.frame = table]]
  /\ pc' = "entry" /\ i' = i + 1
  /\ UNCHANGED <<paging_pool, user_space_pool, kernel_directory, current_directory,
                 j, dir, table, built>>

(* fork puts the directory into the new task. *)
FinishClone ==
  /\ pc = "entry" /\ i = PagesInTable
  /\ built' = built \cup {dir}
  /\ pc' = "run" /\ i' = 0 /\ j' = 0
  /\ dir' = nullptr /\ table' = nullptr
  /\ UNCHANGED <<mem, paging_pool, user_space_pool, kernel_directory, current_directory>>

(***************************************************************************)
(* Specification                                                           *)
(***************************************************************************)

Boot  == MakeKernelDirectory \/ MapPage \/ EnablePaging
Clone == \/ SkipTable \/ ShareTable \/ CloneTable \/ SharePage \/ CopyPage
         \/ LinkTable \/ FinishClone

Next == Boot \/ WriteStack \/ SwitchDirectory \/ CloneDirectory \/ Clone

Spec == Init /\ [][Next]_vars

(***************************************************************************)
(* Properties                                                              *)
(***************************************************************************)

KernelPages == (0 .. UserStart - 1) \ StackPages

(* Every directory maps every kernel page to itself, for the kernel only:  *)
(* loading cr3 in the middle of switch_task leaves the code, the heap and  *)
(* the page tables where they are.                                         *)
KernelMapped ==
  \A d \in built, p \in KernelPages :
    LET e == Entry(d, p) IN e.present /\ ~e.user /\ e.frame = p

(* No two tasks, and no two pages of a task, share a stack frame, and none *)
(* of those frames is a page that the kernel uses for something else.      *)
UserPagesPrivate ==
  /\ \A d, e \in built, p, q \in StackPages :
       Translate(d, p) = Translate(e, q) => d = e /\ p = q
  /\ \A d \in built, p \in StackPages :
       Entry(d, p).present /\ Entry(d, p).user /\ Translate(d, p) \notin KernelPages

(* Directories and tables come from the paging pool and belong to one      *)
(* directory, unless every page of the table is the kernel's.              *)
FoldersInPool ==
  \A d \in built :
    /\ d \in paging_pool
    /\ \A k \in Indices : mem[d][k].present =>
         /\ mem[d][k].frame \in paging_pool
         /\ \A e \in built : \A l \in Indices :
              (e # d /\ mem[e][l].present /\ mem[e][l].frame = mem[d][k].frame)
                => ~contains_user_pages(mem[d][k])

(* No allocation finds its pool used up: a directory takes one folder, and *)
(* one more for each table with pages of the stack, so the pools hold as   *)
(* many clones as were counted on.                                         *)
PoolsSuffice ==
  /\ \/ pc = "boot"
     \/ pc = "map" /\ i < UserStart /\ TableOf(mem, kernel_directory, i) = nullptr
     \/ pc = "run" /\ Cardinality(built) <= MaxClones
     \/ InDirectory /\ Src.present /\ MustClone(Src)
     => allocate_page_folder # nullptr
  /\ InTable /\ Page.present /\ (Src.user \/ Page.user) => allocate_frame # nullptr

(* Paging implements the address spaces that fork and the scheduler use.   *)
Spaces == INSTANCE AddressSpace WITH
            UserPages <- StackPages, Names <- Frames,
            Contents <- {PageOf(v) : v \in Values \cup {0}},
            spaces <- [d \in built |-> [p \in StackPages |-> mem[Translate(d, p)]]]
ImplementsAddressSpace == Spaces!Spec
============================================================================
