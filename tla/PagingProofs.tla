---------------------------- MODULE PagingProofs ---------------------------
(***************************************************************************)
(* Proofs about paging, for tables, pools and address spaces of every size *)
(* and any number of forks, as long as no allocator runs out of pages: who *)
(* owns which folder and which frame, in every state of clone_directory.   *)
(***************************************************************************)
EXTENDS Paging, FiniteSetTheorems, WellFoundedInduction, TLAPS

(* The page of entry l in table k. *)
PageAt(k, l) == k * PagesInTable + l

(* The tables that hold a page of the stack, and those that hold a page    *)
(* below lim.                                                              *)
StackTables == {k \in Indices : \E l \in Indices : PageAt(k, l) \in StackPages}
UpTo(lim) == {k \in Indices : PageAt(k, 0) < lim}

(***************************************************************************)
(* Folders in memory m.  D are directories, L tells which of their tables  *)
(* are linked, and lim how many pages are mapped.  x is a table that is    *)
(* being filled: folder t, for tables' index k, with n entries done.       *)
(***************************************************************************)

NoTable == [t |-> nullptr, k |-> 0, n |-> 0]

(* Folder t is a table for index k. *)
IsTable(m, D, L, x, t, k) ==
  \/ \E d \in D : k \in L[d] /\ m[d][k].frame = t
  \/ x.t # nullptr /\ t = x.t /\ k = x.k

(* Entry l of that table has been filled. *)
Filled(x, lim, t, k, l) == PageAt(k, l) < lim /\ (t = x.t => l < x.n)

(* A directory points to its tables. *)
DirectoriesGood(m, D, L) ==
  \A d \in D, k \in Indices :
    IF k \in L[d] THEN m[d][k].present /\ ~m[d][k].user /\ m[d][k].frame # nullptr
    ELSE ~m[d][k].present /\ m[d][k].frame = nullptr

(* Folders come from the pool and are directories or tables, not both. *)
FoldersGood(m, pool, D, L, x) ==
  /\ D \subseteq pool
  /\ \A t \in Frames, k \in Indices : IsTable(m, D, L, x, t, k) => t \in pool /\ t \notin D

(* A table stands at one index. *)
OneIndex(m, D, L, x) ==
  \A t \in Frames, k, l \in Indices :
    IsTable(m, D, L, x, t, k) /\ IsTable(m, D, L, x, t, l) => k = l

(* A page of the kernel is mapped to itself, one of the stack to a frame   *)
(* of the boot stack or of the user space.                                 *)
EntryGood(e, p, frames) ==
  /\ e.present /\ (e.user <=> p \in StackPages)
  /\ IF p \in StackPages THEN e.frame \in StackPages \cup frames ELSE e.frame = p

EntriesGood(m, frames, D, L, x, lim) ==
  \A t \in Frames, k, l \in Indices :
    IsTable(m, D, L, x, t, k) =>
      IF Filled(x, lim, t, k, l) THEN EntryGood(m[t][l], PageAt(k, l), frames)
      ELSE ~m[t][l].present /\ ~m[t][l].user

(* No two entries share a frame of the stack. *)
FramesPrivate(m, D, L, x, lim) ==
  \A t, u \in Frames, k, l, k1, l1 \in Indices :
    /\ IsTable(m, D, L, x, t, k) /\ Filled(x, lim, t, k, l) /\ PageAt(k, l) \in StackPages
    /\ IsTable(m, D, L, x, u, k1) /\ Filled(x, lim, u, k1, l1) /\ PageAt(k1, l1) \in StackPages
    /\ m[t][l].frame = m[u][l1].frame
    => t = u /\ l = l1

(* Only tables of the kernel are shared, and the new one is not linked. *)
TablesPrivate(m, D, L, x) ==
  /\ \A d, e \in D, k \in StackTables :
       k \in L[d] /\ k \in L[e] /\ m[d][k].frame = m[e][k].frame => d = e
  /\ x.t # nullptr => \A d \in D : \A k \in L[d] : m[d][k].frame # x.t

Shape(m, pool, frames, D, L, x, lim) ==
  /\ DirectoriesGood(m, D, L)
  /\ FoldersGood(m, pool, D, L, x)
  /\ TablesPrivate(m, D, L, x)
  /\ OneIndex(m, D, L, x)
  /\ EntriesGood(m, frames, D, L, x, lim)
  /\ FramesPrivate(m, D, L, x, lim)

(* The first lim pages of directory d are mapped to themselves. *)
Identity(m, L, d, lim) ==
  \A k \in L[d], l \in Indices :
    PageAt(k, l) < lim => m[m[d][k].frame][l].frame = PageAt(k, l)

(* What a task sees in page p of directory d. *)
Seen(m, d, p) == m[m[m[d][p \div PagesInTable].frame][p % PagesInTable].frame]

(***************************************************************************)
(* The invariant                                                           *)
(***************************************************************************)

Cloning == pc \in {"entry", "page"}

Dirs == IF pc = "map" THEN {kernel_directory}
        ELSE IF Cloning THEN built \cup {dir} ELSE built

LinkedIn(d) == IF pc = "map" THEN UpTo(i)
               ELSE IF Cloning /\ d = dir THEN {k \in UpTo(UserStart) : k < i}
               ELSE UpTo(UserStart)
Linked == [d \in Dirs |-> LinkedIn(d)]

Filling == IF pc = "page" THEN [t |-> table, k |-> i, n |-> j] ELSE NoTable

Limit == IF pc = "map" THEN i ELSE UserStart

Control ==
  /\ pc \in {"boot", "map"} => built = {} /\ user_space_pool = {}
  /\ pc = "boot" => paging_pool = {}
  /\ pc \notin {"boot", "map"} => current_directory \in built
  /\ Cloning => dir \notin built
  /\ pc = "page" => i \in StackTables /\ i \in UpTo(UserStart) /\ table # nullptr
  /\ pc = "map" => Identity(mem, Linked, kernel_directory, i)

PagingInv ==
  /\ TypeOK /\ Control
  /\ Shape(mem, paging_pool, user_space_pool, Dirs, Linked, Filling, Limit)

(* What the tasks see: nothing has been written before paging is on, and   *)
(* the pages that a clone has already are copies of its parent's.          *)
ContentsInv ==
  /\ pc \in {"boot", "map"} => \A p \in StackPages : mem[p] = Cleared
  /\ Cloning => \A p \in StackPages : p \div PagesInTable < i =>
                  Seen(mem, dir, p) = Seen(mem, current_directory, p)
  /\ pc = "page" => \A p \in StackPages : p \div PagesInTable = i /\ p % PagesInTable < j =>
                       mem[mem[table][p % PagesInTable].frame] = Seen(mem, current_directory, p)

(***************************************************************************)
(* How many pages are used up                                              *)
(***************************************************************************)

(* The tables and the pages of the stack that a clone has when it is at    *)
(* entry l of table k.                                                     *)
TablesBefore(k) == {n \in StackTables : n < k}
PagesBefore(k, l) == {p \in StackPages : \/ p \div PagesInTable < k
                                         \/ p \div PagesInTable = k /\ p % PagesInTable < l}

(* The folders of the kernel's directory, and those of a clone.            *)
KernelFolders == 1 + Cardinality(UpTo(UserStart))
CloneFolders  == 1 + Cardinality(StackTables)

(* The pools hold the kernel's directory and MaxClones clones of it.       *)
Enough ==
  /\ KernelFolders + MaxClones * CloneFolders <= PoolEnd - PoolStart
  /\ MaxClones * Cardinality(StackPages) <= UserEnd - UserStart

Clones == Cardinality(built) - 1

FoldersUsed ==
  IF pc = "boot" THEN 0
  ELSE IF pc = "map" THEN 1 + Cardinality(UpTo(i))
  ELSE KernelFolders + Clones * CloneFolders +
       IF pc = "entry" THEN 1 + Cardinality(TablesBefore(i))
       ELSE IF pc = "page" THEN 2 + Cardinality(TablesBefore(i)) ELSE 0

FramesUsed ==
  IF pc \in {"boot", "map"} THEN 0
  ELSE Clones * Cardinality(StackPages) +
       IF pc = "entry" THEN Cardinality(PagesBefore(i, 0))
       ELSE IF pc = "page" THEN Cardinality(PagesBefore(i, j)) ELSE 0

CountInv ==
  /\ Cardinality(paging_pool) = FoldersUsed
  /\ Cardinality(user_space_pool) = FramesUsed
  /\ pc \notin {"boot", "map"} => Clones \in 0 .. MaxClones
  /\ Cloning => Clones < MaxClones

(***************************************************************************)
(* Pages and tables                                                        *)
(***************************************************************************)

(* Multiplication is monotonic. *)
LEMMA Monotonic ==
  ASSUME NEW a \in Int, NEW b \in Int, NEW k \in Nat, a <= b
  PROVE  a * k <= b * k
<1>1. b * k = a * k + (b - a) * k /\ (b - a) * k \in Nat /\ a * k \in Int
  OBVIOUS
<1> QED BY <1>1

(* get_page divides a page by the size of a table. *)
LEMMA DivMod ==
  ASSUME NEW k \in Nat, k > 0, NEW q \in Int, NEW m \in 0 .. k - 1
  PROVE  (q * k + m) \div k = q /\ (q * k + m) % k = m
<1> DEFINE o == q * k + m
           d == o \div k
           e == o % k
<1>1. o \in Int /\ d \in Int /\ e \in 0 .. k - 1 /\ o = k * d + e
  OBVIOUS
<1>2. q * k \in Int /\ d * k \in Int /\ d * k = k * d
  BY <1>1
<1>3. o = q * k + m
  OBVIOUS
<1> HIDE DEF o, d, e
<1>4. ~(d < q)
  <2> SUFFICES ASSUME d + 1 <= q PROVE FALSE
    BY <1>1
  <2>1. (d + 1) * k <= q * k /\ (d + 1) * k = d * k + k
    BY <1>1, <1>2, Monotonic
  <2> QED BY <1>1, <1>2, <1>3, <2>1
<1>5. ~(q < d)
  <2> SUFFICES ASSUME q + 1 <= d PROVE FALSE
    BY <1>1
  <2>1. (q + 1) * k <= d * k /\ (q + 1) * k = q * k + k
    BY <1>1, <1>2, Monotonic
  <2> QED BY <1>1, <1>2, <1>3, <2>1
<1>6. d = q
  BY <1>1, <1>4, <1>5
<1>7. e = m
  BY <1>1, <1>2, <1>3, <1>6
<1> QED BY <1>6, <1>7 DEF o, d, e

(* The numbers that delimit memory. *)
LEMMA Sizes ==
  /\ PagesInTable \in Nat /\ PagesInTable > 0
  /\ PoolStart \in Nat /\ PoolStart > 0 /\ PoolEnd \in Nat /\ PoolStart < PoolEnd
  /\ UserStart \in Nat /\ PoolEnd <= UserStart /\ UserEnd \in Nat /\ UserStart < UserEnd
  /\ StackPages \subseteq 1 .. PoolStart - 1
BY PagingAssumption

(* A table and an entry make a page, and different ones different pages. *)
LEMMA PageAtIs ==
  ASSUME NEW k \in Indices, NEW l \in Indices
  PROVE  /\ PageAt(k, l) \in Nat
         /\ PageAt(k, l) \div PagesInTable = k /\ PageAt(k, l) % PagesInTable = l
         /\ PageAt(k, l) = PageAt(k, 0) + l /\ PageAt(k, 0) \in Nat
<1>1. PagesInTable \in Nat /\ PagesInTable > 0 /\ k \in Nat /\ l \in 0 .. PagesInTable - 1
  BY Sizes DEF Indices
<1>2. k * PagesInTable \in Nat
  BY <1>1
<1>3. PageAt(k, l) \div PagesInTable = k /\ PageAt(k, l) % PagesInTable = l
  BY <1>1, DivMod DEF PageAt
<1> QED BY <1>1, <1>2, <1>3 DEF PageAt

(* Two entries are for the same page only if they have the same place. *)
LEMMA PageAtOnce ==
  ASSUME NEW k \in Indices, NEW l \in Indices, NEW k1 \in Indices, NEW l1 \in Indices,
         PageAt(k, l) = PageAt(k1, l1)
  PROVE  k = k1 /\ l = l1
BY PageAtIs

(* Every page that memory has is at a place in a table. *)
LEMMA PlaceOfPage ==
  ASSUME NEW p \in Frames
  PROVE  /\ p \div PagesInTable \in Indices /\ p % PagesInTable \in Indices
         /\ PageAt(p \div PagesInTable, p % PagesInTable) = p
<1> DEFINE k == p \div PagesInTable
           l == p % PagesInTable
<1>1. PagesInTable \in Nat /\ PagesInTable > 0 /\ p \in Nat /\ p < PagesInTable * PagesInTable
  BY Sizes, PagingAssumption DEF Frames
<1>2. k \in Nat /\ l \in 0 .. PagesInTable - 1 /\ p = PagesInTable * k + l
  BY <1>1
<1> HIDE DEF k, l
<1>3. k * PagesInTable = PagesInTable * k /\ k * PagesInTable \in Nat
  BY <1>1, <1>2
<1>4. k < PagesInTable
  <2> SUFFICES ASSUME PagesInTable <= k PROVE FALSE
    BY <1>1, <1>2
  <2>1. PagesInTable * PagesInTable <= k * PagesInTable
    BY <1>1, <1>2, Monotonic
  <2> QED BY <1>1, <1>2, <1>3, <2>1
<1>5. k \in Indices /\ l \in Indices /\ PageAt(k, l) = p
  BY <1>1, <1>2, <1>3, <1>4 DEF Indices, PageAt
<1> QED BY <1>5 DEF k, l

(* A table of the stack belongs to the pages that initialise_paging maps. *)
LEMMA StackIsMapped ==
  /\ \A p \in StackPages : p \in Frames /\ p < UserStart /\ p < PoolStart /\ p # nullptr
  /\ \A p \in StackPages : p \div PagesInTable \in StackTables
  /\ \A k \in StackTables : k \in UpTo(UserStart)
<1>1. \A p \in StackPages : p \in Frames /\ p < UserStart /\ p < PoolStart /\ p # nullptr
  BY Sizes DEF Frames, nullptr
<1>2. ASSUME NEW p \in StackPages PROVE p \div PagesInTable \in StackTables
  BY <1>1, PlaceOfPage DEF StackTables
<1>3. ASSUME NEW k \in StackTables PROVE k \in UpTo(UserStart)
  <2>1. PICK l \in Indices : PageAt(k, l) \in StackPages
    BY DEF StackTables
  <2>2. k \in Indices /\ l \in Nat
    BY Sizes DEF StackTables, Indices
  <2>3. PageAt(k, l) = PageAt(k, 0) + l /\ PageAt(k, 0) \in Nat
    BY <2>2, PageAtIs
  <2> QED BY <1>1, <2>1, <2>2, <2>3, Sizes DEF UpTo
<1> QED BY <1>1, <1>2, <1>3

(***************************************************************************)
(* The allocators                                                          *)
(***************************************************************************)

(* Every set of natural numbers has a least one. *)
LEMMA Least ==
  ASSUME NEW S \in SUBSET Nat, S # {}
  PROVE  \E x \in S : \A y \in S : x <= y
<1> DEFINE Less == OpToRel(<, Nat)
<1>1. Less = {p \in Nat \X Nat : p[1] < p[2]}
  BY DEF OpToRel
<1>2. IsWellFoundedOn(Less, Nat)
  BY NatLessThanWellFounded, Zenon
<1> HIDE DEF Less
<1>3. PICK x \in S : \A y \in S : ~(<<y, x>> \in Less)
  BY <1>2, WFMin
<1>4. \A y \in S : ~(y < x)
  BY <1>1, <1>3
<1> QED BY <1>4

(* The search of a bitmap yields a page of the pool whose bit is clear. *)
LEMMA FirstFreeIs ==
  ASSUME NEW pool, NEW from \in Nat, NEW to \in Nat
  PROVE  LET f == FirstFree(pool, from, to)
         IN  f # nullptr => f \in from .. to - 1 /\ f \notin pool
<1> DEFINE free == (from .. to - 1) \ pool
           P(f) == f \in free /\ \A g \in free : f <= g
           x == CHOOSE f : P(f)
<1>1. CASE free = {}
  BY <1>1 DEF FirstFree, nullptr
<1>2. CASE free # {}
  <2>1. free \in SUBSET Nat
    OBVIOUS
  <2>2. \E f : P(f)
    <3> HIDE DEF free
    <3>1. PICK f \in free : \A g \in free : f <= g
      BY <1>2, <2>1, Least
    <3> QED BY <3>1
  <2>3. P(x)
    <3> HIDE DEF P
    <3> QED BY <2>2
  <2>4. FirstFree(pool, from, to) = x
    BY <1>2 DEF FirstFree
  <2> HIDE DEF x
  <2> QED BY <2>3, <2>4
<1> QED BY <1>1, <1>2

(* allocate_page_folder and allocate_frame. *)
LEMMA Allocated ==
  /\ allocate_page_folder # nullptr =>
       allocate_page_folder \in PoolStart .. PoolEnd - 1 /\ allocate_page_folder \notin paging_pool
  /\ allocate_frame # nullptr =>
       allocate_frame \in UserStart .. UserEnd - 1 /\ allocate_frame \notin user_space_pool
  /\ allocate_page_folder \in Frames /\ allocate_frame \in Frames
<1>1. /\ allocate_page_folder # nullptr =>
          allocate_page_folder \in PoolStart .. PoolEnd - 1 /\ allocate_page_folder \notin paging_pool
      /\ allocate_frame # nullptr =>
          allocate_frame \in UserStart .. UserEnd - 1 /\ allocate_frame \notin user_space_pool
  BY Sizes, FirstFreeIs DEF allocate_page_folder, allocate_frame
<1>2. nullptr \in Frames /\ PoolStart .. PoolEnd - 1 \subseteq Frames
      /\ UserStart .. UserEnd - 1 \subseteq Frames
  BY Sizes DEF Frames, nullptr
<1> QED BY <1>1, <1>2

(***************************************************************************)
(* Types                                                                   *)
(***************************************************************************)

MemType == [Frames -> [Indices -> PagePointer]]

(* A cleared page, a page of the stack and an entry are what memory holds. *)
LEMMA EntryTypes ==
  /\ Zero \in PagePointer /\ ~Zero.present /\ ~Zero.user /\ Zero.frame = nullptr
  /\ Cleared \in [Indices -> PagePointer]
  /\ \A v \in Frames : PageOf(v) \in [Indices -> PagePointer]
  /\ \A f \in Frames, a, b \in BOOLEAN : create_page_entry(f, a, b) \in PagePointer
  /\ \A e \in PagePointer, f \in Frames : [e EXCEPT !.frame = f] \in PagePointer
<1>1. 0 \in Frames
  BY Sizes DEF Frames
<1>2. Zero \in PagePointer /\ ~Zero.present /\ ~Zero.user /\ Zero.frame = nullptr
  BY <1>1 DEF Zero, PagePointer, nullptr
<1>3. \A v \in Frames : [Zero EXCEPT !.frame = v] \in PagePointer
  BY DEF Zero, PagePointer
<1>4. \A f \in Frames, a, b \in BOOLEAN : create_page_entry(f, a, b) \in PagePointer
  BY DEF create_page_entry, PagePointer
<1>5. \A e \in PagePointer, f \in Frames : [e EXCEPT !.frame = f] \in PagePointer
  BY DEF PagePointer
<1>6. Cleared \in [Indices -> PagePointer]
  BY <1>2 DEF Cleared
<1>7. \A v \in Frames : PageOf(v) \in [Indices -> PagePointer]
  BY <1>3 DEF PageOf
<1> QED BY <1>2, <1>4, <1>5, <1>6, <1>7

(* Stores into memory. *)
LEMMA StoreTypes ==
  ASSUME NEW m \in MemType, NEW f \in Frames
  PROVE  /\ WithFolder(m, f) \in MemType
         /\ \A page \in [Indices -> PagePointer] : [m EXCEPT ![f] = page] \in MemType
         /\ \A k \in Indices, e \in PagePointer : [m EXCEPT ![f][k] = e] \in MemType
         /\ \A k \in Indices : m[f] \in [Indices -> PagePointer] /\ m[f][k] \in PagePointer
                              /\ m[f][k].frame \in Frames
<1>1. \A page \in [Indices -> PagePointer] : [m EXCEPT ![f] = page] \in MemType
  BY DEF MemType
<1>2. ASSUME NEW k \in Indices, NEW e \in PagePointer
      PROVE  [m EXCEPT ![f][k] = e] \in MemType
  <2>1. [m[f] EXCEPT ![k] = e] \in [Indices -> PagePointer]
    BY DEF MemType
  <2> QED BY <2>1 DEF MemType
<1>3. WithFolder(m, f) \in MemType
  BY <1>1, EntryTypes DEF WithFolder
<1>4. \A k \in Indices : m[f] \in [Indices -> PagePointer] /\ m[f][k] \in PagePointer
  BY DEF MemType
<1>5. \A k \in Indices : m[f][k].frame \in Frames
  BY <1>4 DEF PagePointer
<1> QED BY <1>1, <1>2, <1>3, <1>4, <1>5

(* The pools only grow by pages of their own. *)
LEMMA PoolTypes ==
  ASSUME TypeOK
  PROVE  /\ Taken(paging_pool, allocate_page_folder) \subseteq PoolStart .. PoolEnd - 1
         /\ Taken(user_space_pool, allocate_frame) \subseteq UserStart .. UserEnd - 1
BY Allocated DEF TypeOK, Taken

(* initialise_paging keeps the types. *)
LEMMA BootTypes ==
  ASSUME TypeOK, Boot
  PROVE  TypeOK'
<1> USE DEF TypeOK
<1>0. mem \in MemType
  BY DEF MemType
<1>1. CASE MakeKernelDirectory
  <2>1. mem' \in MemType
    BY <1>0, <1>1, Allocated, StoreTypes DEF MakeKernelDirectory
  <2>2. 0 \in 0 .. UserStart
    BY Sizes
  <2> QED BY <1>1, <2>1, <2>2, Allocated, PoolTypes DEF MakeKernelDirectory, MemType
<1>2. CASE MapPage
  <2> DEFINE k == i \div PagesInTable
             l == i % PagesInTable
             has == TableOf(mem, kernel_directory, i) # nullptr
             t == IF has THEN TableOf(mem, kernel_directory, i) ELSE allocate_page_folder
             m == IF has THEN mem
                  ELSE [WithFolder(mem, t) EXCEPT ![kernel_directory][k] =
                          create_page_entry(t, TRUE, TRUE)]
             e == create_page_entry(i, i \notin StackPages, i \in StackPages)
  <2>1. i \in Frames /\ i + 1 \in 0 .. UserStart
    <3>1. i \in 0 .. UserStart /\ i < UserStart
      BY <1>2 DEF MapPage
    <3> HIDE DEF TypeOK
    <3> QED BY <3>1, Sizes DEF Frames
  <2>2. k \in Indices /\ l \in Indices
    BY <2>1, PlaceOfPage
  <2>3. t \in Frames
    <3>1. TableOf(mem, kernel_directory, i) \in Frames
      BY <1>0, <2>2, StoreTypes DEF TableOf
    <3> QED BY <3>1, Allocated
  <2> HIDE DEF t, k, l
  <2>4. m \in MemType
    <3>1. WithFolder(mem, t) \in MemType /\ create_page_entry(t, TRUE, TRUE) \in PagePointer
      BY <1>0, <2>3, StoreTypes, EntryTypes
    <3> DEFINE w == WithFolder(mem, t)
               c == create_page_entry(t, TRUE, TRUE)
    <3> HIDE DEF w, c
    <3>2. w \in MemType /\ c \in PagePointer
      BY <3>1 DEF w, c
    <3>3. [w EXCEPT ![kernel_directory][k] = c] \in MemType
      BY <2>2, <3>2, StoreTypes
    <3> QED BY <1>0, <3>3 DEF w, c
  <2>5. e \in PagePointer
    BY <2>1 DEF create_page_entry, PagePointer
  <2>6. mem' = [m EXCEPT ![t][l] = e]
    BY <1>2 DEF MapPage, t, k, l
  <2>7. paging_pool' \subseteq PoolStart .. PoolEnd - 1
    <3>1. paging_pool' = paging_pool \/ paging_pool' = Taken(paging_pool, allocate_page_folder)
      BY <1>2 DEF MapPage
    <3> QED BY <3>1, PoolTypes
  <2> HIDE DEF m, e
  <2>8. mem' \in MemType
    BY <2>2, <2>3, <2>4, <2>5, <2>6, StoreTypes
  <2> QED BY <1>2, <2>1, <2>7, <2>8 DEF MapPage, MemType
<1>3. CASE EnablePaging
  <2>1. 0 \in 0 .. PagesInTable
    BY Sizes
  <2> QED BY <1>3, <2>1 DEF EnablePaging
<1> QED BY <1>1, <1>2, <1>3 DEF Boot

(* Tasks keep the types. *)
LEMMA TaskTypes ==
  ASSUME TypeOK, WriteStack \/ SwitchDirectory \/ CloneDirectory
  PROVE  TypeOK'
<1> USE DEF TypeOK
<1>0. mem \in MemType
  BY DEF MemType
<1>1. CASE WriteStack
  <2>1. PICK p \in StackPages, v \in Values :
          mem' = [mem EXCEPT ![Translate(current_directory, p)] = PageOf(v)]
    BY <1>1 DEF WriteStack
  <2>2. Translate(current_directory, p) \in Frames /\ v \in Frames
    <3>1. p \div PagesInTable \in Indices /\ p % PagesInTable \in Indices
      BY StackIsMapped, PlaceOfPage
    <3>2. TableOf(mem, current_directory, p) \in Frames
      BY <1>0, <3>1, StoreTypes DEF TableOf
    <3> QED BY <1>0, <3>1, <3>2, StoreTypes, PagingAssumption DEF Translate, Entry, Frames
  <2>3. mem' \in MemType
    BY <1>0, <2>1, <2>2, StoreTypes, EntryTypes
  <2> QED BY <1>1, <2>3 DEF WriteStack, MemType
<1>2. CASE SwitchDirectory
  BY <1>2 DEF SwitchDirectory
<1>3. CASE CloneDirectory
  <2>1. mem' \in MemType
    BY <1>0, <1>3, Allocated, StoreTypes DEF CloneDirectory
  <2>2. 0 \in 0 .. PagesInTable
    BY Sizes
  <2> QED BY <1>3, <2>1, <2>2, Allocated, PoolTypes DEF CloneDirectory, MemType
<1> QED BY <1>1, <1>2, <1>3

(* clone_directory keeps the types. *)
LEMMA CloneTypes ==
  ASSUME TypeOK, Clone
  PROVE  TypeOK'
<1> USE DEF TypeOK
<1>0. mem \in MemType
  BY DEF MemType
<1>1. InDirectory => i \in Indices /\ i + 1 \in 0 .. PagesInTable
  BY Sizes DEF InDirectory, Indices
<1>2. pc = "page" => i \in Indices /\ i + 1 \in 0 .. PagesInTable
  BY Sizes DEF Indices
<1>3. InTable => pc = "page" /\ j \in Indices /\ j + 1 \in 0 .. PagesInTable
  BY Sizes DEF InTable, Indices
<1>4. i \in Indices => Src \in PagePointer /\ Src.frame \in Frames
  BY <1>0, StoreTypes DEF Src
<1>5. InTable => Page \in PagePointer /\ Page.frame \in Frames
  BY <1>0, <1>2, <1>3, <1>4, StoreTypes DEF Page
<1>6. CASE SkipTable
  BY <1>1, <1>6 DEF SkipTable, InDirectory
<1>7. CASE ShareTable
  <2>1. mem' \in MemType
    BY <1>0, <1>1, <1>4, <1>7, StoreTypes DEF ShareTable
  <2> QED BY <1>1, <1>7, <2>1 DEF ShareTable, InDirectory, MemType
<1>8. CASE CloneTable
  <2>1. mem' \in MemType
    BY <1>0, <1>8, Allocated, StoreTypes DEF CloneTable
  <2>2. 0 \in 0 .. PagesInTable
    BY Sizes
  <2> QED BY <1>1, <1>8, <2>1, <2>2, Allocated, PoolTypes DEF CloneTable, MemType
<1>9. CASE SharePage
  <2>1. mem' \in MemType
    BY <1>0, <1>3, <1>5, <1>9, StoreTypes DEF SharePage
  <2> QED BY <1>3, <1>9, <2>1 DEF SharePage, MemType
<1>10. CASE CopyPage
  <2> DEFINE f == allocate_frame
             e == [Page EXCEPT !.frame = f]
             m == [mem EXCEPT ![table][j] = e]
  <2>1. f \in Frames /\ InTable
    BY <1>10, Allocated DEF CopyPage
  <2>2. e \in PagePointer
    BY <1>5, <2>1, EntryTypes
  <2>3. m \in MemType
    <3> HIDE DEF e
    <3> QED BY <1>0, <1>3, <2>1, <2>2, StoreTypes
  <2>4. mem' = [m EXCEPT ![f] = mem[Page.frame]]
    BY <1>10 DEF CopyPage
  <2>5. mem[Page.frame] \in [Indices -> PagePointer]
    BY <1>5, <2>1 DEF MemType
  <2>6. mem' \in MemType
    <3> HIDE DEF m, f
    <3> QED BY <2>1, <2>3, <2>4, <2>5, StoreTypes
  <2> QED BY <1>3, <1>10, <2>6, PoolTypes DEF CopyPage, MemType
<1>11. CASE LinkTable
  <2>1. mem' \in MemType
    <3> DEFINE e == [Src EXCEPT !.frame = table]
    <3>1. e \in PagePointer /\ i \in Indices
      BY <1>2, <1>4, <1>11, EntryTypes DEF LinkTable
    <3>2. mem' = [mem EXCEPT ![dir][i] = e]
      BY <1>11 DEF LinkTable
    <3> HIDE DEF e
    <3> QED BY <1>0, <3>1, <3>2, StoreTypes
  <2> QED BY <1>2, <1>11, <2>1 DEF LinkTable, MemType
<1>12. CASE FinishClone
  <2>1. 0 \in 0 .. PagesInTable /\ nullptr \in Frames
    BY Sizes DEF Frames, nullptr
  <2> QED BY <1>12, <2>1 DEF FinishClone
<1> QED BY <1>6, <1>7, <1>8, <1>9, <1>10, <1>11, <1>12 DEF Clone

(* Every step keeps the types. *)
LEMMA NextTypes ==
  ASSUME TypeOK, [Next]_vars
  PROVE  TypeOK'
<1>1. CASE UNCHANGED vars
  BY <1>1 DEF vars, TypeOK
<1> QED BY <1>1, BootTypes, TaskTypes, CloneTypes DEF Next

(* Memory holds page pointers and the bitmaps pages of their own pools,    *)
(* with or without enough pages: an allocation that fails yields page 0,   *)
(* which is a page like any other.                                         *)
THEOREM PagingTypeCorrect == Spec => []TypeOK
<1>1. Init => TypeOK
  <2> SUFFICES ASSUME Init PROVE TypeOK
    OBVIOUS
  <2>1. nullptr \in Frames /\ 0 \in 0 .. PagesInTable
    BY Sizes DEF Frames, nullptr
  <2> QED BY <2>1, EntryTypes DEF Init, TypeOK
<1>2. TypeOK /\ [Next]_vars => TypeOK'
  BY NextTypes
<1> QED BY <1>1, <1>2, PTL DEF Spec

(***************************************************************************)
(* Tables: none is added, one is added, an entry is filled                 *)
(***************************************************************************)

(* A step that makes no table and fills no entry. *)
LEMMA NoNewTable ==
  ASSUME NEW m, NEW D, NEW L, NEW x, NEW m1, NEW D1, NEW L1, NEW x1, NEW frames, NEW lim,
         OneIndex(m, D, L, x), EntriesGood(m, frames, D, L, x, lim),
         FramesPrivate(m, D, L, x, lim),
         \A t \in Frames, k \in Indices : IsTable(m1, D1, L1, x1, t, k) =>
           /\ IsTable(m, D, L, x, t, k) /\ m1[t] = m[t]
           /\ \A l \in Indices : Filled(x1, lim, t, k, l) <=> Filled(x, lim, t, k, l)
  PROVE  /\ OneIndex(m1, D1, L1, x1) /\ EntriesGood(m1, frames, D1, L1, x1, lim)
         /\ FramesPrivate(m1, D1, L1, x1, lim)
<1>1. OneIndex(m1, D1, L1, x1)
  BY DEF OneIndex
<1>2. EntriesGood(m1, frames, D1, L1, x1, lim)
  BY DEF EntriesGood
<1>3. FramesPrivate(m1, D1, L1, x1, lim)
  BY DEF FramesPrivate
<1> QED BY <1>1, <1>2, <1>3

(* Folder t0 has become a table for index k0, with no entry filled. *)
OneMore(m, D, L, x, m1, D1, L1, x1, lim, t0, k0) ==
  \A t \in Frames, k \in Indices : IsTable(m1, D1, L1, x1, t, k) =>
    \/ /\ t = t0 /\ k = k0
       /\ \A l \in Indices : ~Filled(x1, lim, t, k, l)
    \/ /\ t # t0 /\ IsTable(m, D, L, x, t, k) /\ m1[t] = m[t]
       /\ \A l \in Indices : Filled(x1, lim, t, k, l) <=> Filled(x, lim, t, k, l)

(* A step that adds folder t0, cleared, as a table for index k0. *)
LEMMA NewTable ==
  ASSUME NEW m, NEW D, NEW L, NEW x, NEW m1, NEW D1, NEW L1, NEW x1, NEW frames, NEW lim,
         NEW t0, NEW k0,
         OneIndex(m, D, L, x), EntriesGood(m, frames, D, L, x, lim),
         FramesPrivate(m, D, L, x, lim), m1[t0] = Cleared,
         OneMore(m, D, L, x, m1, D1, L1, x1, lim, t0, k0)
  PROVE  /\ OneIndex(m1, D1, L1, x1) /\ EntriesGood(m1, frames, D1, L1, x1, lim)
         /\ FramesPrivate(m1, D1, L1, x1, lim)
<1>1. OneIndex(m1, D1, L1, x1)
  BY DEF OneIndex, OneMore
<1>2. \A l \in Indices : ~m1[t0][l].present /\ ~m1[t0][l].user
  BY EntryTypes DEF Cleared
<1>3. EntriesGood(m1, frames, D1, L1, x1, lim)
  BY <1>2 DEF EntriesGood, OneMore
<1>4. FramesPrivate(m1, D1, L1, x1, lim)
  BY DEF FramesPrivate, OneMore
<1> QED BY <1>1, <1>3, <1>4

(* The frame of the stack that an entry refers to. *)
Holds(m, D, L, x, lim, t, l, f) ==
  \E k \in Indices : /\ IsTable(m, D, L, x, t, k) /\ Filled(x, lim, t, k, l)
                     /\ PageAt(k, l) \in StackPages /\ m[t][l].frame = f

(* No entry is filled but l0 of table t0, which is for index k0. *)
NoOther(m, D, L, x, lim, m1, D1, L1, x1, lim1, t0, k0, l0) ==
  \A t \in Frames, k \in Indices : IsTable(m1, D1, L1, x1, t, k) =>
    /\ IsTable(m, D, L, x, t, k)
    /\ t = t0 => k = k0
    /\ \A l \in Indices : ~(t = t0 /\ l = l0) =>
         m1[t][l] = m[t][l] /\ (Filled(x1, lim1, t, k, l) <=> Filled(x, lim, t, k, l))

(* A step that fills entry l0 of table t0. *)
LEMMA NewEntry ==
  ASSUME NEW m, NEW D, NEW L, NEW x, NEW m1, NEW D1, NEW L1, NEW x1,
         NEW frames, NEW frames1, frames \subseteq frames1, NEW lim, NEW lim1,
         NEW t0, NEW k0 \in Indices, NEW l0 \in Indices,
         OneIndex(m, D, L, x), EntriesGood(m, frames, D, L, x, lim),
         FramesPrivate(m, D, L, x, lim),
         NoOther(m, D, L, x, lim, m1, D1, L1, x1, lim1, t0, k0, l0),
         Filled(x1, lim1, t0, k0, l0),
         EntryGood(m1[t0][l0], PageAt(k0, l0), frames1),
         PageAt(k0, l0) \in StackPages =>
           \A t \in Frames, l \in Indices : ~Holds(m, D, L, x, lim, t, l, m1[t0][l0].frame)
  PROVE  /\ OneIndex(m1, D1, L1, x1) /\ EntriesGood(m1, frames1, D1, L1, x1, lim1)
         /\ FramesPrivate(m1, D1, L1, x1, lim1)
<1>1. OneIndex(m1, D1, L1, x1)
  BY DEF OneIndex, NoOther
<1>2. EntriesGood(m1, frames1, D1, L1, x1, lim1)
  <2> SUFFICES ASSUME NEW t \in Frames, NEW k \in Indices, NEW l \in Indices,
                      IsTable(m1, D1, L1, x1, t, k)
               PROVE  IF Filled(x1, lim1, t, k, l) THEN EntryGood(m1[t][l], PageAt(k, l), frames1)
                      ELSE ~m1[t][l].present /\ ~m1[t][l].user
    BY DEF EntriesGood
  <2>1. CASE t = t0 /\ l = l0
    BY <2>1 DEF NoOther
  <2>2. CASE ~(t = t0 /\ l = l0)
    <3>1. IsTable(m, D, L, x, t, k) /\ m1[t][l] = m[t][l]
          /\ (Filled(x1, lim1, t, k, l) <=> Filled(x, lim, t, k, l))
      BY <2>2 DEF NoOther
    <3>2. IF Filled(x, lim, t, k, l) THEN EntryGood(m[t][l], PageAt(k, l), frames)
          ELSE ~m[t][l].present /\ ~m[t][l].user
      BY <3>1 DEF EntriesGood
    <3> QED BY <3>1, <3>2 DEF EntryGood
  <2> QED BY <2>1, <2>2
<1>3. FramesPrivate(m1, D1, L1, x1, lim1)
  <2> SUFFICES ASSUME NEW t \in Frames, NEW u \in Frames, NEW k \in Indices, NEW l \in Indices,
                      NEW k1 \in Indices, NEW l1 \in Indices,
                      IsTable(m1, D1, L1, x1, t, k), Filled(x1, lim1, t, k, l),
                      PageAt(k, l) \in StackPages,
                      IsTable(m1, D1, L1, x1, u, k1), Filled(x1, lim1, u, k1, l1),
                      PageAt(k1, l1) \in StackPages, m1[t][l].frame = m1[u][l1].frame
               PROVE  t = u /\ l = l1
    BY DEF FramesPrivate
  <2>1. CASE t = t0 /\ l = l0
    <3>1. CASE u = t0 /\ l1 = l0
      BY <2>1, <3>1
    <3>2. CASE ~(u = t0 /\ l1 = l0)
      <4>1. Holds(m, D, L, x, lim, u, l1, m1[t0][l0].frame)
        BY <2>1, <3>2 DEF Holds, NoOther
      <4> QED BY <2>1, <4>1 DEF NoOther
    <3> QED BY <3>1, <3>2
  <2>2. CASE ~(t = t0 /\ l = l0)
    <3>1. CASE u = t0 /\ l1 = l0
      <4>1. Holds(m, D, L, x, lim, t, l, m1[t0][l0].frame)
        BY <2>2, <3>1 DEF Holds, NoOther
      <4> QED BY <3>1, <4>1 DEF NoOther
    <3>2. CASE ~(u = t0 /\ l1 = l0)
      BY <2>2, <3>2 DEF FramesPrivate, NoOther
    <3> QED BY <3>1, <3>2
  <2> QED BY <2>1, <2>2
<1> QED BY <1>1, <1>2, <1>3

(***************************************************************************)
(* The steps of clone_directory                                            *)
(***************************************************************************)

(* A step that writes outside the paging pool. *)
LEMMA ShapeOutside ==
  ASSUME NEW m, NEW m1, NEW pool, NEW frames, NEW D, NEW L, NEW x, NEW lim,
         L \in [D -> SUBSET Indices], m \in MemType,
         Shape(m, pool, frames, D, L, x, lim), \A t \in pool : m1[t] = m[t]
  PROVE  Shape(m1, pool, frames, D, L, x, lim)
<1>1. \A d \in D : m1[d] = m[d]
  BY DEF Shape, FoldersGood
<1>2. \A t, k : IsTable(m1, D, L, x, t, k) <=> IsTable(m, D, L, x, t, k)
  BY <1>1 DEF IsTable
<1>3. \A t \in Frames, k \in Indices : IsTable(m, D, L, x, t, k) => m1[t] = m[t]
  BY DEF Shape, FoldersGood
<1>4. /\ OneIndex(m1, D, L, x) /\ EntriesGood(m1, frames, D, L, x, lim)
      /\ FramesPrivate(m1, D, L, x, lim)
  BY <1>2, <1>3, NoNewTable DEF Shape
<1>5. DirectoriesGood(m1, D, L) /\ TablesPrivate(m1, D, L, x)
  BY <1>1 DEF Shape, DirectoriesGood, TablesPrivate
<1>6. FoldersGood(m1, pool, D, L, x)
  BY <1>2 DEF Shape, FoldersGood
<1> QED BY <1>4, <1>5, <1>6 DEF Shape

(* A new directory, without tables. *)
LEMMA ShapeDirectory ==
  ASSUME NEW m, NEW pool, NEW frames, NEW D, NEW L, NEW L1, NEW lim, NEW d \in Frames,
         L \in [D -> SUBSET Indices], m \in MemType, d \notin pool,
         Shape(m, pool, frames, D, L, NoTable, lim),
         L1[d] = {}, \A e \in D : L1[e] = L[e]
  PROVE  Shape([m EXCEPT ![d] = Cleared], pool \cup {d}, frames, D \cup {d}, L1, NoTable, lim)
<1> DEFINE m1 == [m EXCEPT ![d] = Cleared]
           D1 == D \cup {d}
<1>1. m1[d] = Cleared /\ d \notin D /\ \A t \in Frames : t # d => m1[t] = m[t]
  BY DEF Shape, FoldersGood, MemType
<1>2. \A k \in Indices : ~m1[d][k].present /\ m1[d][k].frame = nullptr
  BY <1>1, EntryTypes DEF Cleared
<1>3. \A e \in D : e # d /\ m1[e] = m[e]
  BY <1>1 DEF Shape, FoldersGood, MemType
<1> HIDE DEF m1
<1>4. \A t, k : IsTable(m1, D1, L1, NoTable, t, k) <=> IsTable(m, D, L, NoTable, t, k)
  BY <1>3 DEF IsTable, NoTable
<1>5. \A t \in Frames, k \in Indices : IsTable(m, D, L, NoTable, t, k) =>
        t \in pool /\ t \notin D /\ t # d /\ m1[t] = m[t]
  BY <1>1 DEF Shape, FoldersGood
<1>6. /\ OneIndex(m1, D1, L1, NoTable) /\ EntriesGood(m1, frames, D1, L1, NoTable, lim)
      /\ FramesPrivate(m1, D1, L1, NoTable, lim)
  <2> HIDE DEF D1
  <2> QED BY <1>4, <1>5, NoNewTable DEF Shape
<1>7. DirectoriesGood(m1, D1, L1)
  BY <1>2, <1>3 DEF Shape, DirectoriesGood
<1>8. TablesPrivate(m1, D1, L1, NoTable)
  BY <1>3 DEF Shape, TablesPrivate, NoTable
<1>9. FoldersGood(m1, pool \cup {d}, D1, L1, NoTable)
  BY <1>4, <1>5 DEF Shape, FoldersGood
<1> QED BY <1>6, <1>7, <1>8, <1>9 DEF Shape, m1

(* Directory d gets the table that c has for index k0. *)
LEMMA ShapeShare ==
  ASSUME NEW m, NEW pool, NEW frames, NEW D, NEW L, NEW L1, NEW lim,
         NEW c \in D, NEW d \in D, NEW k0 \in Indices,
         L \in [D -> SUBSET Indices], m \in MemType, pool \subseteq Frames, c # d,
         k0 \in L[c], k0 \notin StackTables,
         Shape(m, pool, frames, D, L, NoTable, lim),
         L1[d] = L[d] \cup {k0}, \A e \in D : e # d => L1[e] = L[e]
  PROVE  Shape([m EXCEPT ![d][k0] = m[c][k0]], pool, frames, D, L1, NoTable, lim)
<1> DEFINE m1 == [m EXCEPT ![d][k0] = m[c][k0]]
<1>1. /\ \A t \in Frames : t # d => m1[t] = m[t]
      /\ m1[d][k0] = m[c][k0] /\ \A k \in Indices : k # k0 => m1[d][k] = m[d][k]
      /\ D \subseteq pool /\ D \subseteq Frames
  BY DEF Shape, FoldersGood, MemType
<1> HIDE DEF m1
<1>2. \A e \in D : \A k \in L1[e] : IF e = d /\ k = k0 THEN m1[e][k] = m[c][k] /\ k \in L[c]
                                   ELSE m1[e][k] = m[e][k] /\ k \in L[e]
  BY <1>1
<1>3. \A t, k : IsTable(m1, D, L1, NoTable, t, k) => IsTable(m, D, L, NoTable, t, k)
  BY <1>2 DEF IsTable, NoTable
<1>4. \A t \in Frames, k \in Indices : IsTable(m, D, L, NoTable, t, k) =>
        t \in pool /\ t \notin D /\ m1[t] = m[t]
  BY <1>1 DEF Shape, FoldersGood
<1>5. /\ OneIndex(m1, D, L1, NoTable) /\ EntriesGood(m1, frames, D, L1, NoTable, lim)
      /\ FramesPrivate(m1, D, L1, NoTable, lim)
  BY <1>3, <1>4, NoNewTable DEF Shape
<1>6. DirectoriesGood(m1, D, L1)
  BY <1>1 DEF Shape, DirectoriesGood
<1>7. TablesPrivate(m1, D, L1, NoTable)
  BY <1>2 DEF Shape, TablesPrivate, NoTable
<1>8. FoldersGood(m1, pool, D, L1, NoTable)
  BY <1>1, <1>3, <1>4 DEF FoldersGood
<1> QED BY <1>5, <1>6, <1>7, <1>8 DEF Shape, m1

(* A new table, not linked yet. *)
LEMMA ShapeBegin ==
  ASSUME NEW m, NEW pool, NEW frames, NEW D, NEW L, NEW lim,
         NEW t0 \in Frames, NEW k0 \in Indices,
         L \in [D -> SUBSET Indices], m \in MemType, t0 \notin pool, t0 # nullptr,
         Shape(m, pool, frames, D, L, NoTable, lim)
  PROVE  Shape([m EXCEPT ![t0] = Cleared], pool \cup {t0}, frames, D, L,
               [t |-> t0, k |-> k0, n |-> 0], lim)
<1> DEFINE m1 == [m EXCEPT ![t0] = Cleared]
           x1 == [t |-> t0, k |-> k0, n |-> 0]
<1>1. m1[t0] = Cleared /\ \A t \in Frames : t # t0 => m1[t] = m[t]
  BY DEF MemType
<1>2. \A d \in D : d # t0 /\ m1[d] = m[d]
  BY DEF Shape, FoldersGood, MemType
<1> HIDE DEF m1
<1>3. \A t, k : IsTable(m1, D, L, x1, t, k) =>
                  IsTable(m, D, L, NoTable, t, k) \/ (t = t0 /\ k = k0)
  BY <1>2 DEF IsTable, NoTable
<1>4. \A t \in Frames, k \in Indices : IsTable(m, D, L, NoTable, t, k) =>
        t \in pool /\ t \notin D /\ t # t0 /\ m1[t] = m[t] /\ t # nullptr
  <2>1. \A d \in D : \A k \in L[d] : m[d][k].frame # nullptr
    BY DEF Shape, DirectoriesGood
  <2> QED BY <1>1, <2>1 DEF Shape, FoldersGood, IsTable, NoTable
<1>5. \A k, l \in Indices : ~Filled(x1, lim, t0, k, l)
  BY Sizes DEF Filled, Indices
<1>6. \A t, k, l : t # t0 /\ t # nullptr => (Filled(x1, lim, t, k, l) <=> Filled(NoTable, lim, t, k, l))
  BY DEF Filled, NoTable
<1>7. /\ OneIndex(m1, D, L, x1) /\ EntriesGood(m1, frames, D, L, x1, lim)
      /\ FramesPrivate(m1, D, L, x1, lim)
  <2> HIDE DEF x1
  <2>1. OneMore(m, D, L, NoTable, m1, D, L, x1, lim, t0, k0)
    BY <1>3, <1>4, <1>5, <1>6 DEF OneMore
  <2>2. /\ OneIndex(m, D, L, NoTable) /\ EntriesGood(m, frames, D, L, NoTable, lim)
        /\ FramesPrivate(m, D, L, NoTable, lim)
    BY DEF Shape
  <2>3. m1[t0] = Cleared
    BY <1>1
  <2> QED BY <2>1, <2>2, <2>3, NewTable
<1>8. DirectoriesGood(m1, D, L)
  BY <1>2 DEF Shape, DirectoriesGood
<1>9. TablesPrivate(m1, D, L, x1)
  <2>1. \A d \in D : \A k \in L[d] : m[d][k].frame # t0
    <3> SUFFICES ASSUME NEW d \in D, NEW k \in L[d], m[d][k].frame = t0 PROVE FALSE
      OBVIOUS
    <3>1. IsTable(m, D, L, NoTable, t0, k) /\ k \in Indices
      BY DEF IsTable
    <3> QED BY <1>4, <3>1
  <2> QED BY <1>2, <2>1 DEF Shape, TablesPrivate
<1>10. FoldersGood(m1, pool \cup {t0}, D, L, x1)
  BY <1>2, <1>3, <1>4 DEF Shape, FoldersGood
<1> QED BY <1>7, <1>8, <1>9, <1>10 DEF Shape, m1

(* The table that is being filled. *)
LEMMA FillingOne ==
  ASSUME NEW m, NEW pool, NEW frames, NEW D, NEW L, NEW x, NEW lim, x.k \in Indices,
         x.t \in Frames, x.t # nullptr, Shape(m, pool, frames, D, L, x, lim)
  PROVE  /\ IsTable(m, D, L, x, x.t, x.k) /\ x.t \in pool /\ x.t \notin D
         /\ \A k \in Indices : IsTable(m, D, L, x, x.t, k) => k = x.k
<1>1. IsTable(m, D, L, x, x.t, x.k)
  BY DEF IsTable
<1> QED BY <1>1 DEF Shape, FoldersGood, OneIndex

(* An entry is passed over: its page is not mapped. *)
LEMMA ShapePass ==
  ASSUME NEW m, NEW pool, NEW frames, NEW D, NEW L, NEW lim \in Nat,
         NEW t0 \in Frames, NEW k0 \in Indices, NEW n \in Indices,
         L \in [D -> SUBSET Indices], t0 # nullptr, ~(PageAt(k0, n) < lim),
         Shape(m, pool, frames, D, L, [t |-> t0, k |-> k0, n |-> n], lim)
  PROVE  Shape(m, pool, frames, D, L, [t |-> t0, k |-> k0, n |-> n + 1], lim)
<1> DEFINE x == [t |-> t0, k |-> k0, n |-> n]
           x1 == [t |-> t0, k |-> k0, n |-> n + 1]
<1>1. x.t = t0 /\ x.k = k0 /\ x1.t = t0 /\ x1.k = k0 /\ x.n = n /\ x1.n = n + 1
  OBVIOUS
<1> HIDE DEF x, x1
<1>2. Shape(m, pool, frames, D, L, x, lim)
  BY DEF x
<1>3. \A t, k : IsTable(m, D, L, x1, t, k) <=> IsTable(m, D, L, x, t, k)
  BY <1>1 DEF IsTable
<1>4. \A k \in Indices : IsTable(m, D, L, x, t0, k) => k = k0
  BY <1>1, <1>2, FillingOne
<1>5. \A t \in Frames, k, l \in Indices : IsTable(m, D, L, x, t, k) =>
        (Filled(x1, lim, t, k, l) <=> Filled(x, lim, t, k, l))
  <2> SUFFICES ASSUME NEW t \in Frames, NEW k \in Indices, NEW l \in Indices,
                      IsTable(m, D, L, x, t, k)
               PROVE  Filled(x1, lim, t, k, l) <=> Filled(x, lim, t, k, l)
    OBVIOUS
  <2>1. n \in Nat /\ l \in Nat
    BY Sizes DEF Indices
  <2>2. CASE t # t0
    BY <1>1, <2>2 DEF Filled
  <2>3. CASE t = t0
    <3>1. k = k0
      BY <1>4, <2>3
    <3>2. CASE l = n
      BY <3>1, <3>2 DEF Filled
    <3>3. CASE l # n
      BY <1>1, <2>1, <2>3, <3>3 DEF Filled
    <3> QED BY <3>2, <3>3
  <2> QED BY <2>2, <2>3
<1>6. /\ OneIndex(m, D, L, x1) /\ EntriesGood(m, frames, D, L, x1, lim)
      /\ FramesPrivate(m, D, L, x1, lim)
  BY <1>2, <1>3, <1>5, NoNewTable DEF Shape
<1>7. DirectoriesGood(m, D, L) /\ TablesPrivate(m, D, L, x1)
  BY <1>1, <1>2 DEF Shape, TablesPrivate
<1>8. FoldersGood(m, pool, D, L, x1)
  BY <1>2, <1>3 DEF Shape, FoldersGood
<1> QED BY <1>6, <1>7, <1>8 DEF Shape, x1

(* An entry of the new table is filled. *)
LEMMA ShapeFill ==
  ASSUME NEW m, NEW m1, NEW pool, NEW frames, NEW frames1, NEW D, NEW L, NEW lim \in Nat,
         NEW t0 \in Frames, NEW k0 \in Indices, NEW n \in Indices,
         L \in [D -> SUBSET Indices], t0 # nullptr, PageAt(k0, n) < lim,
         frames \subseteq frames1,
         Shape(m, pool, frames, D, L, [t |-> t0, k |-> k0, n |-> n], lim),
         \A t \in pool : t # t0 => m1[t] = m[t],
         \A l \in Indices : l # n => m1[t0][l] = m[t0][l],
         EntryGood(m1[t0][n], PageAt(k0, n), frames1),
         PageAt(k0, n) \in StackPages =>
           \A t \in Frames, l \in Indices :
             ~Holds(m, D, L, [t |-> t0, k |-> k0, n |-> n], lim, t, l, m1[t0][n].frame)
  PROVE  Shape(m1, pool, frames1, D, L, [t |-> t0, k |-> k0, n |-> n + 1], lim)
<1> DEFINE x == [t |-> t0, k |-> k0, n |-> n]
           x1 == [t |-> t0, k |-> k0, n |-> n + 1]
<1>1. x.t = t0 /\ x.k = k0 /\ x1.t = t0 /\ x1.k = k0 /\ x.n = n /\ x1.n = n + 1
  OBVIOUS
<1>2. /\ Shape(m, pool, frames, D, L, x, lim)
      /\ PageAt(k0, n) \in StackPages =>
           \A t \in Frames, l \in Indices : ~Holds(m, D, L, x, lim, t, l, m1[t0][n].frame)
  OBVIOUS
<1> HIDE DEF x, x1
<1>3. /\ \A k \in Indices : IsTable(m, D, L, x, t0, k) => k = k0
      /\ t0 \notin D
  BY <1>1, <1>2, FillingOne
<1>4. \A d \in D : m1[d] = m[d]
  BY <1>2, <1>3 DEF Shape, FoldersGood
<1>5. \A t, k : IsTable(m1, D, L, x1, t, k) <=> IsTable(m, D, L, x, t, k)
  BY <1>1, <1>4 DEF IsTable
<1>6. NoOther(m, D, L, x, lim, m1, D, L, x1, lim, t0, k0, n)
  <2> SUFFICES ASSUME NEW t \in Frames, NEW k \in Indices, IsTable(m, D, L, x, t, k)
               PROVE  /\ t = t0 => k = k0
                      /\ \A l \in Indices : ~(t = t0 /\ l = n) =>
                           /\ m1[t][l] = m[t][l]
                           /\ (Filled(x1, lim, t, k, l) <=> Filled(x, lim, t, k, l))
    BY <1>5 DEF NoOther
  <2>1. n \in Nat /\ \A l \in Indices : l \in Nat
    BY Sizes DEF Indices
  <2>2. \A l \in Indices : ~(t = t0 /\ l = n) => m1[t][l] = m[t][l]
    BY <1>2 DEF Shape, FoldersGood
  <2>3. \A l \in Indices : ~(t = t0 /\ l = n) =>
          (Filled(x1, lim, t, k, l) <=> Filled(x, lim, t, k, l))
    BY <1>1, <2>1 DEF Filled
  <2> QED BY <1>3, <2>2, <2>3
<1>7. Filled(x1, lim, t0, k0, n)
  BY <1>1, Sizes DEF Filled, Indices
<1>8. OneIndex(m, D, L, x) /\ EntriesGood(m, frames, D, L, x, lim) /\ FramesPrivate(m, D, L, x, lim)
  BY <1>2 DEF Shape
<1>9. /\ OneIndex(m1, D, L, x1) /\ EntriesGood(m1, frames1, D, L, x1, lim)
      /\ FramesPrivate(m1, D, L, x1, lim)
  BY <1>2, <1>6, <1>7, <1>8, NewEntry
<1>10. DirectoriesGood(m1, D, L) /\ TablesPrivate(m1, D, L, x1)
  BY <1>1, <1>2, <1>4 DEF Shape, DirectoriesGood, TablesPrivate
<1>11. FoldersGood(m1, pool, D, L, x1)
  BY <1>2, <1>5 DEF Shape, FoldersGood
<1> QED BY <1>9, <1>10, <1>11 DEF Shape, x1

(* The new table is complete and linked into directory d. *)
LEMMA ShapeLink ==
  ASSUME NEW m, NEW pool, NEW frames, NEW D, NEW L, NEW L1, NEW lim,
         NEW t0 \in Frames, NEW k0 \in Indices, NEW d \in D, NEW e \in PagePointer,
         L \in [D -> SUBSET Indices], m \in MemType, pool \subseteq Frames, t0 # nullptr,
         k0 \notin L[d], e.present, ~e.user, e.frame = t0,
         Shape(m, pool, frames, D, L, [t |-> t0, k |-> k0, n |-> PagesInTable], lim),
         L1[d] = L[d] \cup {k0}, \A c \in D : c # d => L1[c] = L[c]
  PROVE  Shape([m EXCEPT ![d][k0] = e], pool, frames, D, L1, NoTable, lim)
<1> DEFINE m1 == [m EXCEPT ![d][k0] = e]
           x == [t |-> t0, k |-> k0, n |-> PagesInTable]
<1>1. x.t = t0 /\ x.k = k0 /\ x.n = PagesInTable /\ Shape(m, pool, frames, D, L, x, lim)
  OBVIOUS
<1>2. /\ \A t \in Frames : t # d => m1[t] = m[t]
      /\ m1[d][k0] = e /\ \A k \in Indices : k # k0 => m1[d][k] = m[d][k]
      /\ D \subseteq pool /\ D \subseteq Frames
  BY DEF Shape, FoldersGood, MemType
<1> HIDE DEF m1, x
<1>3. \A c \in D : \A k \in L1[c] : IF c = d /\ k = k0 THEN m1[c][k] = e
                                   ELSE m1[c][k] = m[c][k] /\ k \in L[c]
  BY <1>2
<1>4. \A t, k : IsTable(m1, D, L1, NoTable, t, k) => IsTable(m, D, L, x, t, k)
  BY <1>1, <1>3 DEF IsTable, NoTable
<1>5. \A t \in Frames, k \in Indices : IsTable(m, D, L, x, t, k) =>
        t \in pool /\ t \notin D /\ m1[t] = m[t] /\ t # nullptr
  <2>1. \A c \in D : \A k \in L[c] : m[c][k].frame # nullptr
    BY <1>1 DEF Shape, DirectoriesGood
  <2> QED BY <1>1, <1>2, <2>1 DEF Shape, FoldersGood, IsTable
<1>6. \A t \in Frames, k, l \in Indices : t # nullptr =>
        (Filled(NoTable, lim, t, k, l) <=> Filled(x, lim, t, k, l))
  BY <1>1, Sizes DEF Filled, NoTable, Indices
<1>7. /\ OneIndex(m1, D, L1, NoTable) /\ EntriesGood(m1, frames, D, L1, NoTable, lim)
      /\ FramesPrivate(m1, D, L1, NoTable, lim)
  <2>1. OneIndex(m, D, L, x) /\ EntriesGood(m, frames, D, L, x, lim) /\ FramesPrivate(m, D, L, x, lim)
    BY <1>1 DEF Shape
  <2> QED BY <1>4, <1>5, <1>6, <2>1, NoNewTable
<1>8. DirectoriesGood(m1, D, L1)
  BY <1>1, <1>2 DEF Shape, DirectoriesGood
<1>9. TablesPrivate(m1, D, L1, NoTable)
  <2>1. \A c \in D : \A k \in L[c] : m[c][k].frame # t0
    BY <1>1 DEF Shape, TablesPrivate
  <2> QED BY <1>1, <1>3, <2>1 DEF Shape, TablesPrivate, NoTable
<1>10. FoldersGood(m1, pool, D, L1, NoTable)
  BY <1>2, <1>4, <1>5 DEF FoldersGood
<1> QED BY <1>7, <1>8, <1>9, <1>10 DEF Shape, m1

(***************************************************************************)
(* The steps of initialise_paging                                          *)
(***************************************************************************)

(* Folder t0 is cleared and e put into directory d. *)
TableMade(m, m1, d, t0, k0, e) ==
  /\ m1[t0] = Cleared /\ m1[d][k0] = e
  /\ \A k \in Indices : k # k0 => m1[d][k] = m[d][k]
  /\ \A t \in Frames : t # t0 /\ t # d => m1[t] = m[t]

(* get_page makes a table for the pages from lim on. *)
LEMMA ShapeKernelTable ==
  ASSUME NEW m, NEW m1, NEW pool, NEW frames, NEW L, NEW L1, NEW lim,
         NEW d \in Frames, NEW t0 \in Frames, NEW k0 \in Indices, NEW e \in PagePointer,
         L \in [{d} -> SUBSET Indices], m \in MemType, t0 \notin pool, t0 # nullptr,
         e.present, ~e.user, e.frame = t0,
         \A l \in Indices : ~(PageAt(k0, l) < lim),
         Shape(m, pool, frames, {d}, L, NoTable, lim), Identity(m, L, d, lim),
         TableMade(m, m1, d, t0, k0, e), L1[d] = L[d] \cup {k0}, k0 \notin L[d]
  PROVE  /\ Shape(m1, pool \cup {t0}, frames, {d}, L1, NoTable, lim)
         /\ Identity(m1, L1, d, lim)
<1>1. d \in pool /\ d # t0
  BY DEF Shape, FoldersGood
<1>2. \A t, k : IsTable(m1, {d}, L1, NoTable, t, k) =>
                  IsTable(m, {d}, L, NoTable, t, k) \/ (t = t0 /\ k = k0)
  BY DEF IsTable, NoTable, TableMade
<1>3. \A t \in Frames, k \in Indices : IsTable(m, {d}, L, NoTable, t, k) =>
        t \in pool /\ t # d /\ t # t0 /\ m1[t] = m[t]
  BY DEF Shape, FoldersGood, TableMade
<1>4. \A l \in Indices : ~Filled(NoTable, lim, t0, k0, l)
  BY DEF Filled
<1>5. OneMore(m, {d}, L, NoTable, m1, {d}, L1, NoTable, lim, t0, k0)
  <2> SUFFICES ASSUME NEW t \in Frames, NEW k \in Indices, IsTable(m1, {d}, L1, NoTable, t, k)
               PROVE  \/ /\ t = t0 /\ k = k0
                         /\ \A l \in Indices : ~Filled(NoTable, lim, t, k, l)
                      \/ t # t0 /\ IsTable(m, {d}, L, NoTable, t, k) /\ m1[t] = m[t]
    BY DEF OneMore
  <2>1. CASE IsTable(m, {d}, L, NoTable, t, k)
    BY <1>3, <2>1
  <2>2. CASE t = t0 /\ k = k0
    BY <1>4, <2>2
  <2> QED BY <1>2, <2>1, <2>2
<1>6. /\ OneIndex(m, {d}, L, NoTable) /\ EntriesGood(m, frames, {d}, L, NoTable, lim)
      /\ FramesPrivate(m, {d}, L, NoTable, lim)
  BY DEF Shape
<1>7. /\ OneIndex(m1, {d}, L1, NoTable) /\ EntriesGood(m1, frames, {d}, L1, NoTable, lim)
      /\ FramesPrivate(m1, {d}, L1, NoTable, lim)
  <2> DEFINE D == {d}
  <2> HIDE DEF D
  <2>1. OneMore(m, D, L, NoTable, m1, D, L1, NoTable, lim, t0, k0)
    BY <1>5 DEF D
  <2>2. OneIndex(m, D, L, NoTable) /\ EntriesGood(m, frames, D, L, NoTable, lim)
        /\ FramesPrivate(m, D, L, NoTable, lim)
    BY <1>6 DEF D
  <2>3. /\ OneIndex(m1, D, L1, NoTable) /\ EntriesGood(m1, frames, D, L1, NoTable, lim)
        /\ FramesPrivate(m1, D, L1, NoTable, lim)
    BY <2>1, <2>2, NewTable DEF TableMade
  <2> QED BY <2>3 DEF D
<1>8. DirectoriesGood(m1, {d}, L1)
  BY DEF Shape, DirectoriesGood, TableMade
<1>9. TablesPrivate(m1, {d}, L1, NoTable)
  BY DEF TablesPrivate, NoTable
<1>10. FoldersGood(m1, pool \cup {t0}, {d}, L1, NoTable)
  BY <1>1, <1>2, <1>3 DEF FoldersGood
<1>11. Identity(m1, L1, d, lim)
  <2> SUFFICES ASSUME NEW k \in L1[d], NEW l \in Indices, PageAt(k, l) < lim
               PROVE  m1[m1[d][k].frame][l].frame = PageAt(k, l)
    BY DEF Identity
  <2>1. k # k0 /\ k \in L[d] /\ k \in Indices /\ m1[d][k] = m[d][k]
    BY DEF TableMade
  <2>2. m[d][k].frame \in Frames
    BY <2>1, StoreTypes
  <2>3. IsTable(m, {d}, L, NoTable, m[d][k].frame, k)
    BY <2>1 DEF IsTable
  <2>4. m1[m[d][k].frame] = m[m[d][k].frame]
    BY <1>3, <2>1, <2>2, <2>3
  <2> QED BY <2>1, <2>4 DEF Identity
<1> QED BY <1>7, <1>8, <1>9, <1>10, <1>11 DEF Shape

(* initialise_paging maps page lim to itself. *)
LEMMA ShapeKernelEntry ==
  ASSUME NEW m, NEW m1, NEW pool, NEW frames, NEW L, NEW lim \in Nat,
         NEW d \in Frames, NEW t0 \in Frames, NEW k0 \in Indices, NEW l0 \in Indices,
         L \in [{d} -> SUBSET Indices], m \in MemType, k0 \in L[d], m[d][k0].frame = t0,
         PageAt(k0, l0) = lim, EntryGood(m1[t0][l0], lim, frames), m1[t0][l0].frame = lim,
         Shape(m, pool, frames, {d}, L, NoTable, lim), Identity(m, L, d, lim),
         \A l \in Indices : l # l0 => m1[t0][l] = m[t0][l],
         \A t \in Frames : t # t0 => m1[t] = m[t]
  PROVE  /\ Shape(m1, pool, frames, {d}, L, NoTable, lim + 1)
         /\ Identity(m1, L, d, lim + 1)
<1>1. \A t, k : IsTable(m, {d}, L, NoTable, t, k) <=> (k \in L[d] /\ m[d][k].frame = t)
  BY DEF IsTable, NoTable
<1>2. t0 \in pool /\ t0 # d /\ t0 # nullptr
  BY <1>1 DEF Shape, FoldersGood, DirectoriesGood
<1>3. m1[d] = m[d]
  BY <1>2
<1>4. \A t, k : IsTable(m1, {d}, L, NoTable, t, k) <=> IsTable(m, {d}, L, NoTable, t, k)
  BY <1>3 DEF IsTable, NoTable
<1>5. \A k \in Indices : IsTable(m, {d}, L, NoTable, t0, k) => k = k0
  <2>1. IsTable(m, {d}, L, NoTable, t0, k0)
    BY <1>1
  <2>2. OneIndex(m, {d}, L, NoTable)
    BY DEF Shape
  <2> QED BY <2>1, <2>2 DEF OneIndex
<1>6. \A k, l \in Indices : PageAt(k, l) \in Nat /\ (PageAt(k, l) = lim => k = k0 /\ l = l0)
  BY PageAtIs, PageAtOnce
<1>7. \A t \in Frames, k, l \in Indices : IsTable(m, {d}, L, NoTable, t, k) =>
        /\ t # nullptr
        /\ Filled(NoTable, lim, t, k, l) <=> PageAt(k, l) < lim
        /\ Filled(NoTable, lim + 1, t, k, l) <=> PageAt(k, l) < lim + 1
  <2>1. \A k \in L[d] : m[d][k].frame # nullptr
    BY DEF Shape, DirectoriesGood
  <2> QED BY <1>1, <2>1 DEF Filled, NoTable
<1>8. NoOther(m, {d}, L, NoTable, lim, m1, {d}, L, NoTable, lim + 1, t0, k0, l0)
  <2> SUFFICES ASSUME NEW t \in Frames, NEW k \in Indices, IsTable(m, {d}, L, NoTable, t, k)
               PROVE  /\ t = t0 => k = k0
                      /\ \A l \in Indices : ~(t = t0 /\ l = l0) =>
                           /\ m1[t][l] = m[t][l]
                           /\ Filled(NoTable, lim + 1, t, k, l) <=> Filled(NoTable, lim, t, k, l)
    BY <1>4 DEF NoOther
  <2>1. \A l \in Indices : ~(t = t0 /\ l = l0) => m1[t][l] = m[t][l]
    OBVIOUS
  <2>2. \A l \in Indices : ~(t = t0 /\ l = l0) => PageAt(k, l) # lim
    BY <1>1, <1>6
  <2>3. \A l \in Indices : PageAt(k, l) # lim => (PageAt(k, l) < lim <=> PageAt(k, l) < lim + 1)
    BY <1>6
  <2> QED BY <1>5, <1>7, <2>1, <2>2, <2>3
<1>9. Filled(NoTable, lim + 1, t0, k0, l0)
  BY <1>2 DEF Filled, NoTable
<1>10. \A t \in Frames, l \in Indices : ~Holds(m, {d}, L, NoTable, lim, t, l, lim)
  <2> SUFFICES ASSUME NEW t \in Frames, NEW l \in Indices, NEW k \in Indices,
                      IsTable(m, {d}, L, NoTable, t, k), Filled(NoTable, lim, t, k, l),
                      m[t][l].frame = lim
               PROVE  FALSE
    BY DEF Holds
  <2>1. k \in L[d] /\ m[d][k].frame = t /\ PageAt(k, l) < lim
    BY <1>1, <1>7
  <2>2. m[t][l].frame = PageAt(k, l)
    BY <2>1 DEF Identity
  <2> QED BY <1>6, <2>1, <2>2
<1>11. /\ OneIndex(m1, {d}, L, NoTable) /\ EntriesGood(m1, frames, {d}, L, NoTable, lim + 1)
       /\ FramesPrivate(m1, {d}, L, NoTable, lim + 1)
  <2> DEFINE D == {d}
             lim1 == lim + 1
  <2> HIDE DEF D, lim1
  <2>1. NoOther(m, D, L, NoTable, lim, m1, D, L, NoTable, lim1, t0, k0, l0)
        /\ Filled(NoTable, lim1, t0, k0, l0)
    BY <1>8, <1>9 DEF D, lim1
  <2>2. OneIndex(m, D, L, NoTable) /\ EntriesGood(m, frames, D, L, NoTable, lim)
        /\ FramesPrivate(m, D, L, NoTable, lim)
    BY DEF D, Shape
  <2>3. EntryGood(m1[t0][l0], PageAt(k0, l0), frames)
        /\ \A t \in Frames, l \in Indices : ~Holds(m, D, L, NoTable, lim, t, l, m1[t0][l0].frame)
    BY <1>10 DEF D
  <2>4. /\ OneIndex(m1, D, L, NoTable) /\ EntriesGood(m1, frames, D, L, NoTable, lim1)
        /\ FramesPrivate(m1, D, L, NoTable, lim1)
    BY <2>1, <2>2, <2>3, NewEntry
  <2> QED BY <2>4 DEF D, lim1
<1>12. DirectoriesGood(m1, {d}, L) /\ TablesPrivate(m1, {d}, L, NoTable)
  BY <1>3 DEF Shape, DirectoriesGood, TablesPrivate, NoTable
<1>13. FoldersGood(m1, pool, {d}, L, NoTable)
  BY <1>4 DEF Shape, FoldersGood
<1>14. Identity(m1, L, d, lim + 1)
  <2> SUFFICES ASSUME NEW k \in L[d], NEW l \in Indices, PageAt(k, l) < lim + 1
               PROVE  m1[m[d][k].frame][l].frame = PageAt(k, l)
    BY <1>3 DEF Identity
  <2>1. k \in Indices /\ m[d][k].frame \in Frames
    BY StoreTypes
  <2>2. CASE k = k0 /\ l = l0
    BY <2>2
  <2>3. CASE ~(k = k0 /\ l = l0)
    <3>1. PageAt(k, l) < lim
      BY <1>6, <2>1, <2>3
    <3>2. ~(m[d][k].frame = t0 /\ l = l0)
      BY <1>1, <1>5, <2>1, <2>3
    <3>3. m1[m[d][k].frame][l] = m[m[d][k].frame][l]
      BY <2>1, <3>2
    <3> QED BY <3>1, <3>3 DEF Identity
  <2> QED BY <2>2, <2>3
<1> QED BY <1>11, <1>12, <1>13, <1>14 DEF Shape

(***************************************************************************)
(* What the invariant says of a state                                      *)
(***************************************************************************)

(* The arguments of Shape have their types. *)
LEMMA ShapeTypes ==
  ASSUME PagingInv
  PROVE  /\ mem \in MemType /\ Linked \in [Dirs -> SUBSET Indices] /\ Limit \in Nat
         /\ paging_pool \subseteq Frames /\ nullptr \notin paging_pool
         /\ Shape(mem, paging_pool, user_space_pool, Dirs, Linked, Filling, Limit)
         /\ Dirs \subseteq paging_pool /\ Dirs \subseteq Frames
<1>1. mem \in MemType /\ Shape(mem, paging_pool, user_space_pool, Dirs, Linked, Filling, Limit)
  BY DEF PagingInv, TypeOK, MemType
<1>2. Linked \in [Dirs -> SUBSET Indices]
  BY DEF Linked, LinkedIn, UpTo
<1>3. paging_pool \subseteq Frames /\ nullptr \notin paging_pool
  BY Sizes DEF PagingInv, TypeOK, Frames, nullptr
<1>4. Limit \in Nat
  BY Sizes DEF Limit, PagingInv, TypeOK
<1>5. Dirs \subseteq paging_pool
  BY <1>1 DEF Shape, FoldersGood
<1> QED BY <1>1, <1>2, <1>3, <1>4, <1>5

(* A complete directory has every table. *)
LEMMA BuiltIs ==
  ASSUME PagingInv, NEW d \in built
  PROVE  /\ pc \notin {"boot", "map"} /\ d \in Dirs /\ Linked[d] = UpTo(UserStart)
         /\ Limit = UserStart /\ current_directory \in built
<1>1. pc \notin {"boot", "map"} /\ current_directory \in built
  BY DEF PagingInv, Control
<1>2. d \in Dirs
  BY <1>1 DEF Dirs
<1>3. ~(Cloning /\ d = dir)
  BY DEF PagingInv, Control
<1> QED BY <1>1, <1>2, <1>3 DEF Linked, LinkedIn, Limit

(* The table at index k of a complete directory. *)
LEMMA TableIs ==
  ASSUME PagingInv, NEW d \in built, NEW k \in Indices
  PROVE  LET t == mem[d][k].frame
         IN /\ k \in UpTo(UserStart) <=> mem[d][k].present
            /\ ~(k \in UpTo(UserStart)) => t = nullptr
            /\ ~mem[d][k].user \/ ~mem[d][k].present
            /\ t \in Frames
            /\ k \in UpTo(UserStart) =>
                 /\ IsTable(mem, Dirs, Linked, Filling, t, k)
                 /\ t \in paging_pool /\ t # Filling.t /\ t \notin Dirs
                 /\ \A l \in Indices :
                      /\ Filled(Filling, Limit, t, k, l) <=> PageAt(k, l) < UserStart
                      /\ IF PageAt(k, l) < UserStart
                         THEN EntryGood(mem[t][l], PageAt(k, l), user_space_pool)
                         ELSE ~mem[t][l].present /\ ~mem[t][l].user
<1> DEFINE t == mem[d][k].frame
           S == Shape(mem, paging_pool, user_space_pool, Dirs, Linked, Filling, Limit)
<1>1. d \in Dirs /\ Linked[d] = UpTo(UserStart) /\ Limit = UserStart
  BY BuiltIs
<1>2. S /\ mem \in MemType /\ d \in Frames
  BY <1>1, ShapeTypes
<1>3. t \in Frames /\ mem[d][k] \in PagePointer
  BY <1>2, StoreTypes
<1>4. IF k \in UpTo(UserStart) THEN mem[d][k].present /\ ~mem[d][k].user /\ t # nullptr
      ELSE ~mem[d][k].present /\ t = nullptr
  BY <1>1, <1>2 DEF Shape, DirectoriesGood
<1>5. ASSUME k \in UpTo(UserStart)
      PROVE  /\ IsTable(mem, Dirs, Linked, Filling, t, k)
             /\ t \in paging_pool /\ t # Filling.t /\ t \notin Dirs
             /\ \A l \in Indices :
                  /\ Filled(Filling, Limit, t, k, l) <=> PageAt(k, l) < UserStart
                  /\ IF PageAt(k, l) < UserStart
                     THEN EntryGood(mem[t][l], PageAt(k, l), user_space_pool)
                     ELSE ~mem[t][l].present /\ ~mem[t][l].user
  <2>1. IsTable(mem, Dirs, Linked, Filling, t, k)
    BY <1>1, <1>5 DEF IsTable
  <2>2. t # Filling.t
    BY <1>1, <1>2, <1>4, <1>5 DEF Shape, TablesPrivate
  <2>3. t \in paging_pool /\ t \notin Dirs
    BY <1>2, <1>3, <2>1 DEF Shape, FoldersGood
  <2>4. \A l \in Indices : Filled(Filling, Limit, t, k, l) <=> PageAt(k, l) < UserStart
    BY <1>1, <2>2 DEF Filled
  <2>5. \A l \in Indices : IF Filled(Filling, Limit, t, k, l)
          THEN EntryGood(mem[t][l], PageAt(k, l), user_space_pool)
          ELSE ~mem[t][l].present /\ ~mem[t][l].user
    BY <1>2, <1>3, <2>1 DEF Shape, EntriesGood
  <2> HIDE DEF t
  <2> QED BY <2>1, <2>2, <2>3, <2>4, <2>5
<1> HIDE DEF t
<1>6. (k \in UpTo(UserStart) <=> mem[d][k].present) /\ (~mem[d][k].user \/ ~mem[d][k].present)
      /\ (~(k \in UpTo(UserStart)) => t = nullptr)
  BY <1>4
<1> QED BY <1>3, <1>5, <1>6 DEF t

(* The table and the entry that a complete directory has for a page. *)
LEMMA MappedIs ==
  ASSUME PagingInv, NEW d \in built, NEW p \in 0 .. UserStart - 1
  PROVE  LET k == p \div PagesInTable
             l == p % PagesInTable
             t == mem[d][k].frame
         IN /\ k \in Indices /\ l \in Indices /\ k \in UpTo(UserStart) /\ PageAt(k, l) = p
            /\ t \in Frames /\ t \in paging_pool /\ t \notin Dirs /\ t # Filling.t
            /\ IsTable(mem, Dirs, Linked, Filling, t, k) /\ Filled(Filling, Limit, t, k, l)
            /\ Entry(d, p) = mem[t][l] /\ EntryGood(mem[t][l], p, user_space_pool)
            /\ Translate(d, p) = mem[t][l].frame /\ Translate(d, p) \in Frames
<1> DEFINE k == p \div PagesInTable
           l == p % PagesInTable
           t == mem[d][k].frame
<1>1. p \in Frames /\ p < UserStart /\ p \in Nat
  BY Sizes DEF Frames
<1>2. k \in Indices /\ l \in Indices /\ PageAt(k, l) = p
  BY <1>1, PlaceOfPage
<1>3. Entry(d, p) = mem[t][l] /\ Translate(d, p) = mem[t][l].frame
  BY DEF Entry, Translate, TableOf
<1> HIDE DEF k, l
<1>4. k \in UpTo(UserStart)
  <2>1. PageAt(k, l) = PageAt(k, 0) + l /\ PageAt(k, 0) \in Nat /\ l \in Nat
    BY <1>2, PageAtIs, Sizes DEF Indices
  <2> QED BY <1>1, <1>2, <2>1, Sizes DEF UpTo
<1>5. /\ t \in Frames /\ IsTable(mem, Dirs, Linked, Filling, t, k)
      /\ t \in paging_pool /\ t # Filling.t /\ t \notin Dirs
      /\ Filled(Filling, Limit, t, k, l) <=> PageAt(k, l) < UserStart
      /\ PageAt(k, l) < UserStart => EntryGood(mem[t][l], PageAt(k, l), user_space_pool)
  BY <1>2, <1>4, TableIs
<1>6. mem[t][l].frame \in Frames
  BY <1>2, <1>5, ShapeTypes, StoreTypes
<1> HIDE DEF t
<1> QED BY <1>1, <1>2, <1>3, <1>4, <1>5, <1>6 DEF k, l, t

(***************************************************************************)
(* initialise_paging keeps the invariant                                   *)
(***************************************************************************)

(* The tables for one page more. *)
LEMMA UpToNext ==
  ASSUME NEW p \in Frames
  PROVE  UpTo(p + 1) = UpTo(p) \cup {p \div PagesInTable} /\ UpTo(0) = {}
<1> DEFINE k0 == p \div PagesInTable
           l0 == p % PagesInTable
<1>1. k0 \in Indices /\ l0 \in Indices /\ PageAt(k0, l0) = p /\ p \in Nat
  BY PlaceOfPage DEF Frames
<1> HIDE DEF k0, l0
<1>2. \A k \in Indices : PageAt(k, 0) \in Nat
  BY PageAtIs
<1>3. 0 \in Indices /\ l0 \in Nat
  BY <1>1, Sizes DEF Indices
<1>4. \A k \in Indices : PageAt(k, 0) = p => k = k0
  BY <1>1, <1>3, PageAtOnce
<1>5. PageAt(k0, 0) <= p
  BY <1>1, <1>3, PageAtIs
<1>6. \A k \in Indices : PageAt(k, 0) < p + 1 <=> PageAt(k, 0) < p \/ k = k0
  BY <1>1, <1>2, <1>4, <1>5
<1>7. UpTo(p + 1) = UpTo(p) \cup {k0}
  BY <1>1, <1>6 DEF UpTo
<1>8. UpTo(0) = {}
  BY <1>2 DEF UpTo
<1> QED BY <1>7, <1>8 DEF k0

(* The kernel's directory is made. *)
LEMMA InvMakeKernelDirectory ==
  ASSUME PagingInv, PoolsSuffice, MakeKernelDirectory
  PROVE  PagingInv'
<1> DEFINE d == allocate_page_folder
<1>1. TypeOK'
  BY NextTypes DEF PagingInv, Next, Boot
<1>2. pc = "boot" /\ pc' = "map" /\ i' = 0 /\ paging_pool = {} /\ built = {} /\ user_space_pool = {}
  BY DEF MakeKernelDirectory, PagingInv, Control
<1>3. d # nullptr /\ d \in Frames /\ d \notin paging_pool
  BY <1>2, Allocated DEF PoolsSuffice
<1>4. mem' = [mem EXCEPT ![d] = Cleared] /\ paging_pool' = {d} /\ kernel_directory' = d
      /\ user_space_pool' = {} /\ built' = {}
  BY <1>2, <1>3 DEF MakeKernelDirectory, WithFolder, Taken
<1>5. mem \in MemType
  BY DEF PagingInv, TypeOK, MemType
<1>6. Dirs' = {d} /\ Filling' = NoTable /\ Limit' = 0
  BY <1>2, <1>4 DEF Dirs, Filling, Limit, nullptr
<1>7. Linked' = [x \in {d} |-> {}]
  <2>1. UpTo(0) = {}
    BY <1>3, UpToNext
  <2>2. LinkedIn(d)' = UpTo(0)
    BY <1>2 DEF LinkedIn
  <2> QED BY <1>2, <1>6, <2>1 DEF Linked, LinkedIn
<1> HIDE DEF d
<1>8. Shape(mem', paging_pool', user_space_pool', Dirs', Linked', Filling', Limit')
  <2> DEFINE L == [x \in {} |-> {}]
             L1 == [x \in {d} |-> {}]
  <2>1. Shape(mem, {}, {}, {}, L, NoTable, 0)
    BY DEF Shape, DirectoriesGood, FoldersGood, EntriesGood, FramesPrivate, TablesPrivate,
           OneIndex, IsTable, NoTable
  <2>2. L \in [{} -> SUBSET Indices] /\ L1[d] = {} /\ \A e \in {} : L1[e] = L[e]
    OBVIOUS
  <2>3. d \notin {}
    OBVIOUS
  <2> HIDE DEF L, L1
  <2>4. Shape([mem EXCEPT ![d] = Cleared], {} \cup {d}, {}, {} \cup {d}, L1, NoTable, 0)
    BY <1>3, <1>5, <2>1, <2>2, <2>3, ShapeDirectory
  <2>5. {} \cup {d} = {d}
    OBVIOUS
  <2> QED BY <1>4, <1>6, <1>7, <2>4, <2>5 DEF L1
<1>9. Control'
  BY <1>2, <1>4, <1>7 DEF Control, Identity, Cloning
<1> QED BY <1>1, <1>8, <1>9 DEF PagingInv

(* A page is mapped. *)
LEMMA InvMapPage ==
  ASSUME PagingInv, PoolsSuffice, MapPage
  PROVE  PagingInv'
<1> DEFINE k0 == i \div PagesInTable
           l0 == i % PagesInTable
           d == kernel_directory
           has == TableOf(mem, d, i) # nullptr
           t0 == IF has THEN TableOf(mem, d, i) ELSE allocate_page_folder
           c == create_page_entry(t0, TRUE, TRUE)
           e == create_page_entry(i, i \notin StackPages, i \in StackPages)
           m == IF has THEN mem ELSE [WithFolder(mem, t0) EXCEPT ![d][k0] = c]
           pool1 == IF has THEN paging_pool ELSE paging_pool \cup {t0}
           L1 == [x \in {d} |-> UpTo(i) \cup {k0}]
<1>1. TypeOK'
  BY NextTypes DEF PagingInv, Next, Boot
<1>2. pc = "map" /\ pc' = "map" /\ i' = i + 1 /\ built = {} /\ user_space_pool = {}
      /\ built' = {} /\ user_space_pool' = {} /\ kernel_directory' = d /\ i < UserStart
  BY DEF MapPage, PagingInv, Control
<1>3. i \in Frames /\ i \in Nat /\ i + 1 \in Nat
  BY <1>2, Sizes DEF PagingInv, TypeOK, Frames
<1>4. k0 \in Indices /\ l0 \in Indices /\ PageAt(k0, l0) = i /\ 0 \in Indices
  BY <1>3, PlaceOfPage, Sizes DEF Indices
<1>5. mem \in MemType /\ d \in Frames
  BY DEF PagingInv, TypeOK, MemType
<1>6. Dirs = {d} /\ Filling = NoTable /\ Limit = i /\ Linked = [x \in {d} |-> UpTo(i)]
  BY <1>2 DEF Dirs, Filling, Limit, Linked, LinkedIn
<1>7. Dirs' = {d} /\ Filling' = NoTable /\ Limit' = i + 1 /\ Linked' = L1
  <2>1. UpTo(i + 1) = UpTo(i) \cup {k0}
    BY <1>3, UpToNext
  <2> QED BY <1>2, <2>1 DEF Dirs, Filling, Limit, Linked, LinkedIn
<1>8. Shape(mem, paging_pool, {}, {d}, Linked, NoTable, i) /\ Identity(mem, Linked, d, i)
  BY <1>2, <1>6 DEF PagingInv, Control
<1>9. has <=> k0 \in UpTo(i)
  <2>1. IF k0 \in UpTo(i) THEN mem[d][k0].frame # nullptr ELSE mem[d][k0].frame = nullptr
    BY <1>4, <1>6, <1>8 DEF Shape, DirectoriesGood
  <2> QED BY <2>1 DEF TableOf
<1>10. t0 \in Frames /\ t0 # nullptr /\ (~has => t0 \notin paging_pool)
  <2>1. CASE has
    BY <1>4, <1>5, <2>1, StoreTypes DEF TableOf
  <2>2. CASE ~has
    BY <1>2, <2>2, Allocated DEF PoolsSuffice
  <2> QED BY <2>1, <2>2
<1>11. paging_pool' = pool1 /\ mem' = [m EXCEPT ![t0][l0] = e]
  BY <1>10 DEF MapPage, Taken
<1>12. e.present /\ (e.user <=> i \in StackPages) /\ e.frame = i /\ EntryGood(e, i, {})
  BY DEF create_page_entry, EntryGood
<1>13. c \in PagePointer /\ c.present /\ ~c.user /\ c.frame = t0
  BY <1>10, EntryTypes DEF create_page_entry
<1>14. L1[d] = UpTo(i) \cup {k0} /\ Linked[d] = UpTo(i) /\ UpTo(i) \subseteq Indices
       /\ Linked \in [{d} -> SUBSET Indices] /\ L1 \in [{d} -> SUBSET Indices]
  BY <1>4, <1>6 DEF UpTo
<1>15. /\ Shape(m, pool1, {}, {d}, L1, NoTable, i) /\ Identity(m, L1, d, i)
       /\ m \in MemType /\ m[d][k0].frame = t0
  <2>1. CASE has
    <3>1. L1 = Linked
      BY <1>6, <1>9, <2>1
    <3> HIDE DEF L1
    <3> QED BY <1>5, <1>8, <2>1, <3>1 DEF TableOf
  <2>2. CASE ~has
    <3>1. d # t0
      BY <1>8, <1>10, <2>2 DEF Shape, FoldersGood
    <3>2. m = [[mem EXCEPT ![t0] = Cleared] EXCEPT ![d][k0] = c]
      BY <1>10, <2>2 DEF WithFolder
    <3>3. m \in MemType
      <4> DEFINE w == [mem EXCEPT ![t0] = Cleared]
      <4>1. w \in MemType
        BY <1>5, <1>10, StoreTypes, EntryTypes
      <4> HIDE DEF w, c, k0
      <4>2. [w EXCEPT ![d][k0] = c] \in MemType
        BY <1>4, <1>5, <1>13, <4>1, StoreTypes
      <4> QED BY <3>2, <4>2 DEF w
    <3>4. TableMade(mem, m, d, t0, k0, c)
      <4> HIDE DEF c, k0, t0, m, has
      <4> QED BY <1>4, <1>5, <1>10, <3>1, <3>2 DEF MemType, TableMade
    <3>5. k0 \notin Linked[d]
      BY <1>9, <1>14, <2>2
    <3>6. \A l \in Indices : ~(PageAt(k0, l) < i)
      <4>1. ~(PageAt(k0, 0) < i)
        BY <1>4, <1>9, <2>2 DEF UpTo
      <4> HIDE DEF k0
      <4>2. \A l \in Indices : l \in Nat /\ PageAt(k0, l) = PageAt(k0, 0) + l /\ PageAt(k0, 0) \in Nat
        BY <1>4, PageAtIs, Sizes DEF Indices
      <4> QED BY <1>3, <4>1, <4>2
    <3>7. pool1 = paging_pool \cup {t0} /\ t0 \notin paging_pool
      BY <1>10, <2>2
    <3>8. L1[d] = Linked[d] \cup {k0}
      BY <1>14
    <3> HIDE DEF c, k0, t0, m, L1, pool1, has, d
    <3>9. Shape(m, pool1, {}, {d}, L1, NoTable, i) /\ Identity(m, L1, d, i)
      <4> DEFINE F == {}
      <4> HIDE DEF F
      <4>1. Shape(mem, paging_pool, F, {d}, Linked, NoTable, i)
        BY <1>8 DEF F
      <4>2. Shape(m, paging_pool \cup {t0}, F, {d}, L1, NoTable, i) /\ Identity(m, L1, d, i)
        BY <1>4, <1>5, <1>8, <1>10, <1>13, <1>14, <3>4, <3>5, <3>6, <3>7, <3>8, <4>1,
           ShapeKernelTable
      <4> QED BY <3>7, <4>2 DEF F
    <3> QED BY <1>13, <3>3, <3>4, <3>9 DEF TableMade
  <2> QED BY <2>1, <2>2
<1>16. /\ mem'[t0][l0] = e
       /\ \A l \in Indices : l # l0 => mem'[t0][l] = m[t0][l]
       /\ \A t \in Frames : t # t0 => mem'[t] = m[t]
  <2> HIDE DEF m, e, t0, l0
  <2> QED BY <1>4, <1>10, <1>11, <1>15 DEF MemType
<1>17. Shape(mem', paging_pool', {}, {d}, L1, NoTable, i + 1) /\ Identity(mem', L1, d, i + 1)
  <2>1. k0 \in L1[d]
    BY <1>14
  <2> DEFINE F == {}
  <2>2. Shape(m, pool1, F, {d}, L1, NoTable, i) /\ EntryGood(mem'[t0][l0], i, F)
        /\ mem'[t0][l0].frame = i
    BY <1>12, <1>15, <1>16
  <2> HIDE DEF m, e, t0, l0, k0, L1, pool1, has, F
  <2>3. Shape(mem', pool1, F, {d}, L1, NoTable, i + 1) /\ Identity(mem', L1, d, i + 1)
    BY <1>3, <1>4, <1>5, <1>10, <1>14, <1>15, <1>16, <2>1, <2>2, ShapeKernelEntry
  <2> QED BY <1>11, <2>3 DEF F
<1>18. Shape(mem', paging_pool', user_space_pool', Dirs', Linked', Filling', Limit')
  <2> HIDE DEF L1
  <2> QED BY <1>2, <1>7, <1>17
<1>19. Control'
  <2>1. pc' = "map" /\ built' = {} /\ user_space_pool' = {}
    BY <1>2
  <2>2. Identity(mem', Linked', kernel_directory', i')
    BY <1>2, <1>7, <1>17
  <2> QED BY <2>1, <2>2 DEF Control, Cloning
<1> QED BY <1>1, <1>18, <1>19 DEF PagingInv

(* Paging is switched on. *)
LEMMA InvEnablePaging ==
  ASSUME PagingInv, EnablePaging
  PROVE  PagingInv'
<1>1. TypeOK'
  BY NextTypes DEF PagingInv, Next, Boot
<1>2. pc = "map" /\ pc' = "run" /\ i = UserStart /\ built' = {kernel_directory}
      /\ current_directory' = kernel_directory
  BY DEF EnablePaging
<1>3. Dirs' = Dirs /\ Filling' = Filling /\ Limit' = Limit /\ Linked' = Linked
  BY <1>2 DEF Dirs, Filling, Limit, Linked, LinkedIn, Cloning
<1>4. mem' = mem /\ paging_pool' = paging_pool /\ user_space_pool' = user_space_pool
  BY DEF EnablePaging
<1>5. Control'
  BY <1>2 DEF Control, Cloning
<1> QED BY <1>1, <1>3, <1>4, <1>5 DEF PagingInv

(***************************************************************************)
(* Tasks and clone_directory keep the invariant                            *)
(***************************************************************************)

(* No frame of a stack is a folder. *)
LEMMA NoFolder ==
  ASSUME PagingInv
  PROVE  \A f \in StackPages \cup user_space_pool : f \notin paging_pool
<1>1. \A f \in StackPages : f \in Nat /\ f < PoolStart
  BY Sizes
<1>2. \A f \in user_space_pool : f \in Nat /\ f >= UserStart
  BY Sizes DEF PagingInv, TypeOK
<1>3. \A f \in paging_pool : f >= PoolStart /\ f < UserStart
  BY Sizes DEF PagingInv, TypeOK
<1> QED BY <1>1, <1>2, <1>3, Sizes

(* The frame behind a page of a task's stack is not a folder. *)
LEMMA StackFrame ==
  ASSUME PagingInv, NEW d \in built, NEW p \in StackPages
  PROVE  /\ Translate(d, p) \in Frames /\ Translate(d, p) \in StackPages \cup user_space_pool
         /\ Translate(d, p) \notin paging_pool
<1>1. p \in 0 .. UserStart - 1
  BY StackIsMapped, Sizes DEF Frames
<1> DEFINE e == mem[mem[d][p \div PagesInTable].frame][p % PagesInTable]
<1>2. EntryGood(e, p, user_space_pool) /\ Translate(d, p) = e.frame /\ Translate(d, p) \in Frames
  BY <1>1, MappedIs, Zenon
<1> HIDE DEF e
<1>3. Translate(d, p) \in StackPages \cup user_space_pool
  BY <1>2 DEF EntryGood
<1> QED BY <1>2, <1>3, NoFolder

(* A task writes to its stack: never to a folder. *)
LEMMA InvWriteStack ==
  ASSUME PagingInv, WriteStack
  PROVE  PagingInv'
<1>1. TypeOK'
  BY NextTypes DEF PagingInv, Next
<1>2. PICK p \in StackPages, v \in Values :
        mem' = [mem EXCEPT ![Translate(current_directory, p)] = PageOf(v)]
  BY DEF WriteStack
<1>3. current_directory \in built
  BY DEF WriteStack, PagingInv, Control
<1>4. Translate(current_directory, p) \in StackPages \cup user_space_pool
  BY <1>3, StackFrame
<1>5. Translate(current_directory, p) \notin paging_pool
  BY <1>4, NoFolder
<1>6. \A t \in paging_pool : mem'[t] = mem[t]
  BY <1>2, <1>5, ShapeTypes DEF MemType
<1>7. UNCHANGED <<paging_pool, user_space_pool, kernel_directory, current_directory,
                  pc, i, j, dir, table, built>>
  BY DEF WriteStack
<1>8. Dirs' = Dirs /\ Filling' = Filling /\ Limit' = Limit /\ Linked' = Linked
  BY <1>7 DEF Dirs, Filling, Limit, Linked, LinkedIn, Cloning
<1>9. Shape(mem', paging_pool, user_space_pool, Dirs, Linked, Filling, Limit)
  BY <1>6, ShapeTypes, ShapeOutside
<1>10. Control'
  BY <1>7 DEF PagingInv, Control, Cloning, WriteStack
<1> QED BY <1>1, <1>7, <1>8, <1>9, <1>10 DEF PagingInv

(* Another task runs. *)
LEMMA InvSwitchDirectory ==
  ASSUME PagingInv, SwitchDirectory
  PROVE  PagingInv'
<1>1. TypeOK'
  BY NextTypes DEF PagingInv, Next
<1>2. pc = "run" /\ current_directory' \in built
      /\ UNCHANGED <<mem, paging_pool, user_space_pool, kernel_directory, pc, i, j, dir,
                     table, built>>
  BY DEF SwitchDirectory
<1>3. Dirs' = Dirs /\ Filling' = Filling /\ Limit' = Limit /\ Linked' = Linked
  BY <1>2 DEF Dirs, Filling, Limit, Linked, LinkedIn, Cloning
<1>4. Control'
  BY <1>2 DEF Control, Cloning
<1> QED BY <1>1, <1>2, <1>3, <1>4 DEF PagingInv

(* fork begins a directory. *)
LEMMA InvCloneDirectory ==
  ASSUME PagingInv, PoolsSuffice, CloneDirectory
  PROVE  PagingInv'
<1> DEFINE d == allocate_page_folder
<1>1. TypeOK'
  BY NextTypes DEF PagingInv, Next
<1>2. pc = "run" /\ pc' = "entry" /\ i' = 0 /\ dir' = d
      /\ UNCHANGED <<user_space_pool, kernel_directory, current_directory, j, table, built>>
  BY DEF CloneDirectory
<1>3. d # nullptr /\ d \in Frames /\ d \notin paging_pool
  BY Allocated DEF PoolsSuffice, CloneDirectory
<1>4. mem' = [mem EXCEPT ![d] = Cleared] /\ paging_pool' = paging_pool \cup {d}
  BY <1>3 DEF CloneDirectory, WithFolder, Taken
<1>5. Dirs = built /\ Filling = NoTable /\ Limit = UserStart /\ Linked = [x \in built |-> UpTo(UserStart)]
  BY <1>2 DEF Dirs, Filling, Limit, Linked, LinkedIn, Cloning
<1>6. Dirs' = built \cup {d} /\ Filling' = NoTable /\ Limit' = UserStart
  BY <1>2 DEF Dirs, Filling, Limit, Cloning
<1> HIDE DEF d
<1>7. d \notin built
  BY <1>3, <1>5, ShapeTypes
<1>8. Linked'[d] = {} /\ \A e \in built : Linked'[e] = Linked[e]
  <2>1. \A k \in UpTo(UserStart) : ~(k < 0)
    BY Sizes DEF UpTo, Indices
  <2>2. Linked' = [x \in built \cup {d} |-> IF x = d THEN {k \in UpTo(UserStart) : k < 0}
                                           ELSE UpTo(UserStart)]
    BY <1>2, <1>6 DEF Linked, LinkedIn, Cloning
  <2>3. {k \in UpTo(UserStart) : k < 0} = {}
    BY <2>1
  <2> QED BY <1>5, <1>7, <2>2, <2>3
<1>9. Shape(mem', paging_pool', user_space_pool', Dirs', Linked', Filling', Limit')
  <2> DEFINE L1 == Linked'
  <2>1. L1[d] = {} /\ \A e \in Dirs : L1[e] = Linked[e]
    BY <1>5, <1>8
  <2> HIDE DEF L1
  <2>2. Shape(mem, paging_pool, user_space_pool, Dirs, Linked, NoTable, Limit)
    BY <1>5, ShapeTypes
  <2>3. Shape([mem EXCEPT ![d] = Cleared], paging_pool \cup {d}, user_space_pool,
              Dirs \cup {d}, L1, NoTable, Limit)
    BY <1>3, <2>1, <2>2, ShapeTypes, ShapeDirectory
  <2> QED BY <1>2, <1>4, <1>5, <1>6, <2>3 DEF L1
<1>10. Control'
  BY <1>2, <1>7 DEF PagingInv, Control, Cloning
<1> QED BY <1>1, <1>9, <1>10 DEF PagingInv

(* While a directory is cloned. *)
LEMMA CloningIs ==
  ASSUME PagingInv, Cloning
  PROVE  /\ current_directory \in built /\ dir \notin built /\ current_directory # dir
         /\ Dirs = built \cup {dir} /\ Limit = UserStart
         /\ Linked = [x \in Dirs |-> IF x = dir THEN {k \in UpTo(UserStart) : k < i}
                                    ELSE UpTo(UserStart)]
<1>1. pc \in {"entry", "page"}
  BY DEF Cloning
<1>2. current_directory \in built /\ dir \notin built
  BY <1>1 DEF PagingInv, Control, Cloning
<1> QED BY <1>1, <1>2 DEF Dirs, Limit, Linked, LinkedIn, Cloning

(* After a step of clone_directory that stays in it. *)
LEMMA CloningNext ==
  ASSUME PagingInv, Cloning, Cloning', UNCHANGED <<current_directory, built, dir>>
  PROVE  /\ Dirs' = Dirs /\ Limit' = Limit
         /\ Linked' = [x \in Dirs |-> IF x = dir THEN {k \in UpTo(UserStart) : k < i'}
                                     ELSE UpTo(UserStart)]
         /\ i' = i => Linked' = Linked
<1>1. pc \in {"entry", "page"} /\ pc' \in {"entry", "page"}
  BY DEF Cloning
<1> QED BY <1>1, CloningIs DEF Dirs, Limit, Linked, LinkedIn, Cloning

(* The entry of the parent's directory that is copied. *)
LEMMA SrcIs ==
  ASSUME PagingInv, Cloning, i \in Indices
  PROVE  /\ Src.present <=> i \in UpTo(UserStart)
         /\ Src.present => ~Src.user
         /\ Src \in PagePointer /\ Src.frame \in Frames
         /\ Src.present => (contains_user_pages(Src) <=> i \in StackTables)
         /\ Src.present => Src.frame \in paging_pool /\ Src.frame # Filling.t
<1>1. current_directory \in built /\ mem \in MemType /\ current_directory \in Frames
  BY CloningIs, ShapeTypes DEF PagingInv, TypeOK
<1>2. Src \in PagePointer /\ Src.frame \in Frames
  BY <1>1, StoreTypes DEF Src
<1>3. /\ i \in UpTo(UserStart) <=> Src.present
      /\ ~Src.user \/ ~Src.present
      /\ i \in UpTo(UserStart) =>
           /\ Src.frame \in paging_pool /\ Src.frame # Filling.t
           /\ \A l \in Indices :
                IF PageAt(i, l) < UserStart
                THEN EntryGood(mem[Src.frame][l], PageAt(i, l), user_space_pool)
                ELSE ~mem[Src.frame][l].present /\ ~mem[Src.frame][l].user
  BY <1>1, TableIs DEF Src
<1>4. ASSUME Src.present PROVE contains_user_pages(Src) <=> i \in StackTables
  <2>1. \A l \in Indices : mem[Src.frame][l].user <=> PageAt(i, l) \in StackPages
    <3> SUFFICES ASSUME NEW l \in Indices
                 PROVE  mem[Src.frame][l].user <=> PageAt(i, l) \in StackPages
      OBVIOUS
    <3>1. CASE PageAt(i, l) < UserStart
      BY <1>3, <1>4, <3>1 DEF EntryGood
    <3>2. CASE ~(PageAt(i, l) < UserStart)
      BY <1>3, <1>4, <3>2, StackIsMapped
    <3> QED BY <3>1, <3>2
  <2> QED BY <2>1 DEF contains_user_pages, StackTables
<1> QED BY <1>2, <1>3, <1>4

(* An absent table is passed over. *)
LEMMA InvSkipTable ==
  ASSUME PagingInv, SkipTable
  PROVE  PagingInv'
<1>1. TypeOK'
  BY NextTypes DEF PagingInv, Next, Clone
<1>2. pc = "entry" /\ pc' = "entry" /\ i' = i + 1 /\ Cloning /\ Cloning' /\ ~Src.present
      /\ UNCHANGED <<mem, paging_pool, user_space_pool, kernel_directory, current_directory,
                     j, dir, table, built>>
  BY DEF SkipTable, InDirectory, Cloning
<1>3. i \in Indices
  BY Sizes DEF SkipTable, InDirectory, PagingInv, TypeOK, Indices
<1>4. i \notin UpTo(UserStart)
  BY <1>2, <1>3, SrcIs
<1>5. {k \in UpTo(UserStart) : k < i + 1} = {k \in UpTo(UserStart) : k < i}
  <2>1. \A k \in UpTo(UserStart) : k < i + 1 <=> k < i
    BY <1>3, <1>4, Sizes DEF UpTo, Indices
  <2> QED BY <2>1
<1>6. Dirs' = Dirs /\ Limit' = Limit /\ Linked' = Linked
  BY <1>2, <1>5, CloningIs, CloningNext
<1>7. Filling' = Filling
  BY <1>2 DEF Filling
<1>8. Control'
  BY <1>2 DEF PagingInv, Control, Cloning
<1> QED BY <1>1, <1>2, <1>6, <1>7, <1>8 DEF PagingInv

(* One table more is linked. *)
LEMMA LinkedNext ==
  ASSUME PagingInv, Cloning, Cloning', UNCHANGED <<current_directory, built, dir>>,
         i \in Indices, i \in UpTo(UserStart), i' = i + 1
  PROVE  /\ Linked'[dir] = Linked[dir] \cup {i} /\ i \notin Linked[dir]
         /\ \A c \in Dirs : c # dir => Linked'[c] = Linked[c]
<1>1. {k \in UpTo(UserStart) : k < i + 1} = {k \in UpTo(UserStart) : k < i} \cup {i}
  <2>1. \A k \in UpTo(UserStart) : k < i + 1 <=> k < i \/ k = i
    BY Sizes DEF UpTo, Indices
  <2> QED BY <2>1
<1>2. i \notin {k \in UpTo(UserStart) : k < i}
  BY Sizes DEF Indices
<1> DEFINE S(n) == {k \in UpTo(UserStart) : k < n}
<1>3. S(i + 1) = S(i) \cup {i} /\ i \notin S(i)
  BY <1>1, <1>2
<1>4. /\ Linked' = [x \in Dirs |-> IF x = dir THEN S(i + 1) ELSE UpTo(UserStart)]
      /\ Linked = [x \in Dirs |-> IF x = dir THEN S(i) ELSE UpTo(UserStart)] /\ dir \in Dirs
  BY CloningIs, CloningNext
<1> HIDE DEF S
<1> QED BY <1>3, <1>4

(* A table of the kernel is shared. *)
LEMMA InvShareTable ==
  ASSUME PagingInv, ShareTable
  PROVE  PagingInv'
<1>1. TypeOK'
  BY NextTypes DEF PagingInv, Next, Clone
<1>2. pc = "entry" /\ pc' = "entry" /\ i' = i + 1 /\ Cloning /\ Cloning' /\ Src.present
      /\ UNCHANGED <<paging_pool, user_space_pool, kernel_directory, current_directory,
                     j, dir, table, built>> /\ mem' = [mem EXCEPT ![dir][i] = Src]
  BY DEF ShareTable, InDirectory, Cloning
<1>3. i \in Indices
  BY Sizes DEF ShareTable, InDirectory, PagingInv, TypeOK, Indices
<1>4. i \in UpTo(UserStart) /\ i \notin StackTables
  BY <1>2, <1>3, SrcIs DEF ShareTable, MustClone
<1>5. /\ current_directory \in Dirs /\ dir \in Dirs /\ current_directory # dir
      /\ i \in Linked[current_directory]
  BY <1>2, <1>4, CloningIs
<1>6. Dirs' = Dirs /\ Limit' = Limit /\ Filling' = NoTable /\ Filling = NoTable
  BY <1>2, CloningNext DEF Filling
<1>7. Shape(mem', paging_pool', user_space_pool', Dirs', Linked', Filling', Limit')
  <2> DEFINE L1 == Linked'
             c == current_directory
  <2>1. L1[dir] = Linked[dir] \cup {i} /\ \A x \in Dirs : x # dir => L1[x] = Linked[x]
    BY <1>2, <1>3, <1>4, LinkedNext
  <2>2. Shape(mem, paging_pool, user_space_pool, Dirs, Linked, NoTable, Limit)
    BY <1>6, ShapeTypes
  <2>3. c \in Dirs /\ c # dir /\ i \in Linked[c]
    BY <1>5
  <2> HIDE DEF L1, c
  <2>4. Shape([mem EXCEPT ![dir][i] = mem[c][i]], paging_pool, user_space_pool, Dirs, L1,
              NoTable, Limit)
    BY <1>3, <1>4, <1>5, <2>1, <2>2, <2>3, ShapeTypes, ShapeShare
  <2> QED BY <1>2, <1>6, <2>4 DEF L1, c, Src
<1>8. Control'
  BY <1>2 DEF PagingInv, Control, Cloning
<1> QED BY <1>1, <1>7, <1>8 DEF PagingInv

(* A table with pages of the stack is begun. *)
LEMMA InvCloneTable ==
  ASSUME PagingInv, PoolsSuffice, CloneTable
  PROVE  PagingInv'
<1> DEFINE t0 == allocate_page_folder
<1>1. TypeOK'
  BY NextTypes DEF PagingInv, Next, Clone
<1>2. pc = "entry" /\ pc' = "page" /\ j' = 0 /\ Cloning /\ Cloning' /\ Src.present /\ MustClone(Src)
      /\ table' = t0 /\ InDirectory
      /\ UNCHANGED <<user_space_pool, kernel_directory, current_directory, i, dir, built>>
  BY DEF CloneTable, InDirectory, Cloning
<1>3. i \in Indices
  BY <1>2, Sizes DEF InDirectory, PagingInv, TypeOK, Indices
<1>4. i \in UpTo(UserStart) /\ i \in StackTables
  BY <1>2, <1>3, SrcIs DEF MustClone
<1>5. t0 # nullptr /\ t0 \in Frames /\ t0 \notin paging_pool
  BY <1>2, Allocated DEF PoolsSuffice
<1>6. mem' = [mem EXCEPT ![t0] = Cleared] /\ paging_pool' = paging_pool \cup {t0}
  BY <1>5 DEF CloneTable, WithFolder, Taken
<1>7. Dirs' = Dirs /\ Limit' = Limit /\ Linked' = Linked
  BY <1>2, CloningNext
<1>8. Filling = NoTable /\ Filling' = [t |-> t0, k |-> i, n |-> 0]
  BY <1>2 DEF Filling
<1> HIDE DEF t0
<1>9. Shape(mem, paging_pool, user_space_pool, Dirs, Linked, NoTable, Limit)
  BY <1>8, ShapeTypes
<1>10. Shape([mem EXCEPT ![t0] = Cleared], paging_pool \cup {t0}, user_space_pool, Dirs, Linked,
             [t |-> t0, k |-> i, n |-> 0], Limit)
  BY <1>3, <1>5, <1>9, ShapeTypes, ShapeBegin
<1>11. Shape(mem', paging_pool', user_space_pool', Dirs', Linked', Filling', Limit')
  BY <1>2, <1>6, <1>7, <1>8, <1>10
<1>12. Control'
  BY <1>2, <1>4, <1>5 DEF PagingInv, Control, Cloning
<1> QED BY <1>1, <1>11, <1>12 DEF PagingInv

(* While a table is filled. *)
LEMMA FillingIs ==
  ASSUME PagingInv, pc = "page"
  PROVE  /\ Filling = [t |-> table, k |-> i, n |-> j] /\ Cloning
         /\ i \in Indices /\ i \in UpTo(UserStart) /\ i \in StackTables
         /\ table \in Frames /\ table # nullptr /\ table \in paging_pool /\ table \notin Dirs
<1>1. Filling = [t |-> table, k |-> i, n |-> j] /\ Cloning
  BY DEF Filling, Cloning
<1>2. i \in Indices /\ i \in UpTo(UserStart) /\ i \in StackTables /\ table # nullptr /\ table \in Frames
  BY DEF PagingInv, Control, TypeOK
<1>3. Filling.t = table /\ Filling.k = i
  BY <1>1
<1>4. table \in paging_pool /\ table \notin Dirs
  BY <1>2, <1>3, ShapeTypes, FillingOne
<1> QED BY <1>1, <1>2, <1>4

(* The entry of the parent's table that is copied. *)
LEMMA PageIs ==
  ASSUME PagingInv, InTable
  PROVE  /\ pc = "page" /\ j \in Indices /\ PageAt(i, j) \in Nat
         /\ Src.present /\ ~Src.user /\ Src.frame \in Frames /\ Src.frame # table
         /\ Src.frame \in paging_pool /\ Src.frame \notin Dirs
         /\ Page \in PagePointer /\ Page.frame \in Frames
         /\ IsTable(mem, Dirs, Linked, Filling, Src.frame, i)
         /\ Filled(Filling, Limit, Src.frame, i, j) <=> PageAt(i, j) < UserStart
         /\ IF PageAt(i, j) < UserStart THEN EntryGood(Page, PageAt(i, j), user_space_pool)
            ELSE ~Page.present /\ ~Page.user
<1>1. pc = "page" /\ j \in Indices
  BY Sizes DEF InTable, PagingInv, TypeOK, Indices
<1>2. Filling.t = table /\ Cloning /\ i \in Indices /\ i \in UpTo(UserStart)
  BY <1>1, FillingIs
<1>3. current_directory \in built
  BY <1>2, CloningIs
<1>4. Src.present /\ ~Src.user /\ Src.frame \in Frames /\ Src.frame # table /\ Src.frame \in paging_pool
  BY <1>2, SrcIs
<1>5. Page \in PagePointer /\ Page.frame \in Frames
  BY <1>1, <1>4, ShapeTypes, StoreTypes DEF Page
<1>6. /\ IsTable(mem, Dirs, Linked, Filling, Src.frame, i) /\ Src.frame \notin Dirs
      /\ Filled(Filling, Limit, Src.frame, i, j) <=> PageAt(i, j) < UserStart
      /\ IF PageAt(i, j) < UserStart THEN EntryGood(Page, PageAt(i, j), user_space_pool)
         ELSE ~Page.present /\ ~Page.user
  BY <1>1, <1>2, <1>3, TableIs DEF Src, Page
<1>7. PageAt(i, j) \in Nat
  BY <1>1, <1>2, PageAtIs
<1> QED BY <1>1, <1>4, <1>5, <1>6, <1>7

(* An entry of the kernel is shared, an absent one passed over. *)
LEMMA InvSharePage ==
  ASSUME PagingInv, SharePage
  PROVE  PagingInv'
<1> DEFINE x == [t |-> table, k |-> i, n |-> j]
           x1 == [t |-> table, k |-> i, n |-> j + 1]
<1>1. TypeOK'
  BY NextTypes DEF PagingInv, Next, Clone
<1>2. InTable /\ pc' = pc /\ j' = j + 1 /\ ~(Page.present /\ (Src.user \/ Page.user))
      /\ UNCHANGED <<paging_pool, user_space_pool, kernel_directory, current_directory,
                     pc, i, dir, table, built>>
  BY DEF SharePage
<1>3. pc = "page" /\ pc' = "page" /\ Cloning /\ Cloning' /\ Filling = x /\ Filling' = x1
  BY <1>2, PageIs, FillingIs DEF Filling, Cloning
<1>4. Dirs' = Dirs /\ Limit' = Limit /\ Linked' = Linked /\ Limit = UserStart
  BY <1>2, <1>3, CloningNext, CloningIs
<1>5. i \in Indices /\ j \in Indices /\ table \in Frames /\ table # nullptr /\ PageAt(i, j) \in Nat
  BY <1>2, <1>3, FillingIs, PageIs
<1>6. Shape(mem, paging_pool, user_space_pool, Dirs, Linked, x, Limit)
  BY <1>3, ShapeTypes
<1>7. Shape(mem', paging_pool, user_space_pool, Dirs, Linked, x1, Limit)
  <2>1. CASE Page.present
    <3>1. PageAt(i, j) < Limit /\ EntryGood(Page, PageAt(i, j), user_space_pool)
      BY <1>2, <1>4, <2>1, PageIs
    <3>2. PageAt(i, j) \notin StackPages
      BY <1>2, <2>1, <3>1 DEF EntryGood
    <3>3. mem' = [mem EXCEPT ![table][j] = Page]
      BY <2>1 DEF SharePage
    <3>4. /\ mem'[table][j] = Page
          /\ \A l \in Indices : l # j => mem'[table][l] = mem[table][l]
          /\ \A t \in paging_pool : t # table => mem'[t] = mem[t]
      BY <1>5, <3>3, ShapeTypes DEF MemType
    <3>5. EntryGood(mem'[table][j], PageAt(i, j), user_space_pool)
      BY <3>1, <3>4
    <3> DEFINE m1 == mem'
    <3>6. /\ EntryGood(m1[table][j], PageAt(i, j), user_space_pool)
          /\ \A l \in Indices : l # j => m1[table][l] = mem[table][l]
          /\ \A t \in paging_pool : t # table => m1[t] = mem[t]
      BY <3>4, <3>5
    <3>7. Limit \in Nat /\ Linked \in [Dirs -> SUBSET Indices]
      BY ShapeTypes
    <3> HIDE DEF m1
    <3>8. /\ user_space_pool \subseteq user_space_pool
          /\ PageAt(i, j) \in StackPages =>
               \A t \in Frames, l \in Indices :
                 ~Holds(mem, Dirs, Linked, x, Limit, t, l, m1[table][j].frame)
      BY <3>2
    <3>9. Shape(m1, paging_pool, user_space_pool, Dirs, Linked, x1, Limit)
      BY <1>5, <1>6, <3>1, <3>6, <3>7, <3>8, ShapeFill
    <3> QED BY <3>9 DEF m1
  <2>2. CASE ~Page.present
    <3>1. mem' = mem
      BY <2>2 DEF SharePage
    <3>2. ~(PageAt(i, j) < Limit)
      BY <1>2, <1>4, <2>2, PageIs DEF EntryGood
    <3> QED BY <1>5, <1>6, <3>1, <3>2, ShapeTypes, ShapePass
  <2> QED BY <2>1, <2>2
<1>8. Shape(mem', paging_pool', user_space_pool', Dirs', Linked', Filling', Limit')
  BY <1>2, <1>3, <1>4, <1>7
<1>9. Control'
  BY <1>2, <1>3 DEF PagingInv, Control, Cloning
<1> QED BY <1>1, <1>8, <1>9 DEF PagingInv

(* What CopyPage does to memory and to the pool of frames. *)
LEMMA CopyPageIs ==
  ASSUME PagingInv, PoolsSuffice, CopyPage
  PROVE  LET f == allocate_frame
         IN /\ InTable /\ PageAt(i, j) < UserStart /\ PageAt(i, j) \in StackPages
            /\ f \in Frames /\ f \notin StackPages /\ f \notin user_space_pool
            /\ f \notin paging_pool /\ f # table
            /\ user_space_pool' = user_space_pool \cup {f}
            /\ mem'[table][j] = [Page EXCEPT !.frame = f]
            /\ \A l \in Indices : l # j => mem'[table][l] = mem[table][l]
            /\ mem'[f] = mem[Page.frame]
            /\ \A t \in Frames : t # table /\ t # f => mem'[t] = mem[t]
<1> DEFINE f == allocate_frame
           e == [Page EXCEPT !.frame = f]
<1>1. InTable /\ Page.present /\ (Src.user \/ Page.user)
  BY DEF CopyPage
<1>2. f # nullptr /\ f \in UserStart .. UserEnd - 1 /\ f \notin user_space_pool /\ f \in Frames
  BY <1>1, Allocated DEF PoolsSuffice
<1>3. PageAt(i, j) < UserStart /\ PageAt(i, j) \in StackPages
  BY <1>1, PageIs DEF EntryGood
<1>4. f \notin StackPages /\ f \notin paging_pool
  BY <1>2, Sizes DEF PagingInv, TypeOK
<1>5. table \in Frames /\ table \in paging_pool /\ table # f /\ j \in Indices
  BY <1>1, <1>4, FillingIs, PageIs
<1>6. user_space_pool' = user_space_pool \cup {f}
  BY <1>2 DEF CopyPage, Taken
<1>7. mem' = [mem EXCEPT ![table][j] = e, ![f] = mem[Page.frame]]
  BY DEF CopyPage
<1> HIDE DEF e, f
<1>8. /\ mem'[table][j] = e
      /\ \A l \in Indices : l # j => mem'[table][l] = mem[table][l]
      /\ mem'[f] = mem[Page.frame]
      /\ \A t \in Frames : t # table /\ t # f => mem'[t] = mem[t]
  BY <1>2, <1>5, <1>7, ShapeTypes DEF MemType
<1> QED BY <1>1, <1>2, <1>3, <1>4, <1>5, <1>6, <1>8 DEF e, f

(* A page of the stack is copied. *)
LEMMA InvCopyPage ==
  ASSUME PagingInv, PoolsSuffice, CopyPage
  PROVE  PagingInv'
<1> DEFINE x == [t |-> table, k |-> i, n |-> j]
           x1 == [t |-> table, k |-> i, n |-> j + 1]
           f == allocate_frame
<1>1. TypeOK'
  BY NextTypes DEF PagingInv, Next, Clone
<1>2. InTable /\ pc' = pc /\ j' = j + 1 /\ Page.present /\ (Src.user \/ Page.user)
      /\ UNCHANGED <<paging_pool, kernel_directory, current_directory,
                     pc, i, dir, table, built>>
  BY DEF CopyPage
<1>3. pc = "page" /\ pc' = "page" /\ Cloning /\ Cloning' /\ Filling = x /\ Filling' = x1
  BY <1>2, PageIs, FillingIs DEF Filling, Cloning
<1>4. Dirs' = Dirs /\ Limit' = Limit /\ Linked' = Linked /\ Limit = UserStart
  BY <1>2, <1>3, CloningNext, CloningIs
<1>5. i \in Indices /\ j \in Indices /\ table \in Frames /\ table # nullptr
  BY <1>2, <1>3, FillingIs, PageIs
<1>6. Shape(mem, paging_pool, user_space_pool, Dirs, Linked, x, Limit)
  BY <1>3, ShapeTypes
<1>7. /\ PageAt(i, j) < Limit /\ PageAt(i, j) \in StackPages
      /\ f \notin StackPages /\ f \notin user_space_pool /\ f \notin paging_pool
      /\ user_space_pool' = user_space_pool \cup {f}
      /\ mem'[table][j] = [Page EXCEPT !.frame = f]
      /\ \A l \in Indices : l # j => mem'[table][l] = mem[table][l]
      /\ \A t \in paging_pool : t # table => mem'[t] = mem[t]
  BY <1>4, CopyPageIs, ShapeTypes
<1>8. Page.present /\ Page.user /\ Page \in PagePointer
  BY <1>2, PageIs
<1> HIDE DEF f
<1>9. mem'[table][j].frame = f /\ EntryGood(mem'[table][j], PageAt(i, j), user_space_pool')
  <2>1. /\ [Page EXCEPT !.frame = f].frame = f /\ [Page EXCEPT !.frame = f].present
        /\ [Page EXCEPT !.frame = f].user
    BY <1>8 DEF PagePointer
  <2> QED BY <1>7, <2>1 DEF EntryGood
<1>10. \A t \in Frames, l \in Indices : ~Holds(mem, Dirs, Linked, x, Limit, t, l, f)
  <2> HIDE DEF x
  <2> SUFFICES ASSUME NEW t \in Frames, NEW l \in Indices, NEW k \in Indices,
                      IsTable(mem, Dirs, Linked, x, t, k), Filled(x, Limit, t, k, l),
                      PageAt(k, l) \in StackPages, mem[t][l].frame = f
               PROVE  FALSE
    BY DEF Holds
  <2>1. EntryGood(mem[t][l], PageAt(k, l), user_space_pool)
    BY <1>6 DEF Shape, EntriesGood
  <2> QED BY <1>7, <2>1 DEF EntryGood
<1>11. Shape(mem', paging_pool, user_space_pool', Dirs, Linked, x1, Limit)
  <2> DEFINE m1 == mem'
             frames1 == user_space_pool'
  <2>1. /\ EntryGood(m1[table][j], PageAt(i, j), frames1) /\ user_space_pool \subseteq frames1
        /\ \A l \in Indices : l # j => m1[table][l] = mem[table][l]
        /\ \A t \in paging_pool : t # table => m1[t] = mem[t]
        /\ \A t \in Frames, l \in Indices :
             ~Holds(mem, Dirs, Linked, x, Limit, t, l, m1[table][j].frame)
    BY <1>7, <1>9, <1>10
  <2> HIDE DEF m1, frames1
  <2>2. Shape(m1, paging_pool, frames1, Dirs, Linked, x1, Limit)
    BY <1>5, <1>6, <1>7, <2>1, ShapeTypes, ShapeFill, ZenonT(40)
  <2> QED BY <2>2 DEF m1, frames1
<1>12. Shape(mem', paging_pool', user_space_pool', Dirs', Linked', Filling', Limit')
  BY <1>2, <1>3, <1>4, <1>11
<1>13. Control'
  BY <1>2, <1>3 DEF PagingInv, Control, Cloning
<1> QED BY <1>1, <1>12, <1>13 DEF PagingInv

(* The new table is linked. *)
LEMMA InvLinkTable ==
  ASSUME PagingInv, LinkTable
  PROVE  PagingInv'
<1> DEFINE e == [Src EXCEPT !.frame = table]
<1>1. TypeOK'
  BY NextTypes DEF PagingInv, Next, Clone
<1>2. pc = "page" /\ pc' = "entry" /\ j = PagesInTable /\ i' = i + 1 /\ Cloning /\ Cloning'
      /\ UNCHANGED <<paging_pool, user_space_pool, kernel_directory, current_directory,
                     j, dir, table, built>> /\ mem' = [mem EXCEPT ![dir][i] = e]
  BY DEF LinkTable, Cloning
<1>3. /\ i \in Indices /\ i \in UpTo(UserStart) /\ table \in Frames /\ table # nullptr
      /\ Filling = [t |-> table, k |-> i, n |-> PagesInTable]
  BY <1>2, FillingIs
<1>4. Src \in PagePointer /\ Src.present /\ ~Src.user
  BY <1>2, <1>3, SrcIs
<1>5. e \in PagePointer /\ e.present /\ ~e.user /\ e.frame = table
  <2>1. e \in PagePointer
    BY <1>3, <1>4, EntryTypes
  <2> QED BY <1>4, <2>1 DEF PagePointer
<1>6. dir \in Dirs /\ Dirs' = Dirs /\ Limit' = Limit /\ Filling' = NoTable
  BY <1>2, CloningIs, CloningNext DEF Filling
<1>7. Shape(mem', paging_pool', user_space_pool', Dirs', Linked', Filling', Limit')
  <2> DEFINE L1 == Linked'
  <2>1. /\ L1[dir] = Linked[dir] \cup {i} /\ \A x \in Dirs : x # dir => L1[x] = Linked[x]
        /\ i \notin Linked[dir]
    BY <1>2, <1>3, LinkedNext
  <2>2. Shape(mem, paging_pool, user_space_pool, Dirs, Linked,
              [t |-> table, k |-> i, n |-> PagesInTable], Limit)
    BY <1>3, ShapeTypes
  <2> HIDE DEF L1, e
  <2>3. Shape([mem EXCEPT ![dir][i] = e], paging_pool, user_space_pool, Dirs, L1, NoTable, Limit)
    BY <1>3, <1>5, <1>6, <2>1, <2>2, ShapeTypes, ShapeLink
  <2> QED BY <1>2, <1>6, <2>3 DEF L1
<1>8. Control'
  BY <1>2 DEF PagingInv, Control, Cloning
<1> QED BY <1>1, <1>7, <1>8 DEF PagingInv

(* The new directory is complete. *)
LEMMA InvFinishClone ==
  ASSUME PagingInv, FinishClone
  PROVE  PagingInv'
<1>1. TypeOK'
  BY NextTypes DEF PagingInv, Next, Clone
<1>2. pc = "entry" /\ pc' = "run" /\ i = PagesInTable /\ Cloning /\ ~Cloning'
      /\ built' = built \cup {dir}
      /\ UNCHANGED <<mem, paging_pool, user_space_pool, kernel_directory, current_directory>>
  BY DEF FinishClone, Cloning
<1>3. Dirs' = Dirs /\ Filling' = Filling /\ Limit' = Limit
  BY <1>2, CloningIs DEF Dirs, Filling, Limit
<1>4. {k \in UpTo(UserStart) : k < PagesInTable} = UpTo(UserStart)
  <2>1. \A k \in UpTo(UserStart) : k < PagesInTable
    BY Sizes DEF UpTo, Indices
  <2> QED BY <2>1
<1>5. Linked' = Linked
  BY <1>2, <1>3, <1>4, CloningIs DEF Linked, LinkedIn
<1>6. current_directory \in built
  BY <1>2, CloningIs
<1>7. Control'
  BY <1>2, <1>6 DEF Control
<1> QED BY <1>1, <1>2, <1>3, <1>5, <1>7 DEF PagingInv

(***************************************************************************)
(* What every state satisfies                                              *)
(***************************************************************************)

(* The invariant holds at power-on. *)
LEMMA InvInit == Init => PagingInv
<1> SUFFICES ASSUME Init PROVE PagingInv
  OBVIOUS
<1>1. TypeOK
  <2>1. nullptr \in Frames /\ 0 \in 0 .. PagesInTable
    BY Sizes DEF Frames, nullptr
  <2> QED BY <2>1, EntryTypes DEF Init, TypeOK
<1>2. Control
  BY DEF Init, Control, Cloning
<1>3. Dirs = {} /\ Filling = NoTable
  BY DEF Init, Dirs, Cloning, Filling
<1>4. Shape(mem, paging_pool, user_space_pool, Dirs, Linked, Filling, Limit)
  BY <1>3 DEF Shape, DirectoriesGood, FoldersGood, EntriesGood, FramesPrivate, TablesPrivate,
              OneIndex, IsTable, NoTable
<1> QED BY <1>1, <1>2, <1>4 DEF PagingInv

(* Every step keeps it, as long as the allocator that is called has a page. *)
LEMMA InvNext ==
  ASSUME PagingInv, PoolsSuffice, [Next]_vars
  PROVE  PagingInv'
<1>1. CASE UNCHANGED vars
  BY <1>1 DEF vars, PagingInv, TypeOK, Control, Cloning, Dirs, Linked, LinkedIn, Filling, Limit
<1>2. CASE Boot
  BY <1>2, InvMakeKernelDirectory, InvMapPage, InvEnablePaging DEF Boot
<1>3. CASE WriteStack \/ SwitchDirectory \/ CloneDirectory
  BY <1>3, InvWriteStack, InvSwitchDirectory, InvCloneDirectory
<1>4. CASE Clone
  BY <1>4, InvSkipTable, InvShareTable, InvCloneTable, InvSharePage, InvCopyPage,
     InvLinkTable, InvFinishClone DEF Clone
<1> QED BY <1>1, <1>2, <1>3, <1>4 DEF Next

(* As long as no allocation finds its pool used up, every folder has one   *)
(* purpose and one place, every entry is the one its page needs, and no    *)
(* frame of a stack stands in two entries: between any two steps of        *)
(* initialise_paging and of clone_directory.                               *)
THEOREM PagingInvariance == Spec /\ []PoolsSuffice => []PagingInv
<1>1. PagingInv /\ PoolsSuffice /\ [Next]_vars => PagingInv'
  BY InvNext
<1> QED BY <1>1, InvInit, PTL DEF Spec

(* Every directory a task can be given maps the kernel to itself, for the  *)
(* kernel only.                                                            *)
THEOREM PagingKernelMapped == Spec /\ []PoolsSuffice => []KernelMapped
<1>1. PagingInv => KernelMapped
  <2> SUFFICES ASSUME PagingInv, NEW d \in built, NEW p \in KernelPages
               PROVE  Entry(d, p).present /\ ~Entry(d, p).user /\ Entry(d, p).frame = p
    BY DEF KernelMapped
  <2>1. p \in 0 .. UserStart - 1 /\ p \notin StackPages
    BY DEF KernelPages
  <2>2. EntryGood(Entry(d, p), p, user_space_pool)
    BY <2>1, MappedIs
  <2> QED BY <2>1, <2>2 DEF EntryGood
<1> QED BY <1>1, PagingInvariance, PTL

(* No two complete directories, and no two pages of one, have a frame of   *)
(* the stack in common.                                                    *)
LEMMA StacksApart ==
  ASSUME PagingInv, NEW d \in built, NEW e \in built, NEW p \in StackPages, NEW q \in StackPages,
         Translate(d, p) = Translate(e, q)
  PROVE  d = e /\ p = q
<1> DEFINE k == p \div PagesInTable
           l == p % PagesInTable
           k1 == q \div PagesInTable
           l1 == q % PagesInTable
           t == mem[d][k].frame
           u == mem[e][k1].frame
<1>1. p \in 0 .. UserStart - 1 /\ q \in 0 .. UserStart - 1
  BY StackIsMapped, Sizes DEF Frames
<1>2. /\ k \in Indices /\ l \in Indices /\ PageAt(k, l) = p /\ t \in Frames
      /\ k \in UpTo(UserStart)
      /\ IsTable(mem, Dirs, Linked, Filling, t, k) /\ Filled(Filling, Limit, t, k, l)
      /\ Translate(d, p) = mem[t][l].frame
  BY <1>1, MappedIs
<1>3. /\ k1 \in Indices /\ l1 \in Indices /\ PageAt(k1, l1) = q /\ u \in Frames
      /\ IsTable(mem, Dirs, Linked, Filling, u, k1) /\ Filled(Filling, Limit, u, k1, l1)
      /\ Translate(e, q) = mem[u][l1].frame
  BY <1>1, MappedIs
<1>4. k \in StackTables
  BY StackIsMapped
<1>5. d \in Dirs /\ e \in Dirs /\ Linked[d] = UpTo(UserStart) /\ Linked[e] = UpTo(UserStart)
  BY BuiltIs
<1>6. Shape(mem, paging_pool, user_space_pool, Dirs, Linked, Filling, Limit)
  BY ShapeTypes
<1> HIDE DEF k, l, k1, l1
<1>7. t = u /\ l = l1
  <2>1. mem[t][l].frame = mem[u][l1].frame
        /\ PageAt(k, l) \in StackPages /\ PageAt(k1, l1) \in StackPages
    BY <1>2, <1>3
  <2>2. FramesPrivate(mem, Dirs, Linked, Filling, Limit)
    BY <1>6 DEF Shape
  <2> HIDE DEF t, u
  <2> QED BY <1>2, <1>3, <2>1, <2>2 DEF FramesPrivate
<1>8. k = k1
  <2> HIDE DEF t, u
  <2> QED BY <1>2, <1>3, <1>6, <1>7 DEF Shape, OneIndex
<1>9. d = e
  BY <1>2, <1>4, <1>5, <1>6, <1>7, <1>8 DEF Shape, TablesPrivate
<1> QED BY <1>2, <1>3, <1>7, <1>8, <1>9

(* The stacks of the tasks are apart, and apart from the kernel. *)
THEOREM PagingUserPagesPrivate == Spec /\ []PoolsSuffice => []UserPagesPrivate
<1>1. PagingInv => UserPagesPrivate
  <2> SUFFICES ASSUME PagingInv PROVE UserPagesPrivate
    OBVIOUS
  <2>1. \A d, e \in built, p, q \in StackPages :
          Translate(d, p) = Translate(e, q) => d = e /\ p = q
    BY StacksApart
  <2>2. ASSUME NEW d \in built, NEW p \in StackPages
        PROVE  Entry(d, p).present /\ Entry(d, p).user /\ Translate(d, p) \notin KernelPages
    <3>1. p \in 0 .. UserStart - 1
      BY StackIsMapped, Sizes DEF Frames
    <3>2. EntryGood(Entry(d, p), p, user_space_pool) /\ Translate(d, p) = Entry(d, p).frame
      BY <3>1, MappedIs
    <3>3. Translate(d, p) \in StackPages \cup user_space_pool
      BY <3>2 DEF EntryGood
    <3>4. \A f \in user_space_pool : f \notin KernelPages
      BY Sizes DEF PagingInv, TypeOK, KernelPages
    <3>5. Translate(d, p) \notin KernelPages
      BY <3>3, <3>4 DEF KernelPages
    <3> QED BY <3>2, <3>5 DEF EntryGood
  <2> QED BY <2>1, <2>2 DEF UserPagesPrivate
<1> QED BY <1>1, PagingInvariance, PTL

(* Folders come from the pool, and a table with pages of the stack belongs *)
(* to one directory.                                                       *)
THEOREM PagingFoldersInPool == Spec /\ []PoolsSuffice => []FoldersInPool
<1>1. PagingInv => FoldersInPool
  <2> SUFFICES ASSUME PagingInv, NEW d \in built
               PROVE  /\ d \in paging_pool
                      /\ \A k \in Indices : mem[d][k].present =>
                           /\ mem[d][k].frame \in paging_pool
                           /\ \A e \in built : \A l \in Indices :
                                (e # d /\ mem[e][l].present /\ mem[e][l].frame = mem[d][k].frame)
                                  => ~contains_user_pages(mem[d][k])
    BY DEF FoldersInPool
  <2>1. d \in paging_pool
    BY BuiltIs, ShapeTypes
  <2>2. ASSUME NEW k \in Indices, mem[d][k].present PROVE mem[d][k].frame \in paging_pool
    BY <2>2, TableIs
  <2>3. ASSUME NEW k \in Indices, NEW e \in built, NEW l \in Indices, e # d,
               mem[d][k].present, mem[e][l].present, mem[e][l].frame = mem[d][k].frame,
               contains_user_pages(mem[d][k])
        PROVE  FALSE
    <3> DEFINE t == mem[d][k].frame
    <3>1. /\ k \in UpTo(UserStart) /\ IsTable(mem, Dirs, Linked, Filling, t, k) /\ t \in Frames
          /\ \A n \in Indices : IF PageAt(k, n) < UserStart
                                THEN EntryGood(mem[t][n], PageAt(k, n), user_space_pool)
                                ELSE ~mem[t][n].present /\ ~mem[t][n].user
      BY <2>3, TableIs
    <3>2. l \in UpTo(UserStart) /\ IsTable(mem, Dirs, Linked, Filling, t, l)
      BY <2>3, TableIs
    <3>3. Shape(mem, paging_pool, user_space_pool, Dirs, Linked, Filling, Limit)
      BY ShapeTypes
    <3>4. l = k
      <4> HIDE DEF t
      <4> QED BY <3>1, <3>2, <3>3 DEF Shape, OneIndex
    <3>5. k \in StackTables
      <4>1. PICK n \in Indices : mem[t][n].user
        BY <2>3 DEF contains_user_pages
      <4>2. PageAt(k, n) \in StackPages
        BY <3>1, <4>1 DEF EntryGood
      <4> QED BY <4>2 DEF StackTables
    <3>6. d \in Dirs /\ e \in Dirs /\ k \in Linked[d] /\ k \in Linked[e]
      BY <3>1, BuiltIs
    <3>7. mem[d][k].frame = mem[e][k].frame
      BY <2>3, <3>4
    <3>8. d = e
      BY <3>3, <3>5, <3>6, <3>7 DEF Shape, TablesPrivate
    <3> QED BY <2>3, <3>8
  <2>4. \A k \in Indices : mem[d][k].present =>
          \A e \in built : \A l \in Indices :
            (e # d /\ mem[e][l].present /\ mem[e][l].frame = mem[d][k].frame)
              => ~contains_user_pages(mem[d][k])
    BY <2>3
  <2> QED BY <2>1, <2>2, <2>4
<1> QED BY <1>1, PagingInvariance, PTL

(***************************************************************************)
(* Paging implements AddressSpace                                          *)
(***************************************************************************)

(* The place of a page of the stack. *)
LEMMA StackPlace ==
  ASSUME NEW p \in StackPages
  PROVE  LET k == p \div PagesInTable
             l == p % PagesInTable
         IN /\ k \in Indices /\ l \in Indices /\ PageAt(k, l) = p /\ p < UserStart
            /\ k \in StackTables /\ k \in UpTo(UserStart) /\ k \in Nat /\ l \in Nat
            /\ k < PagesInTable /\ l < PagesInTable
<1>1. p \in Frames /\ p < UserStart
  BY StackIsMapped
<1> DEFINE k == p \div PagesInTable
           l == p % PagesInTable
<1>2. k \in Indices /\ l \in Indices /\ PageAt(k, l) = p
  BY <1>1, PlaceOfPage
<1>3. k \in StackTables /\ k \in UpTo(UserStart)
  BY StackIsMapped
<1> HIDE DEF k, l
<1>4. k \in Nat /\ l \in Nat /\ k < PagesInTable /\ l < PagesInTable
  BY <1>2, Sizes DEF Indices
<1> QED BY <1>1, <1>2, <1>3, <1>4 DEF k, l

(* What is seen through a linked table depends on that table and on the    *)
(* frames of the stacks.                                                   *)
LEMMA SeenKept ==
  ASSUME PagingInv, Limit = UserStart, NEW m1, NEW d \in Dirs, NEW p \in StackPages,
         p \div PagesInTable \in Linked[d],
         m1[d][p \div PagesInTable] = mem[d][p \div PagesInTable],
         \A t \in paging_pool : t \notin Dirs /\ t # Filling.t => m1[t] = mem[t],
         \A f \in StackPages \cup user_space_pool : m1[f] = mem[f]
  PROVE  Seen(m1, d, p) = Seen(mem, d, p)
<1> DEFINE k == p \div PagesInTable
           l == p % PagesInTable
           t == mem[d][k].frame
<1>1. k \in Indices /\ l \in Indices /\ PageAt(k, l) = p /\ p < UserStart
  BY StackPlace
<1>2. Shape(mem, paging_pool, user_space_pool, Dirs, Linked, Filling, Limit) /\ d \in Frames
      /\ mem \in MemType
  BY ShapeTypes
<1>3. Seen(m1, d, p) = m1[m1[t][l].frame] /\ Seen(mem, d, p) = mem[mem[t][l].frame]
  BY DEF Seen
<1>4. k \in Linked[d]
  OBVIOUS
<1> HIDE DEF k, l
<1>5. t \in Frames
  BY <1>1, <1>2, StoreTypes
<1>6. IsTable(mem, Dirs, Linked, Filling, t, k)
  BY <1>4 DEF IsTable
<1>7. t \in paging_pool /\ t \notin Dirs
  BY <1>1, <1>2, <1>5, <1>6 DEF Shape, FoldersGood
<1>8. t # nullptr /\ t # Filling.t
  BY <1>1, <1>2, <1>4, <1>7, ShapeTypes DEF Shape, TablesPrivate
<1>9. Filled(Filling, Limit, t, k, l)
  BY <1>1, <1>8 DEF Filled
<1> HIDE DEF t
<1>10. EntryGood(mem[t][l], p, user_space_pool)
  BY <1>1, <1>2, <1>5, <1>6, <1>9 DEF Shape, EntriesGood
<1>11. mem[t][l].frame \in StackPages \cup user_space_pool
  BY <1>10 DEF EntryGood
<1>12. m1[t] = mem[t]
  BY <1>7, <1>8
<1> QED BY <1>3, <1>11, <1>12

(* What a step of clone_directory leaves alone. *)
Quiet(m1) ==
  /\ \A t \in paging_pool : t \notin Dirs /\ t # Filling.t => m1[t] = mem[t]
  /\ \A f \in StackPages \cup user_space_pool : m1[f] = mem[f]
  /\ \A d \in Dirs : \A k \in Linked[d] : m1[d][k] = mem[d][k]

(* A folder just allocated is none of those. *)
LEMMA QuietFolder ==
  ASSUME PagingInv, allocate_page_folder # nullptr
  PROVE  Quiet([mem EXCEPT ![allocate_page_folder] = Cleared])
<1> DEFINE t0 == allocate_page_folder
           m1 == [mem EXCEPT ![t0] = Cleared]
<1>1. t0 \in PoolStart .. PoolEnd - 1 /\ t0 \notin paging_pool
  BY Allocated
<1>2. \A t \in Frames : t # t0 => m1[t] = mem[t]
  BY ShapeTypes DEF MemType
<1>3. \A t \in paging_pool : t # t0 /\ t \in Frames
  BY <1>1, ShapeTypes
<1>4. \A f \in StackPages \cup user_space_pool : f # t0 /\ f \in Frames
  <2>1. \A f \in StackPages : f # t0
    BY <1>1, Sizes
  <2>2. \A f \in user_space_pool : f # t0 /\ f \in Frames
    BY <1>1, Sizes DEF PagingInv, TypeOK, Frames
  <2> QED BY <2>1, <2>2, StackIsMapped
<1>5. \A d \in Dirs : d \in paging_pool
  BY ShapeTypes
<1> HIDE DEF t0, m1
<1>6. Quiet(m1)
  BY <1>2, <1>3, <1>4, <1>5 DEF Quiet
<1> QED BY <1>6 DEF m1, t0

(* Nor is an entry of the directory that is being filled. *)
LEMMA QuietLink ==
  ASSUME PagingInv, Cloning, i \in Indices, NEW e
  PROVE  Quiet([mem EXCEPT ![dir][i] = e])
<1> DEFINE m1 == [mem EXCEPT ![dir][i] = e]
<1>1. dir \in Dirs /\ dir \in paging_pool /\ dir \in Frames
      /\ Linked = [x \in Dirs |-> IF x = dir THEN {k \in UpTo(UserStart) : k < i}
                                 ELSE UpTo(UserStart)]
  BY CloningIs, ShapeTypes
<1>2. \A t \in Frames : t # dir => m1[t] = mem[t]
  BY ShapeTypes DEF MemType
<1>3. \A k \in Indices : k # i => m1[dir][k] = mem[dir][k]
  BY <1>1, ShapeTypes DEF MemType
<1>4. \A f \in StackPages \cup user_space_pool : f # dir /\ f \in Frames
  <2>1. \A f \in user_space_pool : f \in Frames
    BY Sizes DEF PagingInv, TypeOK, Frames
  <2> QED BY <1>1, <2>1, NoFolder, StackIsMapped
<1>5. \A k \in Linked[dir] : k \in Indices /\ k # i
  BY <1>1, Sizes DEF UpTo, Indices
<1> HIDE DEF m1
<1>6. Quiet(m1)
  BY <1>1, <1>2, <1>3, <1>4, <1>5, ShapeTypes DEF Quiet
<1> QED BY <1>6 DEF m1

(* clone_directory works on folders and frames that nobody uses. *)
LEMMA QuietSteps ==
  ASSUME PagingInv, PoolsSuffice, CloneDirectory \/ Clone
  PROVE  Quiet(mem')
<1>1. CASE CloneDirectory
  <2>1. allocate_page_folder # nullptr
    BY <1>1 DEF PoolsSuffice, CloneDirectory
  <2>2. mem' = [mem EXCEPT ![allocate_page_folder] = Cleared]
    BY <1>1, <2>1 DEF CloneDirectory, WithFolder
  <2> QED BY <2>1, <2>2, QuietFolder
<1>2. CASE SkipTable \/ FinishClone
  <2>1. mem' = mem
    BY <1>2 DEF SkipTable, FinishClone
  <2> QED BY <2>1 DEF Quiet
<1>3. CASE ShareTable
  <2>1. i \in Indices /\ Cloning
    BY <1>3, Sizes DEF ShareTable, InDirectory, PagingInv, TypeOK, Indices, Cloning
  <2>2. mem' = [mem EXCEPT ![dir][i] = Src]
    BY <1>3 DEF ShareTable
  <2> QED BY <2>1, <2>2, QuietLink
<1>4. CASE CloneTable
  <2>1. allocate_page_folder # nullptr
    BY <1>4 DEF PoolsSuffice, CloneTable
  <2>2. mem' = [mem EXCEPT ![allocate_page_folder] = Cleared]
    BY <1>4, <2>1 DEF CloneTable, WithFolder
  <2> QED BY <2>1, <2>2, QuietFolder
<1>5. CASE SharePage
  <2>1. pc = "page" /\ j \in Indices
    BY <1>5, PageIs DEF SharePage
  <2>2. Filling.t = table /\ table \in Frames /\ table \in paging_pool /\ table \notin Dirs
    BY <2>1, FillingIs
  <2>3. \A t \in Frames : t # table => mem'[t] = mem[t]
    BY <1>5, ShapeTypes DEF SharePage, MemType
  <2>4. \A f \in StackPages \cup user_space_pool : f # table /\ f \in Frames
    <3>1. \A f \in user_space_pool : f \in Frames
      BY Sizes DEF PagingInv, TypeOK, Frames
    <3> QED BY <2>2, <3>1, NoFolder, StackIsMapped
  <2> QED BY <2>2, <2>3, <2>4, ShapeTypes DEF Quiet
<1>6. CASE CopyPage
  <2> DEFINE f0 == allocate_frame
  <2>1. pc = "page" /\ j \in Indices
    BY <1>6, PageIs DEF CopyPage
  <2>2. Filling.t = table /\ table \in Frames /\ table \in paging_pool /\ table \notin Dirs
    BY <2>1, FillingIs
  <2>3. /\ \A t \in Frames : t # table /\ t # f0 => mem'[t] = mem[t]
        /\ f0 \notin StackPages /\ f0 \notin user_space_pool /\ f0 \notin paging_pool
    BY <1>6, CopyPageIs
  <2>4. \A f \in StackPages \cup user_space_pool : f # table /\ f # f0 /\ f \in Frames
    <3>1. \A f \in user_space_pool : f \in Frames
      BY Sizes DEF PagingInv, TypeOK, Frames
    <3> QED BY <2>2, <2>3, <3>1, NoFolder, StackIsMapped
  <2> HIDE DEF f0
  <2> QED BY <2>2, <2>3, <2>4, ShapeTypes DEF Quiet
<1>7. CASE LinkTable
  <2>1. i \in Indices /\ Cloning
    BY <1>7, FillingIs DEF LinkTable
  <2>2. mem' = [mem EXCEPT ![dir][i] = [Src EXCEPT !.frame = table]]
    BY <1>7 DEF LinkTable
  <2> QED BY <2>1, <2>2, QuietLink
<1> QED BY <1>1, <1>2, <1>3, <1>4, <1>5, <1>6, <1>7 DEF Clone

(* So what a directory maps stays as it is, in every complete directory    *)
(* and in the part of the new one that is linked.                          *)
LEMMA QuietSeen ==
  ASSUME PagingInv, NEW m1, Quiet(m1), Limit = UserStart
  PROVE  /\ \A d \in Dirs, p \in StackPages : p \div PagesInTable \in Linked[d] =>
              Seen(m1, d, p) = Seen(mem, d, p)
         /\ \A d \in built, p \in StackPages : Seen(m1, d, p) = Seen(mem, d, p)
<1>1. \A d \in Dirs, p \in StackPages : p \div PagesInTable \in Linked[d] =>
        Seen(m1, d, p) = Seen(mem, d, p)
  BY SeenKept DEF Quiet
<1>2. \A d \in built, p \in StackPages : d \in Dirs /\ p \div PagesInTable \in Linked[d]
  BY BuiltIs, StackPlace
<1> QED BY <1>1, <1>2

(* Entries of the new table refer to frames of the stacks. *)
LEMMA FillingEntry ==
  ASSUME PagingInv, pc = "page", NEW p \in StackPages,
         p \div PagesInTable = i, p % PagesInTable < j
  PROVE  mem[table][p % PagesInTable].frame \in StackPages \cup user_space_pool
<1> DEFINE l == p % PagesInTable
<1>1. l \in Indices /\ PageAt(i, l) = p /\ p < UserStart /\ i \in Indices
  BY StackPlace
<1>2. Filling = [t |-> table, k |-> i, n |-> j] /\ Cloning /\ table \in Frames /\ table # nullptr
  BY FillingIs
<1>3. Filling.t = table /\ Filling.k = i /\ Filling.n = j
  BY <1>2
<1>4. Limit = UserStart
  BY <1>2, CloningIs
<1>5. l < j
  OBVIOUS
<1> HIDE DEF l
<1>6. IsTable(mem, Dirs, Linked, Filling, table, i) /\ Filled(Filling, Limit, table, i, l)
  BY <1>1, <1>2, <1>3, <1>4, <1>5 DEF IsTable, Filled
<1>7. EntryGood(mem[table][l], PageAt(i, l), user_space_pool)
  BY <1>1, <1>2, <1>6, ShapeTypes DEF Shape, EntriesGood
<1> QED BY <1>1, <1>7 DEF EntryGood, l

(* The steps of clone_directory that change neither a table's pages nor    *)
(* the links of the new directory that matter.                             *)
LEMMA ContentsLinks ==
  ASSUME PagingInv, ContentsInv, PoolsSuffice,
         CloneDirectory \/ SkipTable \/ ShareTable \/ CloneTable \/ FinishClone
  PROVE  ContentsInv'
<1>1. CASE CloneDirectory
  <2>1. pc' = "entry" /\ i' = 0
    BY <1>1 DEF CloneDirectory
  <2>2. \A p \in StackPages : ~(p \div PagesInTable < 0)
    BY StackPlace
  <2> QED BY <2>1, <2>2 DEF ContentsInv
<1>2. CASE FinishClone
  <2>1. pc' = "run"
    BY <1>2 DEF FinishClone
  <2> QED BY <2>1 DEF ContentsInv, Cloning
<1>3. CASE SkipTable \/ ShareTable \/ CloneTable
  <2>1. /\ pc = "entry" /\ Cloning /\ i < PagesInTable /\ pc' \in {"entry", "page"}
        /\ UNCHANGED <<current_directory, dir, built>>
        /\ pc' = "page" => j' = 0 /\ i' = i
        /\ pc' = "entry" => i' = i + 1 /\ ~(Src.present /\ MustClone(Src))
    BY <1>3 DEF SkipTable, ShareTable, CloneTable, InDirectory, Cloning
  <2>2. i \in Indices /\ i \in Nat
    BY <2>1, Sizes DEF PagingInv, TypeOK, Indices
  <2>3. /\ current_directory \in built /\ dir \in Dirs /\ Limit = UserStart
        /\ Linked = [x \in Dirs |-> IF x = dir THEN {k \in UpTo(UserStart) : k < i}
                                   ELSE UpTo(UserStart)]
    BY <2>1, CloningIs
  <2>4. Quiet(mem')
    BY <1>3, QuietSteps DEF Clone
  <2>5. \A p \in StackPages : p \div PagesInTable < i =>
          Seen(mem', dir, p) = Seen(mem', current_directory, p)
    <3> DEFINE m1 == mem'
    <3> HIDE DEF m1
    <3>1. Quiet(m1)
      BY <2>4 DEF m1
    <3>2. \A p \in StackPages : Seen(m1, current_directory, p) = Seen(mem, current_directory, p)
      BY <2>3, <3>1, QuietSeen
    <3>3. \A p \in StackPages : p \div PagesInTable < i => Seen(m1, dir, p) = Seen(mem, dir, p)
      BY <2>3, <3>1, QuietSeen, StackPlace
    <3>4. \A p \in StackPages : p \div PagesInTable < i =>
            Seen(m1, dir, p) = Seen(m1, current_directory, p)
      BY <2>1, <3>2, <3>3 DEF ContentsInv
    <3> QED BY <3>4 DEF m1
  <2>6. CASE pc' = "entry"
    <3>1. i \notin StackTables
      BY <2>1, <2>2, <2>6, SrcIs, StackIsMapped DEF MustClone
    <3>2. \A p \in StackPages : p \div PagesInTable < i + 1 => p \div PagesInTable < i
      BY <2>2, <3>1, StackPlace
    <3> QED BY <2>1, <2>5, <2>6, <3>2 DEF ContentsInv
  <2>7. CASE pc' = "page"
    <3>1. \A p \in StackPages : ~(p % PagesInTable < 0)
      BY StackPlace
    <3> QED BY <2>1, <2>5, <2>7, <3>1 DEF ContentsInv
  <2> QED BY <2>1, <2>6, <2>7
<1> QED BY <1>1, <1>2, <1>3

(* The steps that fill a table and link it. *)
LEMMA ContentsPages ==
  ASSUME PagingInv, ContentsInv, PoolsSuffice, SharePage \/ CopyPage \/ LinkTable
  PROVE  ContentsInv'
<1> DEFINE c == current_directory
           m1 == mem'
           k(p) == p \div PagesInTable
           l(p) == p % PagesInTable
<1>1. /\ pc = "page" /\ Cloning /\ pc' \in {"entry", "page"}
      /\ UNCHANGED <<current_directory, dir, table, built>>
      /\ pc' = "page" => InTable /\ j' = j + 1 /\ i' = i
      /\ pc' = "entry" => i' = i + 1 /\ j = PagesInTable
  BY DEF SharePage, CopyPage, LinkTable, InTable, Cloning
<1>2. /\ i \in Indices /\ i \in Nat /\ j \in Nat /\ table \in Frames /\ table \in paging_pool
      /\ table \notin Dirs
  BY <1>1, FillingIs, Sizes DEF PagingInv, TypeOK, Indices
<1>3. /\ c \in built /\ dir \in Dirs /\ Limit = UserStart /\ dir \in Frames
      /\ Linked = [x \in Dirs |-> IF x = dir THEN {n \in UpTo(UserStart) : n < i}
                                 ELSE UpTo(UserStart)]
  BY <1>1, CloningIs, ShapeTypes
<1>4. Quiet(m1)
  BY QuietSteps DEF Clone
<1>5. /\ \A p \in StackPages : Seen(m1, c, p) = Seen(mem, c, p)
      /\ \A p \in StackPages : k(p) < i => Seen(m1, dir, p) = Seen(mem, dir, p)
      /\ \A f \in StackPages \cup user_space_pool : m1[f] = mem[f]
  <2> HIDE DEF m1
  <2>1. \A p \in StackPages : Seen(m1, c, p) = Seen(mem, c, p)
    BY <1>3, <1>4, QuietSeen
  <2>2. \A p \in StackPages : k(p) < i => Seen(m1, dir, p) = Seen(mem, dir, p)
    BY <1>3, <1>4, QuietSeen, StackPlace
  <2> QED BY <1>4, <2>1, <2>2 DEF Quiet
<1>6. /\ \A p \in StackPages : k(p) < i => Seen(mem, dir, p) = Seen(mem, c, p)
      /\ \A p \in StackPages : k(p) = i /\ l(p) < j =>
           mem[mem[table][l(p)].frame] = Seen(mem, c, p)
  BY <1>1 DEF ContentsInv
<1>7. \A p \in StackPages : k(p) < i => Seen(m1, dir, p) = Seen(m1, c, p)
  <2> HIDE DEF m1, k
  <2> QED BY <1>5, <1>6
<1>8. ASSUME NEW p \in StackPages, k(p) = i, l(p) < j, m1[table][l(p)] = mem[table][l(p)]
      PROVE  m1[m1[table][l(p)].frame] = Seen(m1, c, p)
  <2>1. mem[table][l(p)].frame \in StackPages \cup user_space_pool
    BY <1>1, <1>8, FillingEntry
  <2> HIDE DEF m1, k, l
  <2> QED BY <1>5, <1>6, <1>8, <2>1
<1>9. CASE LinkTable
  <2>1. m1 = [mem EXCEPT ![dir][i] = [Src EXCEPT !.frame = table]] /\ j = PagesInTable
        /\ pc' = "entry" /\ i' = i + 1
    BY <1>9 DEF LinkTable
  <2>2. Src \in PagePointer
    BY <1>1, <1>2, SrcIs
  <2>3. m1[dir][i].frame = table
    <3>1. [Src EXCEPT !.frame = table].frame = table
      BY <2>2 DEF PagePointer
    <3>2. m1[dir][i] = [Src EXCEPT !.frame = table]
      BY <1>2, <1>3, <2>1, ShapeTypes DEF MemType
    <3> QED BY <3>1, <3>2
  <2>4. m1[table] = mem[table]
    BY <1>2, <1>3, <2>1, ShapeTypes DEF MemType
  <2>5. ASSUME NEW p \in StackPages, k(p) = i PROVE Seen(m1, dir, p) = Seen(m1, c, p)
    <3>1. Seen(m1, dir, p) = m1[m1[m1[dir][k(p)].frame][l(p)].frame]
      BY DEF Seen
    <3>2. l(p) < j
      BY <2>1, StackPlace
    <3>3. m1[m1[table][l(p)].frame] = Seen(m1, c, p)
      BY <1>8, <2>4, <2>5, <3>2
    <3> QED BY <2>3, <2>5, <3>1, <3>3
  <2>6. \A p \in StackPages : k(p) < i + 1 => k(p) < i \/ k(p) = i
    BY <1>2, StackPlace
  <2>7. \A p \in StackPages : k(p) < i' => Seen(mem', dir', p) = Seen(mem', c', p)
    BY <1>1, <1>7, <2>1, <2>5, <2>6
  <2> QED BY <2>1, <2>7 DEF ContentsInv
<1>10. CASE SharePage \/ CopyPage
  <2>1. pc' = "page" /\ InTable /\ j' = j + 1 /\ i' = i
    BY <1>1, <1>10 DEF SharePage, CopyPage
  <2>2. j \in Indices
    BY <2>1, PageIs
  <2>3. \A n \in Indices : n # j => m1[table][n] = mem[table][n]
    <3>1. CASE SharePage
      BY <1>2, <2>2, <3>1, ShapeTypes DEF SharePage, MemType
    <3>2. CASE CopyPage
      BY <3>2, CopyPageIs
    <3> QED BY <1>10, <3>1, <3>2
  <2>4. ASSUME NEW p \in StackPages, k(p) = i, l(p) = j
        PROVE  m1[m1[table][j].frame] = Seen(m1, c, p)
    <3>1. PageAt(i, j) = p /\ p < UserStart
      BY <2>4, StackPlace
    <3>2. Page.present /\ Page.user
      BY <2>1, <2>4, <3>1, PageIs DEF EntryGood
    <3>3. CopyPage
      BY <1>10, <3>2 DEF SharePage
    <3>4. m1[table][j] = [Page EXCEPT !.frame = allocate_frame] /\ m1[allocate_frame] = mem[Page.frame]
      BY <3>3, CopyPageIs
    <3>5. m1[table][j].frame = allocate_frame
      <4>1. [Page EXCEPT !.frame = allocate_frame].frame = allocate_frame
        BY <2>1, PageIs DEF PagePointer
      <4> QED BY <3>4, <4>1
    <3>6. Seen(mem, c, p) = mem[Page.frame]
      BY <2>4 DEF Seen, Page, Src
    <3> QED BY <1>5, <3>4, <3>5, <3>6
  <2>5. ASSUME NEW p \in StackPages, k(p) = i, l(p) < j + 1
        PROVE  m1[m1[table][l(p)].frame] = Seen(m1, c, p)
    <3>1. l(p) \in Nat /\ l(p) \in Indices
      BY StackPlace
    <3>2. CASE l(p) = j
      BY <2>4, <2>5, <3>2
    <3>3. CASE l(p) < j
      <4>1. m1[table][l(p)] = mem[table][l(p)]
        BY <1>2, <2>3, <3>1, <3>3
      <4> QED BY <1>8, <2>5, <3>3, <4>1
    <3> QED BY <1>2, <2>5, <3>1, <3>2, <3>3
  <2>6. \A p \in StackPages : k(p) < i' => Seen(mem', dir', p) = Seen(mem', c', p)
    BY <1>1, <1>7, <2>1
  <2>7. \A p \in StackPages : k(p) = i' /\ l(p) < j' =>
          mem'[mem'[table'][l(p)].frame] = Seen(mem', c', p)
    BY <1>1, <2>1, <2>5
  <2> QED BY <2>1, <2>6, <2>7 DEF ContentsInv
<1> QED BY <1>9, <1>10

(* initialise_paging writes to folders only. *)
LEMMA ContentsBoot ==
  ASSUME PagingInv, ContentsInv, PoolsSuffice, Boot
  PROVE  ContentsInv'
<1>0. \A f \in PoolStart .. PoolEnd - 1 : f \notin StackPages
  BY Sizes
<1>1. CASE MakeKernelDirectory
  <2>1. pc = "boot" /\ pc' = "map"
    BY <1>1 DEF MakeKernelDirectory
  <2>2. allocate_page_folder # nullptr /\ allocate_page_folder \notin StackPages
    BY <1>0, <2>1, Allocated DEF PoolsSuffice
  <2>3. mem' = [mem EXCEPT ![allocate_page_folder] = Cleared]
    BY <1>1, <2>2 DEF MakeKernelDirectory, WithFolder
  <2>4. \A p \in StackPages : mem'[p] = Cleared
    BY <2>1, <2>2, <2>3, ShapeTypes, StackIsMapped DEF ContentsInv, MemType
  <2> QED BY <2>1, <2>4 DEF ContentsInv, Cloning
<1>2. CASE MapPage
  <2> DEFINE k0 == i \div PagesInTable
             d == kernel_directory
             has == TableOf(mem, d, i) # nullptr
             t0 == IF has THEN TableOf(mem, d, i) ELSE allocate_page_folder
             m == IF has THEN mem
                  ELSE [WithFolder(mem, t0) EXCEPT ![d][k0] = create_page_entry(t0, TRUE, TRUE)]
             e == create_page_entry(i, i \notin StackPages, i \in StackPages)
  <2>1. pc = "map" /\ pc' = "map" /\ i < UserStart
    BY <1>2 DEF MapPage
  <2>2. i \in Frames /\ k0 \in Indices
    <3>1. i \in Frames
      BY <2>1, Sizes DEF PagingInv, TypeOK, Frames
    <3> QED BY <3>1, PlaceOfPage
  <2>3. d \in Dirs /\ Linked[d] = UpTo(i) /\ d \in Frames /\ mem \in MemType /\ d \in paging_pool
    <3>1. Dirs = {d} /\ Linked = [x \in {d} |-> UpTo(i)]
      BY <2>1 DEF Dirs, Linked, LinkedIn
    <3> QED BY <3>1, ShapeTypes
  <2>4. t0 \notin StackPages /\ t0 # nullptr /\ t0 \in Frames
    <3>1. CASE has
      <4>1. k0 \in Linked[d]
        BY <2>2, <2>3, <3>1, ShapeTypes DEF Shape, DirectoriesGood, TableOf
      <4>2. IsTable(mem, Dirs, Linked, Filling, t0, k0) /\ t0 \in Frames
        BY <2>2, <2>3, <3>1, <4>1, StoreTypes DEF IsTable, TableOf
      <4> HIDE DEF t0, k0
      <4>3. t0 \in paging_pool
        BY <2>2, <4>2, ShapeTypes DEF Shape, FoldersGood
      <4> QED BY <4>2, <4>3, NoFolder, ShapeTypes
    <3>2. CASE ~has
      BY <1>0, <2>1, <3>2, Allocated DEF PoolsSuffice
    <3> QED BY <3>1, <3>2
  <2>5. d \notin StackPages
    BY <2>3, NoFolder
  <2>6. mem' = [m EXCEPT ![t0][i % PagesInTable] = e]
    BY <1>2 DEF MapPage
  <2>7. m \in MemType /\ \A p \in StackPages : m[p] = mem[p]
    <3>1. CASE has
      BY <2>3, <3>1
    <3>2. CASE ~has
      <4> DEFINE w == [mem EXCEPT ![t0] = Cleared]
                 c == create_page_entry(t0, TRUE, TRUE)
      <4>1. m = [w EXCEPT ![d][k0] = c]
        BY <2>4, <3>2 DEF WithFolder
      <4> HIDE DEF t0, m, k0, d
      <4>2. w \in MemType /\ c \in PagePointer
        BY <2>3, <2>4, StoreTypes, EntryTypes
      <4>3. \A p \in StackPages : w[p] = mem[p]
        BY <2>3, <2>4, StackIsMapped DEF MemType
      <4> HIDE DEF w, c
      <4>4. [w EXCEPT ![d][k0] = c] \in MemType
        BY <2>2, <2>3, <4>2, StoreTypes
      <4>5. \A p \in StackPages : [w EXCEPT ![d][k0] = c][p] = w[p]
        BY <2>5, <4>2, StackIsMapped DEF MemType
      <4> QED BY <4>1, <4>3, <4>4, <4>5
    <3> QED BY <3>1, <3>2
  <2> HIDE DEF m, t0, e
  <2>8. \A p \in StackPages : mem'[p] = m[p]
    BY <2>4, <2>6, <2>7, StackIsMapped DEF MemType
  <2>9. \A p \in StackPages : mem'[p] = Cleared
    BY <2>1, <2>7, <2>8 DEF ContentsInv
  <2> QED BY <2>1, <2>9 DEF ContentsInv, Cloning
<1>3. CASE EnablePaging
  <2>1. pc' = "run"
    BY <1>3 DEF EnablePaging
  <2> QED BY <2>1 DEF ContentsInv, Cloning
<1> QED BY <1>1, <1>2, <1>3 DEF Boot

(* Every step keeps what the invariant says of contents. *)
LEMMA ContentsNext ==
  ASSUME PagingInv, ContentsInv, PoolsSuffice, [Next]_vars
  PROVE  ContentsInv'
<1>1. CASE UNCHANGED vars
  BY <1>1 DEF vars, ContentsInv, Cloning
<1>2. CASE WriteStack \/ SwitchDirectory
  <2>1. pc' = "run"
    BY <1>2 DEF WriteStack, SwitchDirectory
  <2> QED BY <2>1 DEF ContentsInv, Cloning
<1> QED BY <1>1, <1>2, ContentsBoot, ContentsLinks, ContentsPages DEF Next, Clone

(***************************************************************************)
(* The steps of AddressSpace                                               *)
(***************************************************************************)

(* The contents of the stacks, as the specification names them. *)
SpacesOf(m, b) == [d \in b |-> [p \in StackPages |-> Seen(m, d, p)]]

(* Translate finds what a task sees. *)
LEMMA SpacesAre ==
  [d \in built |-> [p \in StackPages |-> mem[Translate(d, p)]]] = SpacesOf(mem, built)
BY DEF SpacesOf, Seen, Translate, Entry, TableOf

(* The kernel's directory starts with empty pages. *)
LEMMA StartImplements ==
  ASSUME PagingInv, ContentsInv, EnablePaging
  PROVE  /\ built = {}
         /\ \E c \in [StackPages -> {PageOf(v) : v \in Values \cup {0}}] :
              SpacesOf(mem', built') = [x \in {kernel_directory} |-> c]
<1> DEFINE d == kernel_directory
<1>1. pc = "map" /\ i = UserStart /\ built' = {d} /\ mem' = mem /\ built = {}
  BY DEF EnablePaging, PagingInv, Control
<1>2. Dirs = {d} /\ Linked = [x \in {d} |-> UpTo(UserStart)] /\ Identity(mem, Linked, d, UserStart)
  BY <1>1 DEF Dirs, Linked, LinkedIn, PagingInv, Control
<1>3. Linked[d] = UpTo(UserStart)
  BY <1>2
<1>4. ASSUME NEW p \in StackPages PROVE Seen(mem, d, p) = Cleared
  <2> DEFINE k == p \div PagesInTable
             l == p % PagesInTable
  <2>1. k \in Linked[d] /\ l \in Indices /\ PageAt(k, l) = p /\ p < UserStart
    BY <1>3, StackPlace
  <2>2. Seen(mem, d, p) = mem[mem[mem[d][k].frame][l].frame]
    BY DEF Seen
  <2> HIDE DEF k, l
  <2>3. mem[mem[d][k].frame][l].frame = p
    BY <1>2, <2>1 DEF Identity
  <2> QED BY <1>1, <2>2, <2>3 DEF ContentsInv
<1>5. PageOf(0) = Cleared
  BY DEF PageOf, Cleared, Zero
<1> DEFINE C == {PageOf(v) : v \in Values \cup {0}}
           c == [p \in StackPages |-> Seen(mem, d, p)]
<1>6. Cleared \in C
  BY <1>5
<1>7. c \in [StackPages -> C]
  <2> HIDE DEF C
  <2> QED BY <1>4, <1>6
<1>8. SpacesOf(mem', built') = [x \in {d} |-> c]
  BY <1>1 DEF SpacesOf
<1> QED BY <1>1, <1>7, <1>8

(* A task writes to one of its own pages and to nobody else's. *)
LEMMA WriteImplements ==
  ASSUME PagingInv, WriteStack
  PROVE  \E p \in StackPages, v \in Values :
           /\ current_directory \in built
           /\ SpacesOf(mem', built') =
                [SpacesOf(mem, built) EXCEPT ![current_directory][p] = PageOf(v)]
<1> DEFINE c == current_directory
<1>1. PICK p \in StackPages, v \in Values : mem' = [mem EXCEPT ![Translate(c, p)] = PageOf(v)]
  BY DEF WriteStack
<1>2. c \in built /\ built' = built
  BY DEF WriteStack, PagingInv, Control
<1> DEFINE f == Translate(c, p)
<1>3. \A q \in StackPages : q \in 0 .. UserStart - 1
  BY StackIsMapped, Sizes DEF Frames
<1>4. f \in Frames /\ f \in StackPages \cup user_space_pool /\ f \notin paging_pool
  BY <1>2, StackFrame, Zenon
<1>5. mem'[f] = PageOf(v) /\ \A g \in Frames : g # f => mem'[g] = mem[g]
  <2>1. mem' = [mem EXCEPT ![f] = PageOf(v)]
    BY <1>1, Zenon
  <2> HIDE DEF f
  <2> QED BY <1>4, <2>1, ShapeTypes DEF MemType
<1>6. ASSUME NEW d \in built, NEW q \in StackPages
      PROVE  Seen(mem', d, q) = IF d = c /\ q = p THEN PageOf(v) ELSE Seen(mem, d, q)
  <2> DEFINE k == q \div PagesInTable
             l == q % PagesInTable
             t == mem[d][k].frame
  <2>1. t \in paging_pool /\ t \in Frames /\ Translate(d, q) = mem[t][l].frame /\ Translate(d, q) \in Frames
    BY <1>3, MappedIs
  <2>2. d \in paging_pool /\ d \in Frames
    BY BuiltIs, ShapeTypes
  <2>3. mem'[d] = mem[d] /\ mem'[t] = mem[t]
    BY <1>4, <1>5, <2>1, <2>2
  <2>4. Seen(mem', d, q) = mem'[Translate(d, q)] /\ Seen(mem, d, q) = mem[Translate(d, q)]
    BY <2>1, <2>3 DEF Seen
  <2>5. Translate(d, q) = f <=> d = c /\ q = p
    BY <1>2, StacksApart
  <2> QED BY <1>5, <2>1, <2>4, <2>5
<1>7. SpacesOf(mem', built') = [SpacesOf(mem, built) EXCEPT ![c][p] = PageOf(v)]
  <2> DEFINE R == [SpacesOf(mem, built) EXCEPT ![c][p] = PageOf(v)]
             m1 == mem'
  <2>1. R = [d \in built |-> [q \in StackPages |->
               IF d = c /\ q = p THEN PageOf(v) ELSE Seen(mem, d, q)]]
    BY <1>2 DEF SpacesOf
  <2>2. SpacesOf(m1, built) = [d \in built |-> [q \in StackPages |-> Seen(m1, d, q)]]
    BY DEF SpacesOf
  <2>3. \A d \in built : [q \in StackPages |-> Seen(m1, d, q)] =
          [q \in StackPages |-> IF d = c /\ q = p THEN PageOf(v) ELSE Seen(mem, d, q)]
    BY <1>6
  <2> HIDE DEF R, m1
  <2>4. SpacesOf(m1, built) = R
    BY <2>1, <2>2, <2>3
  <2> QED BY <1>2, <2>4 DEF R, m1
<1> QED BY <1>2, <1>7

(* A clone starts with what its parent has. *)
LEMMA CloneImplements ==
  ASSUME PagingInv, ContentsInv, FinishClone
  PROVE  /\ current_directory \in built /\ dir \notin built /\ dir \in Frames
         /\ SpacesOf(mem', built') =
              [x \in built \cup {dir} |-> IF x = dir THEN SpacesOf(mem, built)[current_directory]
                                         ELSE SpacesOf(mem, built)[x]]
<1>1. pc = "entry" /\ i = PagesInTable /\ built' = built \cup {dir} /\ mem' = mem /\ Cloning
  BY DEF FinishClone, Cloning
<1>2. current_directory \in built /\ dir \notin built /\ dir \in Frames
  BY <1>1, CloningIs, ShapeTypes
<1>3. \A p \in StackPages : Seen(mem, dir, p) = Seen(mem, current_directory, p)
  BY <1>1, StackPlace DEF ContentsInv
<1>4. SpacesOf(mem, built)[current_directory] = [p \in StackPages |-> Seen(mem, dir, p)]
  BY <1>2, <1>3 DEF SpacesOf
<1>5. SpacesOf(mem, built \cup {dir}) =
        [x \in built \cup {dir} |-> IF x = dir THEN SpacesOf(mem, built)[current_directory]
                                   ELSE SpacesOf(mem, built)[x]]
  <2>1. \A x \in built : SpacesOf(mem, built)[x] = [p \in StackPages |-> Seen(mem, x, p)]
    BY DEF SpacesOf
  <2>2. SpacesOf(mem, built \cup {dir}) =
          [x \in built \cup {dir} |-> [p \in StackPages |-> Seen(mem, x, p)]]
    BY DEF SpacesOf
  <2> QED BY <1>2, <1>4, <2>1, <2>2
<1> QED BY <1>1, <1>2, <1>5

(* The tasks' pages, as the refinement mapping writes them. *)
Mapped == [d \in built |-> [p \in StackPages |-> mem[Translate(d, p)]]]

(* A step that is neither a start, a write nor the end of a clone shows no *)
(* task anything.                                                          *)
LEMMA StutterImplements ==
  ASSUME PagingInv, PoolsSuffice, [Next]_vars, ~EnablePaging, ~WriteStack, ~FinishClone
  PROVE  SpacesOf(mem', built') = SpacesOf(mem, built)
<1>1. CASE UNCHANGED vars
  <2>1. mem' = mem /\ built' = built
    BY <1>1 DEF vars
  <2> QED BY <2>1
<1>2. CASE MakeKernelDirectory \/ MapPage
  <2>1. built' = built /\ built = {}
    BY <1>2 DEF MakeKernelDirectory, MapPage, PagingInv, Control
  <2> QED BY <2>1 DEF SpacesOf
<1>3. CASE SwitchDirectory
  <2>1. mem' = mem /\ built' = built
    BY <1>3 DEF SwitchDirectory
  <2> QED BY <2>1
<1>4. CASE CloneDirectory \/ (Clone /\ ~FinishClone)
  <2> DEFINE m1 == mem'
  <2>1. built' = built /\ pc \notin {"boot", "map"}
    BY <1>4 DEF CloneDirectory, Clone, SkipTable, ShareTable, CloneTable, SharePage, CopyPage,
                LinkTable, InDirectory, InTable
  <2>2. Quiet(m1)
    BY <1>4, QuietSteps
  <2>3. Limit = UserStart
    BY <2>1 DEF Limit
  <2> HIDE DEF m1
  <2>4. \A d \in built, p \in StackPages : Seen(m1, d, p) = Seen(mem, d, p)
    BY <2>2, <2>3, QuietSeen
  <2>5. SpacesOf(m1, built) = SpacesOf(mem, built)
    <3>1. \A d \in built : [p \in StackPages |-> Seen(m1, d, p)] =
            [p \in StackPages |-> Seen(mem, d, p)]
      BY <2>4
    <3> QED BY <3>1 DEF SpacesOf
  <2> QED BY <2>1, <2>5 DEF m1
<1> QED BY <1>1, <1>2, <1>3, <1>4 DEF Next, Boot

(* Every step is a step of AddressSpace or none. *)
LEMMA StepImplementsSpaces ==
  ASSUME PagingInv, ContentsInv, PoolsSuffice, [Next]_vars
  PROVE  [Spaces!Next]_Mapped
<1>1. Mapped = SpacesOf(mem, built)
  BY SpacesAre DEF Mapped
<1>2. Mapped' = SpacesOf(mem', built')
  BY DEF Mapped, SpacesOf, Seen, Translate, Entry, TableOf
<1>3. DOMAIN Mapped = built
  BY DEF Mapped
<1>4. CASE EnablePaging
  <2>1. PICK c \in [StackPages -> {PageOf(v) : v \in Values \cup {0}}] :
          built = {} /\ Mapped' = [x \in {kernel_directory} |-> c]
    BY <1>2, <1>4, StartImplements
  <2>2. kernel_directory \in Frames
    BY DEF PagingInv, TypeOK
  <2>3. Spaces!Start
    BY <1>3, <2>1, <2>2 DEF Spaces!Start, Mapped
  <2> QED BY <2>3 DEF Spaces!Next
<1>5. CASE WriteStack
  <2>1. PICK p \in StackPages, v \in Values :
          /\ current_directory \in built
          /\ Mapped' = [Mapped EXCEPT ![current_directory][p] = PageOf(v)]
    BY <1>1, <1>2, <1>5, WriteImplements
  <2>2. PageOf(v) \in {PageOf(w) : w \in Values \cup {0}}
    OBVIOUS
  <2>3. \E d \in DOMAIN Mapped, q \in StackPages, w \in {PageOf(x) : x \in Values \cup {0}} :
          Mapped' = [Mapped EXCEPT ![d][q] = w]
    BY <1>3, <2>1, <2>2
  <2>4. Spaces!Write
    BY <2>3, Zenon DEF Spaces!Write, Mapped
  <2> QED BY <2>4 DEF Spaces!Next
<1>6. CASE FinishClone
  <2>1. /\ current_directory \in built /\ dir \notin built /\ dir \in Frames
        /\ Mapped' = [x \in built \cup {dir} |-> IF x = dir THEN Mapped[current_directory]
                                                ELSE Mapped[x]]
    BY <1>1, <1>2, <1>6, CloneImplements
  <2>2. Spaces!Clone
    BY <1>3, <2>1 DEF Spaces!Clone, Mapped
  <2> QED BY <2>2 DEF Spaces!Next
<1>7. CASE ~EnablePaging /\ ~WriteStack /\ ~FinishClone
  BY <1>1, <1>2, <1>7, StutterImplements
<1> QED BY <1>4, <1>5, <1>6, <1>7

(* As long as no allocation finds its pool used up, the two bitmaps, the   *)
(* directories and the tables behave as AddressSpace says: every task has  *)
(* a stack of its own, which starts as a copy of its parent's at the end   *)
(* of the fork and changes when the task itself writes to it.              *)
THEOREM PagingImplementsAddressSpace ==
  Spec /\ []PoolsSuffice => ImplementsAddressSpace
<1>1. Init => ContentsInv /\ Spaces!Init
  <2> SUFFICES ASSUME Init PROVE ContentsInv /\ Spaces!Init
    OBVIOUS
  <2>1. ContentsInv
    BY StackIsMapped DEF Init, ContentsInv, Cloning
  <2>2. Spaces!Init
    BY DEF Init, Spaces!Init
  <2> QED BY <2>1, <2>2
<1>2. PagingInv /\ ContentsInv /\ PoolsSuffice /\ [Next]_vars => ContentsInv'
  BY ContentsNext
<1>3. PagingInv /\ ContentsInv /\ PoolsSuffice /\ [Next]_vars => [Spaces!Next]_Mapped
  BY StepImplementsSpaces
<1> QED BY <1>1, <1>2, <1>3, PagingInvariance, PTL
        DEF Spec, ImplementsAddressSpace, Spaces!Spec, Mapped

(***************************************************************************)
(* The pools suffice                                                       *)
(***************************************************************************)

(* Everything that is counted is finite. *)
LEMMA Countable ==
  /\ \A S \in SUBSET Frames : IsFiniteSet(S) /\ Cardinality(S) \in Nat
  /\ \A S \in SUBSET Indices : IsFiniteSet(S) /\ Cardinality(S) \in Nat
<1>1. IsFiniteSet(Frames) /\ IsFiniteSet(Indices)
  BY Sizes, FS_Interval DEF Frames, Indices
<1> QED BY <1>1, FS_Subset, FS_CardinalityType

(* The amounts a directory takes are numbers. *)
LEMMA Amounts ==
  /\ StackPages \subseteq Frames /\ StackTables \subseteq Indices
  /\ \A n : UpTo(n) \subseteq Indices /\ TablesBefore(n) \subseteq StackTables
  /\ \A n, l : PagesBefore(n, l) \subseteq StackPages
  /\ KernelFolders \in Nat /\ KernelFolders > 0 /\ CloneFolders \in Nat /\ CloneFolders > 0
  /\ Cardinality(StackPages) \in Nat /\ MaxClones \in Nat
<1>1. /\ StackPages \subseteq Frames /\ StackTables \subseteq Indices
      /\ \A n : UpTo(n) \subseteq Indices /\ TablesBefore(n) \subseteq StackTables
      /\ \A n, l : PagesBefore(n, l) \subseteq StackPages
  BY StackIsMapped DEF StackTables, UpTo, TablesBefore, PagesBefore
<1>2. Cardinality(StackPages) \in Nat /\ Cardinality(StackTables) \in Nat
      /\ Cardinality(UpTo(UserStart)) \in Nat
  BY <1>1, Countable
<1>3. MaxClones \in Nat
  BY PagingAssumption
<1> QED BY <1>1, <1>2, <1>3 DEF KernelFolders, CloneFolders

(* A bitmap with a clear bit yields a page. *)
LEMMA FreeIs ==
  ASSUME NEW from \in Nat, NEW to \in Nat, from > 0, NEW pool \in SUBSET (from .. to - 1),
         IsFiniteSet(pool), Cardinality(pool) < to - from
  PROVE  FirstFree(pool, from, to) # nullptr
<1> DEFINE free == (from .. to - 1) \ pool
           P(f) == f \in free /\ \A g \in free : f <= g
           x == CHOOSE f : P(f)
<1>1. free # {}
  <2> SUFFICES ASSUME free = {} PROVE FALSE
    OBVIOUS
  <2>1. pool = from .. to - 1
    OBVIOUS
  <2>2. Cardinality(from .. to - 1) = IF from > to - 1 THEN 0 ELSE (to - 1) - from + 1
    BY FS_Interval
  <2>3. Cardinality(pool) \in Nat
    BY FS_CardinalityType
  <2> QED BY <2>1, <2>2, <2>3
<1>2. free \in SUBSET Nat
  OBVIOUS
<1>3. \E f : P(f)
  <2> HIDE DEF free
  <2>1. PICK f \in free : \A g \in free : f <= g
    BY <1>1, <1>2, Least
  <2> QED BY <2>1
<1>4. P(x)
  <2> HIDE DEF P
  <2> QED BY <1>3
<1>5. FirstFree(pool, from, to) = x
  BY <1>1 DEF FirstFree
<1> HIDE DEF x
<1> QED BY <1>4, <1>5 DEF nullptr

(* A factor less is a summand less. *)
LEMMA TimesLess ==
  ASSUME NEW a \in Int, NEW b \in Int, NEW n \in Nat, a < b
  PROVE  a * n + n <= b * n /\ a * n \in Int /\ b * n \in Int /\ (a + 1) * n = a * n + n
<1>1. (a + 1) * n <= b * n
  BY Monotonic
<1>2. (a + 1) * n = a * n + n /\ a * n \in Int /\ b * n \in Int
  OBVIOUS
<1> QED BY <1>1, <1>2

(* One of a finite set is missing. *)
LEMMA OneMissing ==
  ASSUME NEW S, NEW T \in SUBSET S, IsFiniteSet(S), NEW x \in S, x \notin T
  PROVE  Cardinality(T) < Cardinality(S) /\ Cardinality(T) \in Nat /\ Cardinality(S) \in Nat
<1>1. Cardinality(T) <= Cardinality(S) /\ Cardinality(S) # Cardinality(T) /\ IsFiniteSet(T)
  BY FS_Subset
<1>2. Cardinality(T) \in Nat /\ Cardinality(S) \in Nat
  BY <1>1, FS_CardinalityType
<1> QED BY <1>1, <1>2

(* The page that is copied next has not been counted. *)
LEMMA NotYet ==
  ASSUME NEW k \in Indices, NEW l \in Indices, PageAt(k, l) \in StackPages
  PROVE  /\ PageAt(k, l) \notin PagesBefore(k, l)
         /\ PagesBefore(k, l + 1) = PagesBefore(k, l) \cup {PageAt(k, l)}
<1>1. PageAt(k, l) \div PagesInTable = k /\ PageAt(k, l) % PagesInTable = l
  BY PageAtIs
<1>2. k \in Nat /\ l \in Nat
  BY Sizes DEF Indices
<1>3. PageAt(k, l) \notin PagesBefore(k, l)
  BY <1>1, <1>2 DEF PagesBefore
<1>4. ASSUME NEW p \in StackPages
      PROVE  p \in PagesBefore(k, l + 1) <=> p \in PagesBefore(k, l) \/ p = PageAt(k, l)
  <2>1. p \div PagesInTable = k /\ p % PagesInTable = l => p = PageAt(k, l)
    BY StackPlace
  <2>2. p \div PagesInTable \in Nat /\ p % PagesInTable \in Nat
    BY StackPlace
  <2> QED BY <1>1, <1>2, <2>1, <2>2 DEF PagesBefore
<1>5. PagesBefore(k, l + 1) = PagesBefore(k, l) \cup {PageAt(k, l)}
  BY <1>4 DEF PagesBefore
<1> QED BY <1>3, <1>5

(* The counts and the sizes of the pools say that no allocation fails. *)
LEMMA CountSuffices ==
  ASSUME PagingInv, CountInv, Enough
  PROVE  PoolsSuffice
<1> DEFINE F == CloneFolders
           K == KernelFolders
           N == Cardinality(StackPages)
           C == Clones
<1>0. Cardinality(UpTo(UserStart)) + 1 = K /\ Cardinality(StackTables) + 1 = F
      /\ Cardinality(UpTo(UserStart)) \in Nat /\ Cardinality(StackTables) \in Nat
  BY Amounts, Countable DEF KernelFolders, CloneFolders
<1>1. /\ K \in Nat /\ K > 0 /\ F \in Nat /\ F > 0 /\ N \in Nat /\ MaxClones \in Nat
      /\ K + MaxClones * F <= PoolEnd - PoolStart /\ MaxClones * N <= UserEnd - UserStart
      /\ MaxClones * F \in Nat /\ MaxClones * N \in Nat
  BY Amounts DEF Enough
<1>2. /\ paging_pool \in SUBSET (PoolStart .. PoolEnd - 1)
      /\ user_space_pool \in SUBSET (UserStart .. UserEnd - 1)
      /\ IsFiniteSet(paging_pool) /\ IsFiniteSet(user_space_pool)
      /\ Cardinality(paging_pool) \in Nat /\ Cardinality(user_space_pool) \in Nat
  <2>1. /\ paging_pool \in SUBSET (PoolStart .. PoolEnd - 1)
        /\ user_space_pool \in SUBSET (UserStart .. UserEnd - 1)
    BY DEF PagingInv, TypeOK
  <2>2. paging_pool \in SUBSET Frames /\ user_space_pool \in SUBSET Frames
    BY <2>1, Sizes DEF Frames
  <2> QED BY <2>1, <2>2, Countable
<1>3. Cardinality(paging_pool) < PoolEnd - PoolStart => allocate_page_folder # nullptr
  BY <1>2, FreeIs, Sizes DEF allocate_page_folder
<1>4. Cardinality(user_space_pool) < UserEnd - UserStart => allocate_frame # nullptr
  BY <1>2, FreeIs, Sizes DEF allocate_frame
<1>5. ASSUME pc = "boot" PROVE Cardinality(paging_pool) < PoolEnd - PoolStart
  BY <1>5, Sizes DEF CountInv, FoldersUsed
<1>6. ASSUME pc = "map", i < UserStart, TableOf(mem, kernel_directory, i) = nullptr
      PROVE  Cardinality(paging_pool) < PoolEnd - PoolStart
  <2> DEFINE k0 == i \div PagesInTable
             d == kernel_directory
  <2>1. i \in Frames
    BY <1>6, Sizes DEF PagingInv, TypeOK, Frames
  <2>2. k0 \in Indices /\ UpTo(i + 1) = UpTo(i) \cup {k0}
    BY <2>1, PlaceOfPage, UpToNext
  <2>3. Dirs = {d} /\ Linked = [x \in {d} |-> UpTo(i)]
    BY <1>6 DEF Dirs, Linked, LinkedIn
  <2>4. k0 \notin UpTo(i)
    BY <1>6, <2>2, <2>3, ShapeTypes DEF Shape, DirectoriesGood, TableOf
  <2>5. i \in Nat /\ i + 1 <= UserStart
    BY <1>6, <2>1, Sizes DEF Frames
  <2>6. UpTo(i) \in SUBSET UpTo(UserStart) /\ k0 \in UpTo(UserStart)
    <3>1. \A k \in Indices : PageAt(k, 0) \in Nat
      BY PageAtIs
    <3>2. UpTo(i + 1) \subseteq UpTo(UserStart)
      BY <2>5, <3>1, Sizes DEF UpTo
    <3> QED BY <2>2, <3>2
  <2>7. Cardinality(UpTo(i)) < Cardinality(UpTo(UserStart)) /\ Cardinality(UpTo(i)) \in Nat
    BY <2>4, <2>6, OneMissing, Countable, Amounts
  <2>8. Cardinality(paging_pool) = 1 + Cardinality(UpTo(i))
    BY <1>6 DEF CountInv, FoldersUsed
  <2> QED BY <1>0, <1>1, <2>7, <2>8, Sizes
<1>7. ASSUME pc = "run", Cardinality(built) <= MaxClones
      PROVE  Cardinality(paging_pool) < PoolEnd - PoolStart
  <2>1. C \in 0 .. MaxClones /\ Cardinality(paging_pool) = K + C * F + 0
    BY <1>7 DEF CountInv, FoldersUsed
  <2>2. C < MaxClones
    <3>1. Cardinality(built) \in Nat
      BY Countable DEF PagingInv, TypeOK
    <3> QED BY <1>1, <1>7, <3>1 DEF Clones
  <2> HIDE DEF C, F, K
  <2>3. C * F + F <= MaxClones * F /\ C * F \in Int
    BY <1>1, <2>1, <2>2, TimesLess
  <2> QED BY <1>1, <2>1, <2>3, Sizes
<1>8. ASSUME InDirectory, Src.present, MustClone(Src)
      PROVE  Cardinality(paging_pool) < PoolEnd - PoolStart
  <2>1. pc = "entry" /\ Cloning /\ i \in Indices
    BY <1>8, Sizes DEF InDirectory, Cloning, PagingInv, TypeOK, Indices
  <2>2. i \in StackTables /\ i \in Nat
    BY <1>8, <2>1, SrcIs, Sizes DEF MustClone, Indices
  <2>3. i \notin TablesBefore(i)
    BY <2>2 DEF TablesBefore
  <2>4. Cardinality(TablesBefore(i)) < Cardinality(StackTables) /\ Cardinality(TablesBefore(i)) \in Nat
    BY <2>2, <2>3, OneMissing, Countable, Amounts
  <2>5. C \in 0 .. MaxClones /\ C < MaxClones
        /\ Cardinality(paging_pool) = K + C * F + (1 + Cardinality(TablesBefore(i)))
    BY <2>1 DEF CountInv, FoldersUsed
  <2> HIDE DEF C, F, K
  <2>6. C * F + F <= MaxClones * F /\ C * F \in Int
    BY <1>1, <2>5, TimesLess
  <2> QED BY <1>0, <1>1, <2>4, <2>5, <2>6, Sizes
<1>9. ASSUME InTable, Page.present, Src.user \/ Page.user
      PROVE  Cardinality(user_space_pool) < UserEnd - UserStart
  <2>1. pc = "page" /\ Cloning /\ i \in Indices /\ j \in Indices /\ PageAt(i, j) \in StackPages
    <3>1. pc = "page" /\ j \in Indices /\ ~Src.user
      BY <1>9, PageIs
    <3>2. PageAt(i, j) \in StackPages
      BY <1>9, PageIs DEF EntryGood
    <3> QED BY <3>1, <3>2, FillingIs
  <2>2. PageAt(i, j) \notin PagesBefore(i, j)
    BY <2>1, NotYet
  <2>3. Cardinality(PagesBefore(i, j)) < N /\ Cardinality(PagesBefore(i, j)) \in Nat
    BY <2>1, <2>2, OneMissing, Countable, Amounts
  <2>4. C \in 0 .. MaxClones /\ C < MaxClones
        /\ Cardinality(user_space_pool) = C * N + Cardinality(PagesBefore(i, j))
    BY <2>1 DEF CountInv, FramesUsed
  <2> HIDE DEF C, N
  <2>5. C * N + N <= MaxClones * N /\ C * N \in Int
    BY <1>1, <2>4, TimesLess
  <2> QED BY <1>1, <2>3, <2>4, <2>5, Sizes
<1> QED BY <1>3, <1>4, <1>5, <1>6, <1>7, <1>8, <1>9 DEF PoolsSuffice

(* Giving out a page counts one more. *)
LEMMA CountTaken ==
  ASSUME PagingInv
  PROVE  /\ allocate_page_folder # nullptr =>
              Cardinality(Taken(paging_pool, allocate_page_folder)) = Cardinality(paging_pool) + 1
         /\ allocate_frame # nullptr =>
              Cardinality(Taken(user_space_pool, allocate_frame)) = Cardinality(user_space_pool) + 1
<1>1. paging_pool \in SUBSET Frames /\ user_space_pool \in SUBSET Frames
  BY Sizes DEF PagingInv, TypeOK, Frames
<1>2. IsFiniteSet(paging_pool) /\ IsFiniteSet(user_space_pool)
  BY <1>1, Countable
<1> QED BY <1>2, Allocated, FS_AddElement DEF Taken

(* The counts of initialise_paging. *)
LEMMA CountBoot ==
  ASSUME PagingInv, CountInv, PoolsSuffice, Boot
  PROVE  CountInv'
<1>1. CASE MakeKernelDirectory
  <2>1. pc = "boot" /\ pc' = "map" /\ i' = 0
        /\ paging_pool' = Taken(paging_pool, allocate_page_folder)
        /\ user_space_pool' = user_space_pool
    BY <1>1 DEF MakeKernelDirectory
  <2>2. Cardinality(paging_pool') = Cardinality(paging_pool) + 1
    BY <2>1, CountTaken DEF PoolsSuffice
  <2>3. Cardinality(UpTo(0)) = 0
    <3>1. 0 \in Frames
      BY Sizes DEF Frames
    <3> QED BY <3>1, UpToNext, FS_EmptySet
  <2> QED BY <2>1, <2>2, <2>3 DEF CountInv, FoldersUsed, FramesUsed, Cloning
<1>2. CASE MapPage
  <2> DEFINE k0 == i \div PagesInTable
             d == kernel_directory
             has == TableOf(mem, d, i) # nullptr
  <2>1. pc = "map" /\ pc' = "map" /\ i' = i + 1 /\ i < UserStart /\ user_space_pool' = user_space_pool
    BY <1>2 DEF MapPage
  <2>2. i \in Frames
    BY <2>1, Sizes DEF PagingInv, TypeOK, Frames
  <2>3. k0 \in Indices /\ UpTo(i + 1) = UpTo(i) \cup {k0}
    BY <2>2, PlaceOfPage, UpToNext
  <2>4. Dirs = {d} /\ Linked = [x \in {d} |-> UpTo(i)]
    BY <2>1 DEF Dirs, Linked, LinkedIn
  <2>5. has <=> k0 \in UpTo(i)
    BY <2>3, <2>4, ShapeTypes DEF Shape, DirectoriesGood, TableOf
  <2>6. Cardinality(UpTo(i + 1)) = IF has THEN Cardinality(UpTo(i)) ELSE Cardinality(UpTo(i)) + 1
    <3>1. IsFiniteSet(UpTo(i))
      BY Countable, Amounts
    <3> QED BY <2>3, <2>5, <3>1, FS_AddElement
  <2>7. Cardinality(UpTo(i)) \in Nat
    BY Countable, Amounts
  <2>8. Cardinality(paging_pool') = 1 + Cardinality(UpTo(i + 1))
    <3>1. Cardinality(paging_pool) = 1 + Cardinality(UpTo(i))
      BY <2>1 DEF CountInv, FoldersUsed
    <3>2. CASE has
      <4>1. paging_pool' = paging_pool
        BY <1>2, <3>2 DEF MapPage
      <4> QED BY <2>6, <3>1, <3>2, <4>1
    <3>3. CASE ~has
      <4>1. allocate_page_folder # nullptr
        BY <2>1, <3>3 DEF PoolsSuffice
      <4>2. paging_pool' = Taken(paging_pool, allocate_page_folder)
        BY <1>2, <3>3 DEF MapPage
      <4>3. Cardinality(paging_pool') = Cardinality(paging_pool) + 1
        BY <4>1, <4>2, CountTaken
      <4> QED BY <2>6, <2>7, <3>1, <3>3, <4>3
    <3> QED BY <3>2, <3>3
  <2> QED BY <2>1, <2>8 DEF CountInv, FoldersUsed, FramesUsed, Cloning
<1>3. CASE EnablePaging
  <2>1. pc = "map" /\ pc' = "run" /\ i = UserStart /\ built' = {kernel_directory}
        /\ paging_pool' = paging_pool /\ user_space_pool' = user_space_pool
    BY <1>3 DEF EnablePaging
  <2>2. Clones' = 0
    <3>1. Cardinality({kernel_directory}) = 1
      BY FS_Singleton
    <3>2. Clones' = Cardinality({kernel_directory}) - 1
      BY <2>1 DEF Clones
    <3> QED BY <3>1, <3>2
  <2>3. 0 * CloneFolders = 0 /\ 0 * Cardinality(StackPages) = 0 /\ KernelFolders \in Nat
        /\ MaxClones \in Nat
    BY Amounts
  <2>4. Cardinality(paging_pool) = KernelFolders
    BY <2>1 DEF CountInv, FoldersUsed, KernelFolders
  <2>5. Cardinality(paging_pool') = FoldersUsed'
    BY <2>1, <2>2, <2>3, <2>4 DEF FoldersUsed
  <2>6. Cardinality(user_space_pool') = FramesUsed'
    BY <2>1, <2>2, <2>3 DEF CountInv, FramesUsed
  <2> QED BY <2>1, <2>2, <2>3, <2>5, <2>6 DEF CountInv, Cloning
<1> QED BY <1>1, <1>2, <1>3 DEF Boot

(* The numbers that the counts are made of, while directories are cloned. *)
LEMMA CountTypes ==
  ASSUME PagingInv, CountInv, pc \notin {"boot", "map"}
  PROVE  /\ Clones \in Nat /\ Clones * CloneFolders \in Nat
         /\ Clones * Cardinality(StackPages) \in Nat /\ KernelFolders \in Nat
         /\ \A n : Cardinality(TablesBefore(n)) \in Nat /\ IsFiniteSet(TablesBefore(n))
         /\ \A n, l : Cardinality(PagesBefore(n, l)) \in Nat /\ IsFiniteSet(PagesBefore(n, l))
<1>1. Clones \in Nat
  BY Amounts DEF CountInv
<1>2. \A n : TablesBefore(n) \in SUBSET Indices
  BY Amounts
<1>3. \A n, l : PagesBefore(n, l) \in SUBSET Frames
  BY Amounts
<1> QED BY <1>1, <1>2, <1>3, Amounts, Countable

(* An entry without pages of the stack counts nothing. *)
LEMMA CountSame ==
  ASSUME NEW k \in Indices, k \notin StackTables
  PROVE  TablesBefore(k + 1) = TablesBefore(k) /\ PagesBefore(k + 1, 0) = PagesBefore(k, 0)
<1>1. k \in Nat /\ \A n \in StackTables : n \in Nat
  BY Sizes DEF StackTables, Indices
<1>2. \A n \in StackTables : n < k + 1 <=> n < k
  BY <1>1
<1>3. ASSUME NEW p \in StackPages
      PROVE  p \in PagesBefore(k + 1, 0) <=> p \in PagesBefore(k, 0)
  <2>1. p \div PagesInTable \in StackTables /\ p \div PagesInTable \in Nat
        /\ p % PagesInTable \in Nat
    BY StackPlace
  <2>2. p \div PagesInTable < k + 1 <=> p \div PagesInTable < k
    BY <1>2, <2>1
  <2>3. ~(p % PagesInTable < 0)
    BY <2>1
  <2> QED BY <2>2, <2>3 DEF PagesBefore
<1>4. TablesBefore(k + 1) = TablesBefore(k)
  BY <1>2 DEF TablesBefore
<1>5. PagesBefore(k + 1, 0) = PagesBefore(k, 0)
  BY <1>3 DEF PagesBefore
<1> QED BY <1>4, <1>5

(* Nor does an entry that is not of the stack in a table that is. *)
LEMMA CountSkipped ==
  ASSUME NEW k \in Indices, NEW l \in Indices, PageAt(k, l) \notin StackPages
  PROVE  PagesBefore(k, l + 1) = PagesBefore(k, l)
<1>1. l \in Nat
  BY Sizes DEF Indices
<1>2. ASSUME NEW p \in StackPages
      PROVE  p \in PagesBefore(k, l + 1) <=> p \in PagesBefore(k, l)
  <2>1. p % PagesInTable \in Nat /\ ~(p \div PagesInTable = k /\ p % PagesInTable = l)
    BY StackPlace
  <2> QED BY <1>1, <2>1 DEF PagesBefore
<1> QED BY <1>2 DEF PagesBefore

(* A complete table counts as one. *)
LEMMA CountLinked ==
  ASSUME NEW k \in StackTables
  PROVE  /\ Cardinality(TablesBefore(k + 1)) = Cardinality(TablesBefore(k)) + 1
         /\ PagesBefore(k + 1, 0) = PagesBefore(k, PagesInTable)
<1>1. k \in Nat /\ \A n \in StackTables : n \in Nat
  BY Sizes DEF StackTables, Indices
<1>2. \A n \in StackTables : n < k + 1 <=> n < k \/ n = k
  BY <1>1
<1>3. TablesBefore(k + 1) = TablesBefore(k) \cup {k} /\ k \notin TablesBefore(k)
  <2>1. k \notin TablesBefore(k)
    BY <1>1 DEF TablesBefore
  <2>2. \A n \in StackTables : n \in TablesBefore(k + 1) <=> n \in TablesBefore(k) \/ n = k
    BY <1>2 DEF TablesBefore
  <2>3. TablesBefore(k + 1) = TablesBefore(k) \cup {k}
    BY <2>2, Amounts
  <2> QED BY <2>1, <2>3
<1>4. IsFiniteSet(TablesBefore(k))
  BY Amounts, Countable
<1>5. Cardinality(TablesBefore(k + 1)) = Cardinality(TablesBefore(k)) + 1
  BY <1>3, <1>4, FS_AddElement
<1>6. ASSUME NEW p \in StackPages
      PROVE  p \in PagesBefore(k + 1, 0) <=> p \in PagesBefore(k, PagesInTable)
  <2>1. p \div PagesInTable \in Nat /\ p % PagesInTable \in Nat /\ p % PagesInTable < PagesInTable
    BY StackPlace
  <2>2. ~(p % PagesInTable < 0)
    BY <2>1
  <2>3. p \div PagesInTable < k + 1 <=> p \div PagesInTable < k \/ p \div PagesInTable = k
    BY <1>1, <2>1
  <2> QED BY <2>1, <2>2, <2>3 DEF PagesBefore
<1>7. PagesBefore(k + 1, 0) = PagesBefore(k, PagesInTable)
  BY <1>6 DEF PagesBefore
<1> QED BY <1>5, <1>7

(* At the beginning of a clone nothing is counted, at its end everything. *)
LEMMA CountEnds ==
  /\ TablesBefore(0) = {} /\ PagesBefore(0, 0) = {}
  /\ TablesBefore(PagesInTable) = StackTables /\ PagesBefore(PagesInTable, 0) = StackPages
<1>1. \A n \in StackTables : n < PagesInTable /\ ~(n < 0)
  BY Sizes DEF StackTables, Indices
<1>2. \A p \in StackPages : /\ p \div PagesInTable < PagesInTable /\ ~(p \div PagesInTable < 0)
                            /\ ~(p % PagesInTable < 0)
  BY StackPlace
<1> QED BY <1>1, <1>2 DEF TablesBefore, PagesBefore

(* The counts of clone_directory. *)
LEMMA CountClone ==
  ASSUME PagingInv, CountInv, PoolsSuffice, CloneDirectory \/ Clone
  PROVE  CountInv'
<1> DEFINE F == CloneFolders
           K == KernelFolders
           N == Cardinality(StackPages)
           C == Clones
<1>0. pc \notin {"boot", "map"}
  BY DEF CloneDirectory, Clone, SkipTable, ShareTable, CloneTable, SharePage, CopyPage, LinkTable,
         FinishClone, InDirectory, InTable
<1>1. /\ C \in Nat /\ C * F \in Nat /\ C * N \in Nat /\ K \in Nat /\ C \in 0 .. MaxClones
      /\ \A n : Cardinality(TablesBefore(n)) \in Nat
      /\ \A n, l : Cardinality(PagesBefore(n, l)) \in Nat /\ IsFiniteSet(PagesBefore(n, l))
  BY <1>0, CountTypes DEF CountInv
<1>2. /\ pc = "run" => Cardinality(paging_pool) = K + C * F + 0
                       /\ Cardinality(user_space_pool) = C * N + 0
      /\ pc = "entry" => /\ Cardinality(paging_pool) = K + C * F + (1 + Cardinality(TablesBefore(i)))
                         /\ Cardinality(user_space_pool) = C * N + Cardinality(PagesBefore(i, 0))
                         /\ C < MaxClones
      /\ pc = "page" => /\ Cardinality(paging_pool) = K + C * F + (2 + Cardinality(TablesBefore(i)))
                        /\ Cardinality(user_space_pool) = C * N + Cardinality(PagesBefore(i, j))
                        /\ C < MaxClones
  BY DEF CountInv, FoldersUsed, FramesUsed, Cloning
<1>3. ASSUME built' = built PROVE C' = C
  BY <1>3 DEF Clones
<1>4. ASSUME pc' = "entry", built' = built, C < MaxClones,
             Cardinality(paging_pool') = K + C * F + (1 + Cardinality(TablesBefore(i'))),
             Cardinality(user_space_pool') = C * N + Cardinality(PagesBefore(i', 0))
      PROVE  CountInv'
  BY <1>1, <1>3, <1>4 DEF CountInv, FoldersUsed, FramesUsed, Cloning
<1>5. ASSUME pc' = "page", built' = built, C < MaxClones,
             Cardinality(paging_pool') = K + C * F + (2 + Cardinality(TablesBefore(i'))),
             Cardinality(user_space_pool') = C * N + Cardinality(PagesBefore(i', j'))
      PROVE  CountInv'
  BY <1>1, <1>3, <1>5 DEF CountInv, FoldersUsed, FramesUsed, Cloning
<1>6. CASE CloneDirectory
  <2>1. pc = "run" /\ pc' = "entry" /\ i' = 0 /\ built' = built /\ Cardinality(built) <= MaxClones
        /\ paging_pool' = Taken(paging_pool, allocate_page_folder)
        /\ user_space_pool' = user_space_pool
    BY <1>6 DEF CloneDirectory
  <2>2. Cardinality(paging_pool') = Cardinality(paging_pool) + 1
    BY <2>1, CountTaken DEF PoolsSuffice
  <2>3. C < MaxClones
    <3>1. Cardinality(built) \in Nat
      BY Countable DEF PagingInv, TypeOK
    <3> QED BY <2>1, <3>1, Amounts DEF Clones
  <2>4. Cardinality(TablesBefore(0)) = 0 /\ Cardinality(PagesBefore(0, 0)) = 0
    BY CountEnds, FS_EmptySet
  <2> HIDE DEF F, K, N, C
  <2> QED BY <1>1, <1>2, <1>4, <2>1, <2>2, <2>3, <2>4
<1>7. CASE SkipTable \/ ShareTable
  <2>1. pc = "entry" /\ pc' = "entry" /\ i' = i + 1 /\ built' = built /\ paging_pool' = paging_pool
        /\ user_space_pool' = user_space_pool /\ i < PagesInTable /\ Cloning
        /\ ~(Src.present /\ MustClone(Src))
    BY <1>7 DEF SkipTable, ShareTable, InDirectory, Cloning
  <2>2. i \in Indices
    BY <2>1, Sizes DEF PagingInv, TypeOK, Indices
  <2>3. i \notin StackTables
    BY <2>1, <2>2, SrcIs, StackIsMapped DEF MustClone
  <2>4. TablesBefore(i + 1) = TablesBefore(i) /\ PagesBefore(i + 1, 0) = PagesBefore(i, 0)
    BY <2>2, <2>3, CountSame
  <2> HIDE DEF F, K, N, C
  <2> QED BY <1>2, <1>4, <2>1, <2>4
<1>8. CASE CloneTable
  <2>1. pc = "entry" /\ pc' = "page" /\ i' = i /\ j' = 0 /\ built' = built
        /\ paging_pool' = Taken(paging_pool, allocate_page_folder)
        /\ user_space_pool' = user_space_pool /\ InDirectory /\ Src.present /\ MustClone(Src)
    BY <1>8 DEF CloneTable, InDirectory
  <2>2. Cardinality(paging_pool') = Cardinality(paging_pool) + 1
    BY <2>1, CountTaken DEF PoolsSuffice
  <2> HIDE DEF F, K, N, C
  <2> QED BY <1>1, <1>2, <1>5, <2>1, <2>2
<1>9. CASE SharePage
  <2>1. InTable /\ pc' = "page" /\ i' = i /\ j' = j + 1 /\ built' = built /\ pc = "page"
        /\ paging_pool' = paging_pool /\ user_space_pool' = user_space_pool
        /\ ~(Page.present /\ (Src.user \/ Page.user))
    BY <1>9 DEF SharePage, InTable
  <2>2. i \in Indices /\ j \in Indices
    BY <2>1, FillingIs, PageIs
  <2>3. PageAt(i, j) \notin StackPages
    BY <2>1, PageIs, StackIsMapped DEF EntryGood
  <2>4. PagesBefore(i, j + 1) = PagesBefore(i, j)
    BY <2>2, <2>3, CountSkipped
  <2> HIDE DEF F, K, N, C
  <2> QED BY <1>2, <1>5, <2>1, <2>4
<1>10. CASE CopyPage
  <2>1. InTable /\ pc' = "page" /\ i' = i /\ j' = j + 1 /\ built' = built /\ pc = "page"
        /\ paging_pool' = paging_pool /\ user_space_pool' = Taken(user_space_pool, allocate_frame)
        /\ Page.present /\ (Src.user \/ Page.user)
    BY <1>10 DEF CopyPage, InTable
  <2>2. i \in Indices /\ j \in Indices
    BY <2>1, FillingIs, PageIs
  <2>3. PageAt(i, j) \in StackPages
    BY <1>10, CopyPageIs
  <2>4. Cardinality(user_space_pool') = Cardinality(user_space_pool) + 1
    BY <2>1, CountTaken DEF PoolsSuffice
  <2>5. Cardinality(PagesBefore(i, j + 1)) = Cardinality(PagesBefore(i, j)) + 1
    BY <1>1, <2>2, <2>3, NotYet, FS_AddElement
  <2> HIDE DEF F, K, N, C
  <2> QED BY <1>1, <1>2, <1>5, <2>1, <2>4, <2>5
<1>11. CASE LinkTable
  <2>1. pc = "page" /\ pc' = "entry" /\ i' = i + 1 /\ j = PagesInTable /\ built' = built
        /\ paging_pool' = paging_pool /\ user_space_pool' = user_space_pool
    BY <1>11 DEF LinkTable
  <2>2. i \in StackTables
    BY <2>1, FillingIs
  <2>3. /\ Cardinality(TablesBefore(i + 1)) = Cardinality(TablesBefore(i)) + 1
        /\ PagesBefore(i + 1, 0) = PagesBefore(i, j)
    BY <2>1, <2>2, CountLinked
  <2> HIDE DEF F, K, N, C
  <2> QED BY <1>1, <1>2, <1>4, <2>1, <2>3
<1>12. CASE FinishClone
  <2>1. pc = "entry" /\ pc' = "run" /\ i = PagesInTable /\ built' = built \cup {dir} /\ Cloning
        /\ paging_pool' = paging_pool /\ user_space_pool' = user_space_pool
    BY <1>12 DEF FinishClone, Cloning
  <2>2. C' = C + 1
    <3>1. IsFiniteSet(built) /\ dir \notin built /\ Cardinality(built) \in Nat
      BY <2>1, CloningIs, Countable DEF PagingInv, TypeOK
    <3>2. Cardinality(built \cup {dir}) = Cardinality(built) + 1
      BY <3>1, FS_AddElement
    <3>3. C' = Cardinality(built \cup {dir}) - 1
      BY <2>1 DEF Clones
    <3> QED BY <3>1, <3>2, <3>3 DEF Clones
  <2>3. (C + 1) * F = C * F + F /\ (C + 1) * N = C * N + N /\ F \in Nat /\ N \in Nat
    <3>1. F \in Nat /\ N \in Nat
      BY Amounts
    <3> HIDE DEF F, N, C
    <3> QED BY <1>1, <3>1, TimesLess
  <2>4. Cardinality(paging_pool') = K + (C * F + F) /\ Cardinality(user_space_pool') = C * N + N
    <3>1. Cardinality(TablesBefore(i)) + 1 = F /\ Cardinality(PagesBefore(i, 0)) = N
      BY <1>1, <2>1, CountEnds DEF CloneFolders
    <3> HIDE DEF F, K, N, C
    <3> QED BY <1>1, <1>2, <2>1, <2>3, <3>1
  <2>5. FoldersUsed' = K + C' * F + 0 /\ FramesUsed' = C' * N + 0
    BY <2>1 DEF FoldersUsed, FramesUsed
  <2>6. Cardinality(paging_pool') = FoldersUsed' /\ Cardinality(user_space_pool') = FramesUsed'
    <3> HIDE DEF F, K, N, C
    <3> QED BY <1>1, <2>2, <2>3, <2>4, <2>5
  <2>7. C' \in 0 .. MaxClones
    BY <1>1, <1>2, <2>1, <2>2, Amounts
  <2> QED BY <2>1, <2>6, <2>7 DEF CountInv, Cloning
<1> QED BY <1>6, <1>7, <1>8, <1>9, <1>10, <1>11, <1>12 DEF Clone

(* Every step keeps the counts. *)
LEMMA CountNext ==
  ASSUME PagingInv, CountInv, PoolsSuffice, [Next]_vars
  PROVE  CountInv'
<1>1. CASE UNCHANGED vars \/ WriteStack \/ SwitchDirectory
  <2>1. UNCHANGED <<paging_pool, user_space_pool, pc, i, j, built>>
    BY <1>1 DEF vars, WriteStack, SwitchDirectory
  <2> QED BY <2>1 DEF CountInv, FoldersUsed, FramesUsed, Clones, Cloning
<1> QED BY <1>1, CountBoot, CountClone DEF Next

(* Pools that hold the kernel's directory and MaxClones clones of it never *)
(* run out: a clone takes one folder, one for each table with pages of the *)
(* stack, and one frame for each of those pages, and nothing else.         *)
THEOREM PagingPoolsSuffice == Enough => (Spec => []PoolsSuffice)
<1> SUFFICES ASSUME Enough PROVE Spec => []PoolsSuffice
  OBVIOUS
<1>1. Init => CountInv
  <2> SUFFICES ASSUME Init PROVE CountInv
    OBVIOUS
  <2> QED BY FS_EmptySet DEF Init, CountInv, FoldersUsed, FramesUsed, Cloning
<1>2. PagingInv /\ CountInv => PoolsSuffice
  BY CountSuffices
<1>3. PagingInv /\ CountInv /\ [Next]_vars => PagingInv' /\ CountInv'
  BY CountSuffices, CountNext, InvNext
<1> QED BY <1>1, <1>2, <1>3, InvInit, PTL DEF Spec

(* So with such pools the address spaces are what fork counts on, whatever *)
(* the sizes and the number of forks.                                      *)
THEOREM PagingWithinPools ==
  Enough => (Spec => /\ [](KernelMapped /\ UserPagesPrivate /\ FoldersInPool)
                     /\ ImplementsAddressSpace)
<1> SUFFICES ASSUME Enough
             PROVE  Spec => /\ [](KernelMapped /\ UserPagesPrivate /\ FoldersInPool)
                            /\ ImplementsAddressSpace
  OBVIOUS
<1>1. Spec => []PoolsSuffice
  BY PagingPoolsSuffice
<1> QED BY <1>1, PagingKernelMapped, PagingUserPagesPrivate, PagingFoldersInPool,
           PagingImplementsAddressSpace, PTL
============================================================================
