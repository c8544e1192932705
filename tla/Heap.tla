------------------------------- MODULE Heap -------------------------------
(***************************************************************************)
(* The MushLib heap, lib/base/heap.c: an address-ordered doubly linked     *)
(* list of blocks threaded through headers that sit in front of each       *)
(* block, and a best-fit search over the gaps between them.                *)
(*                                                                         *)
(* The heap has no lock.  Every store to the list that another execution   *)
(* context could see is a step of its own, so that a context can be        *)
(* stopped between any two of them; the stores to the header of a block    *)
(* that is not linked yet, and the loads of one turn of the search, are    *)
(* one step.  Masked says that operations run with interrupts disabled     *)
(* (boot, fork and the interrupt handlers), which is the only mutual       *)
(* exclusion the kernel has.                                               *)
(*                                                                         *)
(* The bytes inside blocks are not modelled: that nobody else writes them  *)
(* is what BlocksDisjoint is about.  zalloc is Ralloc, whose clearing of   *)
(* the block just returned touches only those bytes.                       *)
(***************************************************************************)
EXTENDS Integers

CONSTANTS
  HeapStart,    (* header->heap_start                                      *)
  HeapEnd,      (* header->heap_end                                        *)
  HeaderSize,   (* sizeof(heap_block_header)                               *)
  Word,         (* u_dword arithmetic is modulo Word (2^32 in the code)    *)
  Sizes,        (* the sizes callers ask for                               *)
  Contexts,     (* tasks and interrupt handlers that share the heap        *)
  Masked,       (* TRUE: a heap operation is never interrupted             *)
  Careful,      (* TRUE: callers keep within what the code checks          *)
  HandlerHalts  (* TRUE: the kernel's allocation handler, which hangs;     *)
                (* FALSE: MushLib's, which returns                         *)

ASSUME HeapAssumption ==
  /\ HeapStart \in Nat \ {0} /\ HeapEnd \in Nat /\ HeaderSize \in Nat \ {0}
  /\ HeapStart + HeaderSize < HeapEnd
  /\ Word \in Nat /\ HeapEnd + HeaderSize < Word
  /\ Sizes \subseteq Nat
  /\ Masked \in BOOLEAN /\ Careful \in BOOLEAN /\ HandlerHalts \in BOOLEAN

VARIABLES
  first,        (* header->first_address                                   *)
  size, previous, next,  (* heap_block_header fields, by block pointer     *)
  pc,           (* where each context is inside the heap code              *)
  want,         (* the size argument of ralloc                             *)
  cur, nxt,     (* current_address, next_address of the search             *)
  best,         (* best_address, best_previous, best_next, best_size       *)
  blk,          (* the block being linked in or unlinked                   *)
  old,          (* the block challoc is moving, or nullptr                 *)
  live,         (* history: pointers handed out and not yet given back     *)
  asked         (* history: the size each of them was asked for            *)

vars == <<first, size, previous, next, pc, want, cur, nxt, best, blk, old, live, asked>>

nullptr == 0
Ptr     == HeapStart .. HeapEnd
Dword(x) == x % Word

Labels == {"idle", "ralloc", "scan", "header", "link_prev", "link_next",
           "publish", "copy", "un_first", "un_next", "un_prev", "throw",
           "halted"}

Gap == [size : Nat, address : Ptr \cup {nullptr},
        previous : Ptr \cup {nullptr}, next : Ptr \cup {nullptr}]

(* best_* as ralloc initialises them: nothing found yet. *)
NoGap == [size |-> HeapEnd - HeapStart, address |-> nullptr,
          previous |-> nullptr, next |-> nullptr]

TypeOK ==
  /\ first \in Ptr \cup {nullptr}
  /\ size \in [Ptr -> Nat]
  /\ previous \in [Ptr -> Ptr \cup {nullptr}]
  /\ next \in [Ptr -> Ptr \cup {nullptr}]
  /\ pc \in [Contexts -> Labels]
  /\ want \in [Contexts -> Nat]
  /\ cur \in [Contexts -> Ptr \cup {nullptr}]
  /\ nxt \in [Contexts -> Ptr \cup {nullptr}]
  /\ best \in [Contexts -> Gap]
  /\ blk \in [Contexts -> Ptr \cup {nullptr}]
  /\ old \in [Contexts -> Ptr \cup {nullptr}]
  /\ live \in SUBSET Ptr
  /\ asked \in [Ptr -> Nat]

(* initialize_heap: no block yet; the memory behind the heap header is     *)
(* cleared at power-up, and no step reads a header nobody wrote.           *)
Init ==
  /\ first = nullptr
  /\ size = [p \in Ptr |-> 0]
  /\ previous = [p \in Ptr |-> nullptr]
  /\ next = [p \in Ptr |-> nullptr]
  /\ pc = [c \in Contexts |-> "idle"]
  /\ want = [c \in Contexts |-> 0]
  /\ cur = [c \in Contexts |-> nullptr]
  /\ nxt = [c \in Contexts |-> nullptr]
  /\ best = [c \in Contexts |-> NoGap]
  /\ blk = [c \in Contexts |-> nullptr]
  /\ old = [c \in Contexts |-> nullptr]
  /\ live = {}
  /\ asked = [p \in Ptr |-> 0]

(***************************************************************************)
(* Control                                                                 *)
(***************************************************************************)

(* Mutant: some heap operation runs with interrupts enabled. *)
MayRunUnmasked(c) == TRUE

(* With interrupts masked no other context can be inside the heap code.    *)
MayRun(c) == Masked => \A d \in Contexts \ {c} : pc[d] = "idle"

At(c, from) == pc[c] = from /\ MayRun(c)

Goto(c, to) == pc' = [pc EXCEPT ![c] = to]

(* The locals of ralloc go out of scope. *)
DropScan(c) ==
  /\ want' = [want EXCEPT ![c] = 0]
  /\ cur'  = [cur EXCEPT ![c] = nullptr]
  /\ nxt'  = [nxt EXCEPT ![c] = nullptr]
  /\ best' = [best EXCEPT ![c] = NoGap]

(* What every caller in the repository keeps to: no request is larger than *)
(* an empty heap (the largest is a 64 KB module in a 512 KB heap).         *)
FitsEmptyHeap(n) == n + HeaderSize <= HeapEnd - HeapStart

(***************************************************************************)
(* ralloc                                                                  *)
(***************************************************************************)

Ralloc(c, n) ==
  /\ At(c, "idle")
  /\ Careful => FitsEmptyHeap(n)
  /\ want' = [want EXCEPT ![c] = n]
  /\ Goto(c, "ralloc")
  /\ UNCHANGED <<first, size, previous, next, cur, nxt, best, blk, old, live, asked>>

GapAt(free, a, p, q) ==
  [size |-> free, address |-> a, previous |-> p, next |-> q]

(* A heap without blocks: the block goes to the start, unchecked. *)
EmptyHeap(c) ==
  /\ At(c, "ralloc")
  /\ first = nullptr
  /\ best' = [best EXCEPT ![c] = GapAt(NoGap.size, HeapStart, nullptr, nullptr)]
  /\ Goto(c, "header")
  /\ UNCHANGED <<first, size, previous, next, want, cur, nxt, blk, old, live, asked>>

(* Mutant: the room for the new block's own header is forgotten. *)
ConsiderNoHeader(b, n, gap) ==
  IF gap.size >= Dword(n) /\ gap.size < b.size THEN gap ELSE b

(* Mutant: a gap is taken although a tighter one was seen. *)
ConsiderLast(b, n, gap) ==
  IF gap.size >= Dword(n + HeaderSize) /\ gap.size < NoGap.size THEN gap ELSE b

(* Mutant: no comparison with best_size, so a wrapped difference is taken. *)
ConsiderWrapped(b, n, gap) ==
  IF gap.size >= Dword(n + HeaderSize) THEN gap ELSE b

(* Mutant: a gap that fits exactly is refused. *)
ConsiderStrict(b, n, gap) ==
  IF gap.size > Dword(n + HeaderSize) /\ gap.size < b.size THEN gap ELSE b

(* The search keeps the tightest gap that holds the block and its header.  *)
Consider(b, n, gap) ==
  IF gap.size >= Dword(n + HeaderSize) /\ gap.size < b.size THEN gap ELSE b

(* The gap in front of the first block. *)
FirstGap(c) ==
  /\ At(c, "ralloc")
  /\ first # nullptr
  /\ best' = [best EXCEPT ![c] =
                Consider(NoGap, want[c],
                         GapAt(Dword(first - HeapStart - HeaderSize),
                               HeapStart, nullptr, first))]
  /\ cur' = [cur EXCEPT ![c] = first]
  /\ nxt' = [nxt EXCEPT ![c] = next[first]]
  /\ Goto(c, "scan")
  /\ UNCHANGED <<first, size, previous, next, want, blk, old, live, asked>>

(* One turn of the while loop: the gap between two neighbours. *)
ScanGap(c) ==
  /\ At(c, "scan")
  /\ nxt[c] # nullptr
  /\ best' = [best EXCEPT ![c] =
                Consider(best[c], want[c],
                         GapAt(Dword(nxt[c] - cur[c] - size[cur[c]] - HeaderSize),
                               cur[c] + size[cur[c]], cur[c], nxt[c]))]
  /\ cur' = [cur EXCEPT ![c] = nxt[c]]
  /\ nxt' = [nxt EXCEPT ![c] = next[nxt[c]]]
  /\ Goto(c, "scan")
  /\ UNCHANGED <<first, size, previous, next, want, blk, old, live, asked>>

(* The gap behind the last block. *)
LastGap(c) == GapAt(Dword(HeapEnd - cur[c] - size[cur[c]] - HeaderSize),
                    cur[c] + size[cur[c]], cur[c], nullptr)

(* The loop ends with that gap and the decision. *)
TailGap(c) ==
  /\ At(c, "scan")
  /\ nxt[c] = nullptr
  /\ LET b == Consider(best[c], want[c], LastGap(c))
     IN /\ best' = [best EXCEPT ![c] = b]
        /\ Goto(c, IF b.address # nullptr THEN "header" ELSE "throw")
  /\ UNCHANGED <<first, size, previous, next, want, cur, nxt, blk, old, live, asked>>

(* allocate_space, in the order of its stores. *)
WriteHeader(c) ==
  /\ At(c, "header")
  /\ LET p == best[c].address + HeaderSize
     IN /\ size' = [size EXCEPT ![p] = want[c]]
        /\ previous' = [previous EXCEPT ![p] = best[c].previous]
        /\ next' = [next EXCEPT ![p] = best[c].next]
        /\ blk' = [blk EXCEPT ![c] = p]
  /\ Goto(c, "link_prev")
  /\ UNCHANGED <<first, want, cur, nxt, best, old, live, asked>>

LinkPrevious(c) ==
  /\ At(c, "link_prev")
  /\ next' = IF best[c].previous = nullptr THEN next
             ELSE [next EXCEPT ![best[c].previous] = blk[c]]
  /\ Goto(c, "link_next")
  /\ UNCHANGED <<first, size, previous, want, cur, nxt, best, blk, old, live, asked>>

(* Mutant: the successor keeps pointing back past the new block. *)
LinkNextDropped(c) ==
  /\ At(c, "link_next")
  /\ Goto(c, "publish")
  /\ UNCHANGED <<first, size, previous, next, want, cur, nxt, best, blk, old, live, asked>>

LinkNext(c) ==
  /\ At(c, "link_next")
  /\ previous' = IF best[c].next = nullptr THEN previous
                 ELSE [previous EXCEPT ![best[c].next] = blk[c]]
  /\ Goto(c, "publish")
  /\ UNCHANGED <<first, size, next, want, cur, nxt, best, blk, old, live, asked>>

(* ralloc stores first_address when the block is the lowest, and returns.  *)
Publish(c) ==
  /\ At(c, "publish")
  /\ first' = IF best[c].address = HeapStart THEN blk[c] ELSE first
  /\ live' = live \cup {blk[c]}
  /\ asked' = [asked EXCEPT ![blk[c]] = want[c]]
  /\ Goto(c, IF old[c] = nullptr THEN "idle" ELSE "copy")
  /\ blk' = [blk EXCEPT ![c] = nullptr]
  /\ DropScan(c)
  /\ UNCHANGED <<size, previous, next, old>>

(* The allocation exception.  The kernel's handler never returns; the      *)
(* default one calls terminate(), which does nothing, so ralloc returns    *)
(* nullptr.                                                                *)
Throw(c) ==
  /\ At(c, "throw")
  /\ Goto(c, IF HandlerHalts THEN "halted"
             ELSE IF old[c] = nullptr THEN "idle" ELSE "copy")
  /\ DropScan(c)
  /\ UNCHANGED <<first, size, previous, next, blk, old, live, asked>>

(***************************************************************************)
(* unalloc                                                                 *)
(***************************************************************************)

(* A block is used by one context at a time. *)
NotMoving(p) == \A d \in Contexts : old[d] # p

Unalloc(c, p) ==
  /\ At(c, "idle")
  /\ p \in live /\ NotMoving(p)
  /\ live' = live \ {p}
  /\ asked' = [asked EXCEPT ![p] = 0]
  /\ blk' = [blk EXCEPT ![c] = p]
  /\ Goto(c, "un_first")
  /\ UNCHANGED <<first, size, previous, next, want, cur, nxt, best, old>>

UnlinkFirst(c) ==
  /\ At(c, "un_first")
  /\ first' = IF blk[c] = first THEN next[blk[c]] ELSE first
  /\ Goto(c, "un_next")
  /\ UNCHANGED <<size, previous, next, want, cur, nxt, best, blk, old, live, asked>>

UnlinkNext(c) ==
  /\ At(c, "un_next")
  /\ previous' = IF next[blk[c]] = nullptr THEN previous
                 ELSE [previous EXCEPT ![next[blk[c]]] = previous[blk[c]]]
  /\ Goto(c, "un_prev")
  /\ UNCHANGED <<first, size, next, want, cur, nxt, best, blk, old, live, asked>>

(* Mutant: the predecessor is pointed at the block before it, not behind.  *)
UnlinkPreviousSwapped(c) ==
  /\ At(c, "un_prev")
  /\ next' = IF previous[blk[c]] = nullptr THEN next
             ELSE [next EXCEPT ![previous[blk[c]]] = previous[blk[c]]]
  /\ blk' = [blk EXCEPT ![c] = nullptr]
  /\ Goto(c, "idle")
  /\ UNCHANGED <<first, size, previous, want, cur, nxt, best, old, live, asked>>

UnlinkPrevious(c) ==
  /\ At(c, "un_prev")
  /\ next' = IF previous[blk[c]] = nullptr THEN next
             ELSE [next EXCEPT ![previous[blk[c]]] = next[blk[c]]]
  /\ blk' = [blk EXCEPT ![c] = nullptr]
  /\ Goto(c, "idle")
  /\ UNCHANGED <<first, size, previous, want, cur, nxt, best, old, live, asked>>

(***************************************************************************)
(* challoc                                                                 *)
(***************************************************************************)

ChallocShrink(c, p, n) ==
  /\ At(c, "idle")
  /\ p \in live /\ NotMoving(p)
  /\ n < size[p]
  /\ size' = [size EXCEPT ![p] = n]
  /\ asked' = [asked EXCEPT ![p] = n]
  /\ UNCHANGED <<first, previous, next, pc, want, cur, nxt, best, blk, old, live>>

(* The bytes a block can really have without touching its successor. *)
Room(p) == (IF next[p] = nullptr THEN HeapEnd ELSE next[p] - HeaderSize) - p

(* The code's test: an unsigned comparison with next - structure, which    *)
(* wraps when there is no successor.                                       *)
GrowsInPlace(p, n) == n < Dword(next[p] - p)

(* Mutant: challoc forgets to store the new size. *)
ChallocInPlaceNoStore(c, p, n) ==
  /\ At(c, "idle")
  /\ p \in live /\ NotMoving(p)
  /\ n > size[p] /\ GrowsInPlace(p, n)
  /\ Careful => n <= Room(p)
  /\ asked' = [asked EXCEPT ![p] = n]
  /\ UNCHANGED <<first, size, previous, next, pc, want, cur, nxt, best, blk, old, live>>

ChallocInPlace(c, p, n) ==
  /\ At(c, "idle")
  /\ p \in live /\ NotMoving(p)
  /\ n > size[p] /\ GrowsInPlace(p, n)
  /\ Careful => n <= Room(p)
  /\ size' = [size EXCEPT ![p] = n]
  /\ asked' = [asked EXCEPT ![p] = n]
  /\ UNCHANGED <<first, previous, next, pc, want, cur, nxt, best, blk, old, live>>

(* No room behind the block: ralloc a new one ... *)
ChallocMove(c, p, n) ==
  /\ At(c, "idle")
  /\ p \in live /\ NotMoving(p)
  /\ n > size[p] /\ ~GrowsInPlace(p, n)
  /\ Careful => FitsEmptyHeap(n)
  /\ want' = [want EXCEPT ![c] = n]
  /\ old' = [old EXCEPT ![c] = p]
  /\ Goto(c, "ralloc")
  /\ UNCHANGED <<first, size, previous, next, cur, nxt, best, blk, live, asked>>

(* ... copy the bytes and unalloc the old one. *)
CopyAndRelease(c) ==
  /\ At(c, "copy")
  /\ live' = live \ {old[c]}
  /\ asked' = [asked EXCEPT ![old[c]] = 0]
  /\ blk' = [blk EXCEPT ![c] = old[c]]
  /\ old' = [old EXCEPT ![c] = nullptr]
  /\ Goto(c, "un_first")
  /\ UNCHANGED <<first, size, previous, next, want, cur, nxt, best>>

(***************************************************************************)
(* Specification                                                           *)
(***************************************************************************)

(* A caller enters the heap. *)
Call(c) ==
  \/ \E n \in Sizes : Ralloc(c, n)
  \/ \E p \in live : Unalloc(c, p)
  \/ \E p \in live, n \in Sizes : ChallocShrink(c, p, n)
  \/ \E p \in live, n \in Sizes : ChallocInPlace(c, p, n)
  \/ \E p \in live, n \in Sizes : ChallocMove(c, p, n)

(* The CPU executes heap code on behalf of c. *)
Step(c) ==
  \/ EmptyHeap(c) \/ FirstGap(c) \/ ScanGap(c) \/ TailGap(c)
  \/ WriteHeader(c) \/ LinkPrevious(c) \/ LinkNext(c) \/ Publish(c)
  \/ Throw(c) \/ CopyAndRelease(c)
  \/ UnlinkFirst(c) \/ UnlinkNext(c) \/ UnlinkPrevious(c)

Next == \E c \in Contexts : Call(c) \/ Step(c)

(* The CPU does not stop in the middle of an operation. *)
Fairness == \A c \in Contexts : WF_vars(Step(c))

Spec == Init /\ [][Next]_vars

FairSpec == Spec /\ Fairness

(***************************************************************************)
(* Properties                                                              *)
(***************************************************************************)

(* Pointers of blocks that contexts at the given labels are working on.    *)
Working(labels) == {blk[c] : c \in {d \in Contexts : pc[d] \in labels}}

(* The blocks each of the three kinds of links should know about: the      *)
(* ones in use, and a block half way through being linked or unlinked.     *)
InFirst    == live \cup Working({"un_first"})
InPrevious == live \cup Working({"publish", "un_first", "un_next"})
InNext     == live \cup Working({"link_next", "publish",
                                 "un_first", "un_next", "un_prev"})

IsFirst(S, r) == \/ r = nullptr /\ S = {}
                 \/ r \in S /\ \A s \in S : r <= s

IsNext(S, q, r) == \/ r = nullptr /\ \A s \in S : s <= q
                   \/ r \in S /\ q < r /\ \A s \in S : s <= q \/ r <= s

IsPrevious(S, q, r) == \/ r = nullptr /\ \A s \in S : q <= s
                       \/ r \in S /\ r < q /\ \A s \in S : q <= s \/ s <= r

(* The list is the blocks in use in address order, in both directions,     *)
(* after every single store of ralloc and unalloc.                         *)
ListInOrder ==
  /\ IsFirst(InFirst, first)
  /\ \A q \in InNext : IsNext(InNext, q, next[q])
  /\ \A q \in InPrevious : IsPrevious(InPrevious, q, previous[q])

(* get_header refuses every other pointer. *)
IsInHeap(p) == HeapStart < p /\ p < HeapEnd

InHeap(p) == /\ IsInHeap(p)
             /\ HeapStart + HeaderSize <= p /\ p + size[p] <= HeapEnd

(* No two blocks in use share a byte, headers included, and none leaves    *)
(* the heap: the memory ralloc hands out belongs to its caller alone.      *)
BlocksDisjoint ==
  /\ \A p \in live : InHeap(p)
  /\ \A p, q \in live : p < q => p + size[p] <= q - HeaderSize

(* ralloc never hands out a block that somebody already has. *)
ReturnsFreshBlock ==
  \A c \in Contexts : pc[c] = "publish" =>
    /\ blk[c] \notin live
    /\ \A d \in Contexts \ {c} : pc[d] = "publish" => blk[d] # blk[c]

(* size_of(ptr) recovers the size the block was asked for. *)
SizeRecoverable == \A p \in live : size[p] = asked[p]

(***************************************************************************)
(* Why the invariants hold.  With interrupts masked, what the one active   *)
(* context has read stays true until it acts on it.                        *)
(***************************************************************************)

(* The gap b of a search for n bytes really is one: its neighbours are the *)
(* blocks next to it, and the new block with its header fits between them. *)
RealGap(b, n) ==
  /\ b.address # nullptr /\ b.address + HeaderSize \notin live
  /\ IsPrevious(live, b.address + HeaderSize, b.previous)
  /\ IsNext(live, b.address + HeaderSize, b.next)
  /\ b.address = HeapStart <=> b.previous = nullptr
  /\ b.previous # nullptr => b.previous + size[b.previous] <= b.address
  /\ b.next # nullptr => b.address + HeaderSize + n <= b.next - HeaderSize
  /\ b.address + HeaderSize + n <= HeapEnd /\ b.address + HeaderSize < HeapEnd

(* What a context knows at each label. *)
Searching(c) ==
  /\ cur[c] \in live /\ nxt[c] = next[cur[c]]
  /\ best[c].size <= HeapEnd - HeapStart
  /\ best[c].address # nullptr => RealGap(best[c], want[c])

HeaderWritten(c) ==
  /\ RealGap(best[c], want[c])
  /\ blk[c] = best[c].address + HeaderSize
  /\ size[blk[c]] = want[c]
  /\ previous[blk[c]] = best[c].previous
  /\ next[blk[c]] = best[c].next

Unlinking(c) ==
  /\ blk[c] \in Ptr /\ blk[c] \notin live
  /\ IsPrevious(live, blk[c], previous[blk[c]])

Knows(c) ==
  /\ old[c] = nullptr \/ old[c] \in live
  /\ pc[c] = "copy" => old[c] # nullptr
  /\ pc[c] \in {"idle", "un_first", "un_next", "un_prev"} => old[c] = nullptr
  /\ pc[c] \in {"ralloc", "scan"} => FitsEmptyHeap(want[c])
  /\ pc[c] \in {"ralloc", "scan", "header", "link_prev", "link_next", "publish"}
       => want[c] \in Sizes
  /\ pc[c] = "scan" => Searching(c)
  /\ pc[c] = "header" => RealGap(best[c], want[c])
  /\ pc[c] \in {"link_prev", "link_next", "publish"} => HeaderWritten(c)
  /\ pc[c] \in {"un_first", "un_next", "un_prev"} => Unlinking(c)

OneActive == \A c, d \in Contexts : c # d => pc[c] = "idle" \/ pc[d] = "idle"

(* Inductive: at most one context is inside the heap, the list and the     *)
(* blocks are in order, and what that context has read is still true.      *)
HeapInv ==
  /\ TypeOK /\ OneActive
  /\ ListInOrder /\ BlocksDisjoint /\ SizeRecoverable
  /\ \A c \in Contexts : Knows(c)

(* Bytes [a, a + HeaderSize + n) are free. *)
FreeAt(a, n) ==
  \A q \in live : q + size[q] <= a \/ a + HeaderSize + n <= q - HeaderSize

(* ralloc gives up only when no gap holds the block, counting the spare    *)
(* header the code keeps behind the last block.                            *)
ThrowMeansNoGap ==
  \A c \in Contexts : pc[c] = "throw" =>
    \A a \in HeapStart .. HeapEnd :
      FreeAt(a, want[c]) =>
        /\ \A q \in live : q <= a
        /\ a + want[c] + 2 * HeaderSize > HeapEnd

(* Starts of gaps, and the length the search gives each of them. *)
GapStarts == {HeapStart} \cup {q + size[q] : q \in live}
GapLength(a) ==
  LET after == {q \in live : a <= q - HeaderSize}
  IN (IF after = {} THEN HeapEnd
      ELSE CHOOSE q \in after : \A r \in after : q <= r) - a - HeaderSize

(* Best fit: the block goes into the tightest gap that holds it, the       *)
(* lowest one among equals.                                                *)
BestFit ==
  \A c \in Contexts : pc[c] = "header" /\ live # {} =>
    \A a \in GapStarts :
      GapLength(a) >= want[c] + HeaderSize =>
        \/ GapLength(best[c].address) < GapLength(a)
        \/ GapLength(best[c].address) = GapLength(a) /\ best[c].address <= a

(* The search and the stores of an operation always come to an end (or     *)
(* the kernel has stopped on an exhausted heap).                           *)
OperationsReturn ==
  \A c \in Contexts : pc[c] # "idle" ~> pc[c] \in {"idle", "halted"}

(* The list of blocks implements the heap's promise. *)
Promise == INSTANCE HeapSpec WITH blocks <- [p \in live |-> size[p]]
ImplementsHeapSpec == Promise!Spec
============================================================================
