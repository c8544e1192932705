---------------------------- MODULE HeapProofs ----------------------------
(***************************************************************************)
(* Proofs about the heap, for heaps, headers and requests of every size    *)
(* and any number of contexts: HeapInv is inductive when operations do not *)
(* overlap and callers keep within what ralloc and challoc check, so       *)
(* blocks never overlap, the list is never out of order and the search     *)
(* finds the tightest gap.                                                 *)
(***************************************************************************)
EXTENDS Heap, WellFoundedInduction, TLAPS

(***************************************************************************)
(* Arithmetic modulo Word                                                  *)
(***************************************************************************)

(* A u_dword value that does not wrap is itself. *)
LEMMA DwordSmall ==
  ASSUME NEW x \in Int, 0 <= x, x < Word
  PROVE  Dword(x) = x
BY HeapAssumption DEF Dword

(* A difference that falls below zero by less than Word wraps once.        *)
LEMMA DwordWraps ==
  ASSUME NEW x \in Int, x < 0, -Word <= x
  PROVE  Dword(x) = x + Word
BY HeapAssumption DEF Dword

(* u_dword arithmetic yields a natural number. *)
LEMMA DwordType ==
  ASSUME NEW x \in Int
  PROVE  Dword(x) \in Nat
BY HeapAssumption DEF Dword

(***************************************************************************)
(* Address-ordered lists                                                   *)
(***************************************************************************)

(* No block sits at address zero. *)
LEMMA PtrPositive == \A p \in Ptr : p \in Int /\ p > 0 /\ p # nullptr
BY HeapAssumption DEF Ptr, nullptr

(* Linking q behind its predecessor p (allocate_space). *)
LEMMA InsertNext ==
  ASSUME NEW S \in SUBSET Ptr, NEW q \in Ptr, q \notin S,
         NEW f \in [Ptr -> Ptr \cup {nullptr}], NEW p,
         \A x \in S : IsNext(S, x, f[x]),
         IsNext(S, q, f[q]), IsPrevious(S, q, p)
  PROVE  LET g == IF p = nullptr THEN f ELSE [f EXCEPT ![p] = q]
         IN \A x \in S \cup {q} : IsNext(S \cup {q}, x, g[x])
BY PtrPositive DEF IsNext, IsPrevious

(* Linking q in front of its successor r (allocate_space). *)
LEMMA InsertPrevious ==
  ASSUME NEW S \in SUBSET Ptr, NEW q \in Ptr, q \notin S,
         NEW f \in [Ptr -> Ptr \cup {nullptr}], NEW r,
         \A x \in S : IsPrevious(S, x, f[x]),
         IsPrevious(S, q, f[q]), IsNext(S, q, r)
  PROVE  LET g == IF r = nullptr THEN f ELSE [f EXCEPT ![r] = q]
         IN \A x \in S \cup {q} : IsPrevious(S \cup {q}, x, g[x])
BY PtrPositive DEF IsNext, IsPrevious

(* Unlinking q from its predecessor p (unalloc). *)
LEMMA RemoveNext ==
  ASSUME NEW S \in SUBSET Ptr, NEW q \in Ptr, q \notin S,
         NEW f \in [Ptr -> Ptr \cup {nullptr}], NEW p,
         \A x \in S \cup {q} : IsNext(S \cup {q}, x, f[x]),
         IsPrevious(S, q, p)
  PROVE  LET g == IF p = nullptr THEN f ELSE [f EXCEPT ![p] = f[q]]
         IN \A x \in S : IsNext(S, x, g[x])
BY PtrPositive DEF IsNext, IsPrevious

(* Unlinking q from its successor f[q] (unalloc). *)
LEMMA RemovePrevious ==
  ASSUME NEW S \in SUBSET Ptr, NEW q \in Ptr, q \notin S,
         NEW f \in [Ptr -> Ptr \cup {nullptr}], NEW r,
         \A x \in S \cup {q} : IsPrevious(S \cup {q}, x, f[x]),
         IsNext(S, q, r)
  PROVE  LET g == IF r = nullptr THEN f ELSE [f EXCEPT ![r] = f[q]]
         IN \A x \in S : IsPrevious(S, x, g[x])
BY PtrPositive DEF IsNext, IsPrevious

(* A block is not its own neighbour, so it may be left out or put in.      *)
LEMMA NeighbourOfMember ==
  ASSUME NEW S \in SUBSET Ptr, NEW q \in Ptr, NEW r
  PROVE  /\ IsNext(S \cup {q}, q, r) <=> IsNext(S, q, r)
         /\ IsPrevious(S \cup {q}, q, r) <=> IsPrevious(S, q, r)
BY PtrPositive DEF IsNext, IsPrevious

(* With every other context idle, only c can be working on a block.        *)
LEMMA WorkingAlone ==
  ASSUME NEW c \in Contexts, NEW p, NEW b, NEW L, "idle" \notin L,
         \A d \in Contexts \ {c} : p[d] = "idle"
  PROVE  {b[d] : d \in {e \in Contexts : p[e] \in L}}
           = IF p[c] \in L THEN {b[c]} ELSE {}
OBVIOUS

(***************************************************************************)
(* One active context                                                      *)
(***************************************************************************)

(* What each kind of link should know, when only c is inside the heap.     *)
LEMMA Views ==
  ASSUME NEW c \in Contexts, \A d \in Contexts \ {c} : pc[d] = "idle"
  PROVE  /\ InFirst = live \cup (IF pc[c] = "un_first" THEN {blk[c]} ELSE {})
         /\ InPrevious = live \cup
              (IF pc[c] \in {"publish", "un_first", "un_next"} THEN {blk[c]} ELSE {})
         /\ InNext = live \cup
              (IF pc[c] \in {"link_next", "publish", "un_first", "un_next", "un_prev"}
               THEN {blk[c]} ELSE {})
<1>1. Working({"un_first"}) = IF pc[c] \in {"un_first"} THEN {blk[c]} ELSE {}
  BY WorkingAlone DEF Working
<1>2. Working({"publish", "un_first", "un_next"})
        = IF pc[c] \in {"publish", "un_first", "un_next"} THEN {blk[c]} ELSE {}
  BY WorkingAlone DEF Working
<1>3. Working({"link_next", "publish", "un_first", "un_next", "un_prev"})
        = IF pc[c] \in {"link_next", "publish", "un_first", "un_next", "un_prev"}
          THEN {blk[c]} ELSE {}
  BY WorkingAlone DEF Working
<1> QED BY <1>1, <1>2, <1>3 DEF InFirst, InPrevious, InNext

(* The same after a step. *)
LEMMA ViewsAfter ==
  ASSUME NEW c \in Contexts, \A d \in Contexts \ {c} : pc'[d] = "idle"
  PROVE  /\ InFirst' = live' \cup (IF pc'[c] = "un_first" THEN {blk'[c]} ELSE {})
         /\ InPrevious' = live' \cup
              (IF pc'[c] \in {"publish", "un_first", "un_next"} THEN {blk'[c]} ELSE {})
         /\ InNext' = live' \cup
              (IF pc'[c] \in {"link_next", "publish", "un_first", "un_next", "un_prev"}
               THEN {blk'[c]} ELSE {})
<1>1. Working({"un_first"})' = IF pc'[c] \in {"un_first"} THEN {blk'[c]} ELSE {}
  BY WorkingAlone DEF Working
<1>2. Working({"publish", "un_first", "un_next"})'
        = IF pc'[c] \in {"publish", "un_first", "un_next"} THEN {blk'[c]} ELSE {}
  BY WorkingAlone DEF Working
<1>3. Working({"link_next", "publish", "un_first", "un_next", "un_prev"})'
        = IF pc'[c] \in {"link_next", "publish", "un_first", "un_next", "un_prev"}
          THEN {blk'[c]} ELSE {}
  BY WorkingAlone DEF Working
<1> QED BY <1>1, <1>2, <1>3 DEF InFirst, InPrevious, InNext

OthersIdle(c) == \A d \in Contexts \ {c} : pc[d] = "idle"

(* No operation starts or goes on while another one is under way.  It is   *)
(* all that the proofs ask of the caller's side besides Careful.           *)
Undisturbed == \A c \in Contexts : Call(c) \/ Step(c) => OthersIdle(c)

(* The operations do not overlap. *)
OneAtATime == [][Undisturbed]_vars

(* Operations do not overlap while they run with interrupts disabled, and  *)
(* as long as one context only uses the heap: boot, until fork has made a  *)
(* second task that calls ralloc.  After that heap.c is on its own, and    *)
(* they do.                                                                *)
THEOREM HeapUndisturbed ==
  Masked \/ (\A c, d \in Contexts : c = d) => (Spec => OneAtATime)
<1> SUFFICES ASSUME Masked \/ \A c, d \in Contexts : c = d PROVE Spec => OneAtATime
  OBVIOUS
<1>1. ASSUME NEW c \in Contexts, Call(c) \/ Step(c) PROVE MayRun(c)
  BY <1>1 DEF Call, Step, Ralloc, Unalloc, ChallocShrink, ChallocInPlace, ChallocMove,
     EmptyHeap, FirstGap, ScanGap, TailGap, WriteHeader, LinkPrevious, LinkNext, Publish,
     Throw, CopyAndRelease, UnlinkFirst, UnlinkNext, UnlinkPrevious, At
<1>2. [Next]_vars => [Undisturbed]_vars
  BY <1>1 DEF Undisturbed, OthersIdle, MayRun
<1> QED BY <1>2, PTL DEF Spec, OneAtATime

(* A step of c finds every other context idle, and leaves it so. *)
LEMMA Alone ==
  ASSUME HeapInv, NEW c \in Contexts, OthersIdle(c),
         NEW l \in Labels, pc' = [pc EXCEPT ![c] = l]
  PROVE  /\ \A d \in Contexts \ {c} : pc[d] = "idle" /\ pc'[d] = "idle"
         /\ \A d \in Contexts \ {c} : old[d] = nullptr
         /\ pc' \in [Contexts -> Labels] /\ pc'[c] = l
         /\ OneActive'
BY DEF HeapInv, OthersIdle, TypeOK, OneActive, Knows

(* An idle context knows nothing, so only the active one can be wrong.     *)
LEMMA OnlyActiveKnows ==
  ASSUME HeapInv, NEW c \in Contexts,
         \A d \in Contexts \ {c} : /\ pc'[d] = "idle" /\ old[d] = nullptr
                                   /\ old'[d] = old[d],
         Knows(c)'
  PROVE  \A d \in Contexts : Knows(d)'
BY DEF Knows

(* Labels at which no block is half linked. *)
Settled == {"idle", "ralloc", "scan", "header", "link_prev", "copy", "throw", "halted"}

(* A step that stores nothing keeps the list and the blocks as they are.   *)
LEMMA Quiet ==
  ASSUME HeapInv, NEW c \in Contexts, OthersIdle(c), pc[c] \in Settled,
         NEW l \in Settled, pc' = [pc EXCEPT ![c] = l],
         UNCHANGED <<first, size, previous, next, live, asked>>
  PROVE  ListInOrder' /\ BlocksDisjoint' /\ SizeRecoverable'
<1>0. l \in Labels BY DEF Settled, Labels
<1>1. /\ \A d \in Contexts \ {c} : pc[d] = "idle" /\ pc'[d] = "idle"
      /\ pc'[c] = l
  BY <1>0, Alone
<1>2. InFirst = live /\ InPrevious = live /\ InNext = live
  BY <1>1, Views DEF Settled
<1>3. InFirst' = live' /\ InPrevious' = live' /\ InNext' = live'
  BY <1>1, ViewsAfter DEF Settled
<1>4. ListInOrder'
  BY <1>2, <1>3 DEF HeapInv, ListInOrder, IsFirst, IsNext, IsPrevious
<1>5. BlocksDisjoint' /\ SizeRecoverable'
  BY DEF HeapInv, BlocksDisjoint, SizeRecoverable, InHeap, IsInHeap
<1> QED BY <1>4, <1>5

(* Entering ralloc stores nothing yet. *)
LEMMA RallocPreserves ==
  ASSUME HeapInv, Careful, NEW c \in Contexts, OthersIdle(c), NEW n \in Sizes, Ralloc(c, n)
  PROVE  HeapInv'
<1>1. /\ \A d \in Contexts \ {c} : pc[d] = "idle" /\ pc'[d] = "idle"
      /\ \A d \in Contexts \ {c} : old[d] = nullptr
      /\ pc' \in [Contexts -> Labels] /\ pc'[c] = "ralloc" /\ OneActive'
  BY Alone DEF Ralloc, At, Goto, Labels
<1>2. ListInOrder' /\ BlocksDisjoint' /\ SizeRecoverable'
  BY Quiet DEF Ralloc, At, Goto, Settled
<1>3. TypeOK'
  BY <1>1, HeapAssumption DEF HeapInv, TypeOK, Ralloc
<1>4. Knows(c)'
  BY <1>1 DEF HeapInv, TypeOK, Knows, Ralloc, FitsEmptyHeap
<1>5. \A d \in Contexts : Knows(d)'
  BY <1>1, <1>4, OnlyActiveKnows DEF Ralloc
<1> QED BY <1>1, <1>2, <1>3, <1>5 DEF HeapInv

(* ralloc on a heap without blocks: the whole heap is a real gap. *)
LEMMA EmptyHeapPreserves ==
  ASSUME HeapInv, Careful, NEW c \in Contexts, OthersIdle(c), EmptyHeap(c)
  PROVE  HeapInv'
<1>1. /\ \A d \in Contexts \ {c} : pc[d] = "idle" /\ pc'[d] = "idle"
      /\ \A d \in Contexts \ {c} : old[d] = nullptr
      /\ pc' \in [Contexts -> Labels] /\ pc'[c] = "header" /\ OneActive'
  BY Alone DEF EmptyHeap, At, Goto, Labels
<1>2. ListInOrder' /\ BlocksDisjoint' /\ SizeRecoverable'
  BY Quiet DEF EmptyHeap, At, Goto, Settled
<1>3. GapAt(NoGap.size, HeapStart, nullptr, nullptr) \in Gap
  BY HeapAssumption DEF NoGap, GapAt, Gap, Ptr, nullptr
<1>4. TypeOK'
  BY <1>1, <1>3 DEF HeapInv, TypeOK, EmptyHeap
<1>5. live = {}
  <2>1. InFirst = live BY <1>1, Views DEF EmptyHeap, At
  <2> QED BY <2>1, PtrPositive DEF HeapInv, TypeOK, ListInOrder, IsFirst, EmptyHeap
<1>6. RealGap(best[c], want[c])'
  BY <1>5, HeapAssumption
  DEF HeapInv, TypeOK, Knows, EmptyHeap, At, FitsEmptyHeap, RealGap, GapAt, NoGap, nullptr,
      IsPrevious, IsNext
<1>7. Knows(c)'
  BY <1>1, <1>6 DEF HeapInv, Knows, EmptyHeap, At
<1>8. \A d \in Contexts : Knows(d)'
  BY <1>1, <1>7, OnlyActiveKnows DEF EmptyHeap
<1> QED BY <1>1, <1>2, <1>4, <1>8 DEF HeapInv

(***************************************************************************)
(* The search                                                              *)
(***************************************************************************)

(* A gap the search could take really holds n bytes and a header. *)
Takes(g, n) == g.size >= n + HeaderSize /\ g.size < HeapEnd - HeapStart => RealGap(g, n)

(* The search only ever keeps real gaps. *)
LEMMA ConsiderReal ==
  ASSUME NEW b \in Gap, NEW g \in Gap, NEW n \in Nat, FitsEmptyHeap(n),
         b.size <= HeapEnd - HeapStart, b.address # nullptr => RealGap(b, n),
         Takes(g, n)
  PROVE  /\ Consider(b, n, g) \in Gap
         /\ Consider(b, n, g).size <= HeapEnd - HeapStart
         /\ Consider(b, n, g).address # nullptr => RealGap(Consider(b, n, g), n)
<1>1. Dword(n + HeaderSize) = n + HeaderSize
  BY DwordSmall, HeapAssumption DEF FitsEmptyHeap
<1>2. b.size \in Nat /\ g.size \in Nat
  BY DEF Gap
<1>3. CASE Consider(b, n, g) = b
  BY <1>3
<1>4. CASE Consider(b, n, g) = g /\ g.size >= n + HeaderSize /\ g.size < b.size
  <2>1. g.size < HeapEnd - HeapStart
    BY <1>2, <1>4, HeapAssumption
  <2> QED BY <1>2, <1>4, <2>1, HeapAssumption DEF Takes
<1> QED BY <1>1, <1>3, <1>4 DEF Consider

(* Blocks in use are inside the heap and have a size. *)
LEMMA LiveBlocks ==
  ASSUME HeapInv, NEW p \in live
  PROVE  /\ p \in Ptr /\ p \in Int /\ p # nullptr /\ size[p] \in Nat
         /\ next[p] \in Ptr \cup {nullptr}
         /\ HeapStart + HeaderSize <= p /\ p < HeapEnd /\ p + size[p] <= HeapEnd
         /\ p + size[p] \in Ptr
BY HeapAssumption, PtrPositive
DEF HeapInv, TypeOK, BlocksDisjoint, InHeap, IsInHeap, Ptr

(* The gap in front of the first block. *)
LEMMA FirstGapReal ==
  ASSUME HeapInv, NEW n \in Nat, IsFirst(live, first), first # nullptr
  PROVE  LET g == GapAt(Dword(first - HeapStart - HeaderSize), HeapStart, nullptr, first)
         IN g \in Gap /\ Takes(g, n)
<1> DEFINE free == first - HeapStart - HeaderSize
           g == GapAt(Dword(free), HeapStart, nullptr, first)
<1>1. first \in live BY DEF IsFirst
<1>2. first \in Int /\ HeapStart + HeaderSize <= first /\ first < HeapEnd /\ first \in Ptr
  BY <1>1, LiveBlocks
<1>3. Dword(free) = free
  BY <1>2, DwordSmall, HeapAssumption
<1>4. g \in Gap
  BY <1>2, <1>3, HeapAssumption DEF GapAt, Gap, Ptr
<1>5. ASSUME free >= n + HeaderSize PROVE RealGap(g, n)
  <2>1. \A s \in live : s \in Int /\ HeapStart + HeaderSize <= s
    BY LiveBlocks
  <2>2. IsPrevious(live, HeapStart + HeaderSize, nullptr)
    BY <2>1 DEF IsPrevious
  <2>3. IsNext(live, HeapStart + HeaderSize, first)
    BY <1>1, <1>2, <1>5, <2>1, HeapAssumption DEF IsNext, IsFirst
  <2>4. HeapStart + HeaderSize \notin live
    BY <1>1, <1>2, <1>5, <2>1, HeapAssumption DEF IsFirst
  <2> QED BY <1>2, <1>5, <2>2, <2>3, <2>4, HeapAssumption DEF RealGap, GapAt, nullptr
<1>6. Takes(g, n)
  BY <1>3, <1>5 DEF Takes, GapAt
<1> QED BY <1>4, <1>6

(* The gap between a block and its successor. *)
LEMMA InnerGapReal ==
  ASSUME HeapInv, NEW n \in Nat, NEW p \in live, NEW q, IsNext(live, p, q), q # nullptr
  PROVE  LET g == GapAt(Dword(q - p - size[p] - HeaderSize), p + size[p], p, q)
         IN g \in Gap /\ Takes(g, n)
<1> DEFINE free == q - p - size[p] - HeaderSize
           g == GapAt(Dword(free), p + size[p], p, q)
<1>1. q \in live /\ p < q BY DEF IsNext
<1>2. /\ p \in Int /\ p \in Ptr /\ size[p] \in Nat /\ p + size[p] \in Ptr
      /\ HeapStart + HeaderSize <= p /\ p # nullptr
      /\ q \in Int /\ q \in Ptr /\ q < HeapEnd
  BY <1>1, LiveBlocks
<1>3. p + size[p] <= q - HeaderSize
  BY <1>1 DEF HeapInv, BlocksDisjoint
<1>4. Dword(free) = free
  BY <1>2, <1>3, DwordSmall, HeapAssumption
<1>5. g \in Gap
  BY <1>2, <1>3, <1>4, HeapAssumption DEF GapAt, Gap
<1>6. ASSUME free >= n + HeaderSize PROVE RealGap(g, n)
  <2>1. \A s \in live : s \in Int BY LiveBlocks
  <2>2. IsPrevious(live, p + size[p] + HeaderSize, p)
    BY <1>1, <1>2, <1>6, <2>1, HeapAssumption DEF IsPrevious, IsNext
  <2>3. IsNext(live, p + size[p] + HeaderSize, q)
    BY <1>1, <1>2, <1>6, <2>1, HeapAssumption DEF IsPrevious, IsNext
  <2>4. p + size[p] + HeaderSize \notin live
    BY <1>1, <1>2, <1>6, <2>1, HeapAssumption DEF IsNext
  <2> QED BY <1>2, <1>6, <2>2, <2>3, <2>4, HeapAssumption DEF RealGap, GapAt, nullptr
<1>7. Takes(g, n)
  BY <1>4, <1>6 DEF Takes, GapAt
<1> QED BY <1>5, <1>7

(* The gap behind the last block; when less than a header is left, the     *)
(* difference wraps and is too large to be taken.                          *)
LEMMA LastGapReal ==
  ASSUME HeapInv, NEW n \in Nat, NEW p \in live, IsNext(live, p, nullptr)
  PROVE  LET g == GapAt(Dword(HeapEnd - p - size[p] - HeaderSize), p + size[p], p, nullptr)
         IN g \in Gap /\ Takes(g, n)
<1> DEFINE free == HeapEnd - p - size[p] - HeaderSize
           g == GapAt(Dword(free), p + size[p], p, nullptr)
<1>1. /\ p \in Int /\ p \in Ptr /\ size[p] \in Nat /\ p + size[p] \in Ptr
      /\ HeapStart + HeaderSize <= p /\ p # nullptr /\ p + size[p] <= HeapEnd
  BY LiveBlocks
<1>2. \A s \in live : s \in Int /\ s <= p
  BY LiveBlocks, PtrPositive DEF IsNext, HeapInv, TypeOK
<1>3. free \in Int BY <1>1, HeapAssumption
<1>4. g \in Gap
  BY <1>1, <1>3, DwordType DEF GapAt, Gap
<1>5. ASSUME free >= n + HeaderSize PROVE RealGap(g, n)
  <2>1. IsPrevious(live, p + size[p] + HeaderSize, p)
    BY <1>1, <1>2, HeapAssumption DEF IsPrevious
  <2>2. IsNext(live, p + size[p] + HeaderSize, nullptr)
    BY <1>1, <1>2, HeapAssumption DEF IsNext
  <2>3. p + size[p] + HeaderSize \notin live
    BY <1>1, <1>2, HeapAssumption
  <2> QED BY <1>1, <1>5, <2>1, <2>2, <2>3, HeapAssumption DEF RealGap, GapAt, nullptr
<1>6. CASE free >= 0
  <2>1. Dword(free) = free BY <1>1, <1>3, <1>6, DwordSmall, HeapAssumption
  <2> QED BY <1>4, <1>5, <2>1 DEF Takes, GapAt
<1>7. CASE free < 0
  <2>1. Dword(free) = free + Word
    BY <1>1, <1>3, <1>7, DwordWraps, HeapAssumption
  <2>2. ~ (g.size < HeapEnd - HeapStart)
    BY <1>1, <2>1, HeapAssumption DEF GapAt
  <2> QED BY <1>4, <2>2 DEF Takes
<1> QED BY <1>3, <1>6, <1>7

(* ralloc starts its search with the gap in front of the first block. *)
LEMMA FirstGapPreserves ==
  ASSUME HeapInv, Careful, NEW c \in Contexts, OthersIdle(c), FirstGap(c)
  PROVE  HeapInv'
<1>1. /\ \A d \in Contexts \ {c} : pc[d] = "idle" /\ pc'[d] = "idle"
      /\ \A d \in Contexts \ {c} : old[d] = nullptr
      /\ pc' \in [Contexts -> Labels] /\ pc'[c] = "scan" /\ OneActive'
  BY Alone DEF FirstGap, At, Goto, Labels
<1>2. ListInOrder' /\ BlocksDisjoint' /\ SizeRecoverable'
  BY Quiet DEF FirstGap, At, Goto, Settled
<1>3. IsFirst(live, first) /\ first \in live
  BY <1>1, Views DEF FirstGap, At, HeapInv, ListInOrder, IsFirst
<1> DEFINE g == GapAt(Dword(first - HeapStart - HeaderSize), HeapStart, nullptr, first)
           b == Consider(NoGap, want[c], g)
<1>4. want[c] \in Nat /\ want[c] \in Sizes /\ FitsEmptyHeap(want[c])
  BY DEF HeapInv, TypeOK, Knows, FirstGap, At
<1>5. g \in Gap /\ Takes(g, want[c])
  BY <1>3, <1>4, FirstGapReal DEF FirstGap
<1>6. NoGap \in Gap /\ NoGap.size <= HeapEnd - HeapStart /\ NoGap.address = nullptr
  BY HeapAssumption DEF NoGap, Gap
<1>7. /\ b \in Gap /\ b.size <= HeapEnd - HeapStart
      /\ b.address # nullptr => RealGap(b, want[c])
  BY <1>4, <1>5, <1>6, ConsiderReal
<1>8. /\ best' = [best EXCEPT ![c] = b] /\ cur' = [cur EXCEPT ![c] = first]
      /\ nxt' = [nxt EXCEPT ![c] = next[first]]
      /\ UNCHANGED <<first, size, previous, next, want, blk, old, live, asked>>
  BY DEF FirstGap
<1>9. first \in Ptr /\ next[first] \in Ptr \cup {nullptr}
  BY <1>3, LiveBlocks
<1>10. TypeOK'
  BY <1>1, <1>7, <1>8, <1>9 DEF HeapInv, TypeOK
<1>11. Searching(c)'
  BY <1>3, <1>7, <1>8 DEF HeapInv, TypeOK, Searching, RealGap
<1>12. Knows(c)'
  BY <1>1, <1>4, <1>8, <1>11 DEF HeapInv, Knows, FitsEmptyHeap
<1>13. \A d \in Contexts : Knows(d)'
  BY <1>1, <1>8, <1>12, OnlyActiveKnows
<1> QED BY <1>1, <1>2, <1>10, <1>13 DEF HeapInv

(* One turn of ralloc's loop looks at one more real gap. *)
LEMMA ScanGapPreserves ==
  ASSUME HeapInv, Careful, NEW c \in Contexts, OthersIdle(c), ScanGap(c)
  PROVE  HeapInv'
<1>1. /\ \A d \in Contexts \ {c} : pc[d] = "idle" /\ pc'[d] = "idle"
      /\ \A d \in Contexts \ {c} : old[d] = nullptr
      /\ pc' \in [Contexts -> Labels] /\ pc'[c] = "scan" /\ OneActive'
  BY Alone DEF ScanGap, At, Goto, Labels
<1>2. ListInOrder' /\ BlocksDisjoint' /\ SizeRecoverable'
  BY Quiet DEF ScanGap, At, Goto, Settled
<1>3. want[c] \in Nat /\ want[c] \in Sizes /\ FitsEmptyHeap(want[c]) /\ Searching(c)
  BY DEF HeapInv, TypeOK, Knows, ScanGap, At
<1>4. cur[c] \in live /\ IsNext(live, cur[c], nxt[c]) /\ nxt[c] # nullptr /\ nxt[c] \in live
  BY <1>1, <1>3, Views DEF ScanGap, At, HeapInv, ListInOrder, Searching, IsNext
<1> DEFINE g == GapAt(Dword(nxt[c] - cur[c] - size[cur[c]] - HeaderSize),
                      cur[c] + size[cur[c]], cur[c], nxt[c])
           b == Consider(best[c], want[c], g)
<1>5. g \in Gap /\ Takes(g, want[c])
  BY <1>3, <1>4, InnerGapReal
<1>6. /\ best[c] \in Gap /\ best[c].size <= HeapEnd - HeapStart
      /\ best[c].address # nullptr => RealGap(best[c], want[c])
  BY <1>3 DEF HeapInv, TypeOK, Searching
<1>7. /\ b \in Gap /\ b.size <= HeapEnd - HeapStart
      /\ b.address # nullptr => RealGap(b, want[c])
  BY <1>3, <1>5, <1>6, ConsiderReal
<1>8. /\ best' = [best EXCEPT ![c] = b] /\ cur' = [cur EXCEPT ![c] = nxt[c]]
      /\ nxt' = [nxt EXCEPT ![c] = next[nxt[c]]]
      /\ UNCHANGED <<first, size, previous, next, want, blk, old, live, asked>>
  BY DEF ScanGap
<1>9. nxt[c] \in Ptr /\ next[nxt[c]] \in Ptr \cup {nullptr}
  BY <1>4, LiveBlocks
<1>10. TypeOK'
  BY <1>1, <1>7, <1>8, <1>9 DEF HeapInv, TypeOK
<1>11. Searching(c)'
  BY <1>4, <1>7, <1>8 DEF HeapInv, TypeOK, Searching, RealGap
<1>12. Knows(c)'
  BY <1>1, <1>3, <1>8, <1>11 DEF HeapInv, Knows, FitsEmptyHeap
<1>13. \A d \in Contexts : Knows(d)'
  BY <1>1, <1>8, <1>12, OnlyActiveKnows
<1> QED BY <1>1, <1>2, <1>10, <1>13 DEF HeapInv

(* The end of ralloc's search: whatever it decides on is a real gap. *)
LEMMA TailGapPreserves ==
  ASSUME HeapInv, Careful, NEW c \in Contexts, OthersIdle(c), TailGap(c)
  PROVE  HeapInv'
<1> DEFINE b == Consider(best[c], want[c], LastGap(c))
           l == IF b.address # nullptr THEN "header" ELSE "throw"
<1>0. /\ At(c, "scan") /\ nxt[c] = nullptr /\ pc' = [pc EXCEPT ![c] = l]
      /\ best' = [best EXCEPT ![c] = b]
      /\ UNCHANGED <<first, size, previous, next, want, cur, nxt, blk, old, live, asked>>
  BY DEF TailGap, Goto
<1>1. /\ \A d \in Contexts \ {c} : pc[d] = "idle" /\ pc'[d] = "idle"
      /\ \A d \in Contexts \ {c} : old[d] = nullptr
      /\ pc' \in [Contexts -> Labels] /\ pc'[c] = l /\ OneActive'
  <2>1. l \in Labels BY DEF Labels
  <2> QED BY <1>0, <2>1, Alone DEF At
<1>2. ListInOrder' /\ BlocksDisjoint' /\ SizeRecoverable'
  <2>1. l \in Settled BY DEF Settled
  <2>2. pc[c] \in Settled BY <1>0 DEF At, Settled
  <2> QED BY <1>0, <2>1, <2>2, Quiet DEF At
<1>3. want[c] \in Nat /\ want[c] \in Sizes /\ FitsEmptyHeap(want[c]) /\ Searching(c)
  BY <1>0 DEF HeapInv, TypeOK, Knows, At
<1>4. cur[c] \in live /\ IsNext(live, cur[c], nullptr)
  <2>1. InNext = live
    <3>1. pc[c] = "scan" BY <1>0 DEF At
    <3> QED BY <1>1, <3>1, Views
  <2> QED BY <1>0, <1>3, <2>1 DEF HeapInv, ListInOrder, Searching
<1>5. LastGap(c) \in Gap /\ Takes(LastGap(c), want[c])
  BY <1>3, <1>4, LastGapReal DEF LastGap
<1>6. /\ best[c] \in Gap /\ best[c].size <= HeapEnd - HeapStart
      /\ best[c].address # nullptr => RealGap(best[c], want[c])
  BY <1>3 DEF HeapInv, TypeOK, Searching
<1>7. b \in Gap /\ (b.address # nullptr => RealGap(b, want[c]))
  BY <1>3, <1>5, <1>6, ConsiderReal
<1>8. TypeOK'
  BY <1>0, <1>1, <1>7 DEF HeapInv, TypeOK
<1>9. pc'[c] = "header" => RealGap(best[c], want[c])'
  BY <1>0, <1>1, <1>7 DEF HeapInv, TypeOK, RealGap
<1>10. Knows(c)'
  BY <1>0, <1>1, <1>3, <1>9 DEF HeapInv, Knows
<1>11. \A d \in Contexts : Knows(d)'
  BY <1>0, <1>1, <1>10, OnlyActiveKnows
<1> QED BY <1>1, <1>2, <1>8, <1>11 DEF HeapInv

(* The allocation exception leaves the list alone. *)
LEMMA ThrowPreserves ==
  ASSUME HeapInv, Careful, NEW c \in Contexts, OthersIdle(c), Throw(c)
  PROVE  HeapInv'
<1> DEFINE l == IF HandlerHalts THEN "halted"
                ELSE IF old[c] = nullptr THEN "idle" ELSE "copy"
<1>0. /\ At(c, "throw") /\ pc' = [pc EXCEPT ![c] = l] /\ DropScan(c)
      /\ UNCHANGED <<first, size, previous, next, blk, old, live, asked>>
  BY DEF Throw, Goto
<1>1. /\ \A d \in Contexts \ {c} : pc[d] = "idle" /\ pc'[d] = "idle"
      /\ \A d \in Contexts \ {c} : old[d] = nullptr
      /\ pc' \in [Contexts -> Labels] /\ pc'[c] = l /\ OneActive'
  <2>1. l \in Labels BY DEF Labels
  <2> QED BY <1>0, <2>1, Alone DEF At
<1>2. ListInOrder' /\ BlocksDisjoint' /\ SizeRecoverable'
  <2>1. l \in Settled BY DEF Settled
  <2>2. pc[c] \in Settled BY <1>0 DEF At, Settled
  <2> QED BY <1>0, <2>1, <2>2, Quiet DEF At
<1>3. NoGap \in Gap
  BY HeapAssumption DEF NoGap, Gap
<1>4. TypeOK'
  BY <1>0, <1>1, <1>3 DEF HeapInv, TypeOK, DropScan
<1>5. Knows(c)'
  BY <1>0, <1>1 DEF HeapInv, Knows
<1>6. \A d \in Contexts : Knows(d)'
  BY <1>0, <1>1, <1>5, OnlyActiveKnows
<1> QED BY <1>1, <1>2, <1>4, <1>6 DEF HeapInv

(***************************************************************************)
(* allocate_space and the end of ralloc                                    *)
(***************************************************************************)

(* The place of the new block is an address between its neighbours. *)
LEMMA RealGapPlace ==
  ASSUME HeapInv, NEW b \in Gap, NEW n \in Nat, RealGap(b, n)
  PROVE  /\ b.address \in Int /\ b.address + HeaderSize \in Ptr
         /\ HeapStart <= b.address
         /\ b.previous # nullptr => b.previous \in live
         /\ b.next # nullptr => b.next \in live
BY HeapAssumption DEF Gap, RealGap, Ptr, IsPrevious, IsNext

(* allocate_space writes the header where nobody else has a block. *)
LEMMA WriteHeaderPreserves ==
  ASSUME HeapInv, Careful, NEW c \in Contexts, OthersIdle(c), WriteHeader(c)
  PROVE  HeapInv'
<1> DEFINE q == best[c].address + HeaderSize
<1>0. /\ size' = [size EXCEPT ![q] = want[c]]
      /\ previous' = [previous EXCEPT ![q] = best[c].previous]
      /\ next' = [next EXCEPT ![q] = best[c].next]
      /\ blk' = [blk EXCEPT ![c] = q]
      /\ UNCHANGED <<first, want, cur, nxt, best, old, live, asked>>
  BY DEF WriteHeader
<1>1. /\ \A d \in Contexts \ {c} : pc[d] = "idle" /\ pc'[d] = "idle"
      /\ \A d \in Contexts \ {c} : old[d] = nullptr
      /\ pc' \in [Contexts -> Labels] /\ pc'[c] = "link_prev" /\ OneActive'
  BY Alone DEF WriteHeader, At, Goto, Labels
<1>2. /\ want[c] \in Nat /\ best[c] \in Gap /\ RealGap(best[c], want[c])
      /\ best[c].previous \in Ptr \cup {nullptr} /\ best[c].next \in Ptr \cup {nullptr}
  BY DEF HeapInv, TypeOK, Knows, WriteHeader, At, Gap
<1>3. q \in Ptr /\ q \notin live
  BY <1>2, RealGapPlace DEF RealGap
<1>4. TypeOK'
  BY <1>0, <1>1, <1>2, <1>3 DEF HeapInv, TypeOK
<1>5. \A p \in live : p \in Ptr /\ p # q
  BY <1>3 DEF HeapInv, TypeOK
<1>6. \A p \in live : size'[p] = size[p] /\ next'[p] = next[p] /\ previous'[p] = previous[p]
  BY <1>0, <1>5 DEF HeapInv, TypeOK
<1>7. ListInOrder'
  <2>1. InFirst = live /\ InPrevious = live /\ InNext = live
    BY <1>1, Views DEF WriteHeader, At
  <2>2. InFirst' = live /\ InPrevious' = live /\ InNext' = live
    BY <1>0, <1>1, ViewsAfter
  <2> QED BY <1>0, <1>6, <2>1, <2>2 DEF HeapInv, ListInOrder, IsFirst, IsNext, IsPrevious
<1>8. BlocksDisjoint' /\ SizeRecoverable'
  BY <1>0, <1>6 DEF HeapInv, BlocksDisjoint, SizeRecoverable, InHeap, IsInHeap
<1>9. RealGap(best[c], want[c])'
  BY <1>0, <1>2, <1>6, RealGapPlace DEF RealGap
<1>10. HeaderWritten(c)'
  BY <1>0, <1>3, <1>9 DEF HeapInv, TypeOK, HeaderWritten
<1>11. Knows(c)'
  BY <1>0, <1>1, <1>10 DEF HeapInv, Knows, WriteHeader, At
<1>12. \A d \in Contexts : Knows(d)'
  BY <1>0, <1>1, <1>11, OnlyActiveKnows
<1> QED BY <1>1, <1>4, <1>7, <1>8, <1>12 DEF HeapInv

(* allocate_space makes the predecessor point at the new block. *)
LEMMA LinkPreviousPreserves ==
  ASSUME HeapInv, Careful, NEW c \in Contexts, OthersIdle(c), LinkPrevious(c)
  PROVE  HeapInv'
<1> DEFINE q == blk[c]
           p == best[c].previous
<1>0. /\ next' = IF p = nullptr THEN next ELSE [next EXCEPT ![p] = q]
      /\ UNCHANGED <<first, size, previous, want, cur, nxt, best, blk, old, live, asked>>
  BY DEF LinkPrevious
<1>1. /\ \A d \in Contexts \ {c} : pc[d] = "idle" /\ pc'[d] = "idle"
      /\ \A d \in Contexts \ {c} : old[d] = nullptr
      /\ pc' \in [Contexts -> Labels] /\ pc'[c] = "link_next" /\ OneActive'
  BY Alone DEF LinkPrevious, At, Goto, Labels
<1>2. /\ want[c] \in Nat /\ best[c] \in Gap /\ HeaderWritten(c)
      /\ RealGap(best[c], want[c]) /\ q = best[c].address + HeaderSize
  BY DEF HeapInv, TypeOK, Knows, LinkPrevious, At, HeaderWritten
<1>3. q \in Ptr /\ q \notin live /\ (p # nullptr => p \in live)
  BY <1>2, RealGapPlace DEF RealGap
<1>4. live \in SUBSET Ptr /\ next \in [Ptr -> Ptr \cup {nullptr}]
  BY DEF HeapInv, TypeOK
<1>5. TypeOK'
  BY <1>0, <1>1, <1>3 DEF HeapInv, TypeOK
<1>6. ListInOrder'
  <2>1. InFirst = live /\ InPrevious = live /\ InNext = live
    BY <1>1, Views DEF LinkPrevious, At
  <2>2. InFirst' = live /\ InPrevious' = live /\ InNext' = live \cup {q}
    BY <1>0, <1>1, ViewsAfter
  <2>3. IsNext(live, q, next[q]) /\ IsPrevious(live, q, p)
    BY <1>2 DEF HeaderWritten, RealGap
  <2>4. \A x \in live : IsNext(live, x, next[x])
    BY <2>1 DEF HeapInv, ListInOrder
  <2>5. \A x \in live \cup {q} : IsNext(live \cup {q}, x, next'[x])
    BY <1>0, <1>3, <1>4, <2>3, <2>4, InsertNext
  <2>6. IsFirst(InFirst', first') /\ \A x \in InPrevious' : IsPrevious(InPrevious', x, previous'[x])
    BY <1>0, <2>1, <2>2 DEF HeapInv, ListInOrder
  <2> QED BY <2>2, <2>5, <2>6 DEF ListInOrder, IsFirst, IsNext, IsPrevious
<1>7. BlocksDisjoint' /\ SizeRecoverable'
  BY <1>0 DEF HeapInv, BlocksDisjoint, SizeRecoverable, InHeap, IsInHeap
<1>8. next'[q] = next[q]
  BY <1>0, <1>3, <1>4
<1>9. HeaderWritten(c)'
  BY <1>0, <1>2, <1>8 DEF HeaderWritten, RealGap
<1>10. Knows(c)'
  BY <1>0, <1>1, <1>9 DEF HeapInv, Knows, LinkPrevious, At
<1>11. \A d \in Contexts : Knows(d)'
  BY <1>0, <1>1, <1>10, OnlyActiveKnows
<1> QED BY <1>1, <1>5, <1>6, <1>7, <1>11 DEF HeapInv

(* allocate_space makes the successor point back at the new block. *)
LEMMA LinkNextPreserves ==
  ASSUME HeapInv, Careful, NEW c \in Contexts, OthersIdle(c), LinkNext(c)
  PROVE  HeapInv'
<1> DEFINE q == blk[c]
           r == best[c].next
<1>0. /\ previous' = IF r = nullptr THEN previous ELSE [previous EXCEPT ![r] = q]
      /\ UNCHANGED <<first, size, next, want, cur, nxt, best, blk, old, live, asked>>
  BY DEF LinkNext
<1>1. /\ \A d \in Contexts \ {c} : pc[d] = "idle" /\ pc'[d] = "idle"
      /\ \A d \in Contexts \ {c} : old[d] = nullptr
      /\ pc' \in [Contexts -> Labels] /\ pc'[c] = "publish" /\ OneActive'
  BY Alone DEF LinkNext, At, Goto, Labels
<1>2. /\ want[c] \in Nat /\ best[c] \in Gap /\ HeaderWritten(c)
      /\ RealGap(best[c], want[c]) /\ q = best[c].address + HeaderSize
  BY DEF HeapInv, TypeOK, Knows, LinkNext, At, HeaderWritten
<1>3. q \in Ptr /\ q \notin live /\ (r # nullptr => r \in live)
  BY <1>2, RealGapPlace DEF RealGap
<1>4. live \in SUBSET Ptr /\ previous \in [Ptr -> Ptr \cup {nullptr}]
  BY DEF HeapInv, TypeOK
<1>5. TypeOK'
  BY <1>0, <1>1, <1>3 DEF HeapInv, TypeOK
<1>6. ListInOrder'
  <2>1. InFirst = live /\ InPrevious = live /\ InNext = live \cup {q}
    BY <1>1, Views DEF LinkNext, At
  <2>2. InFirst' = live /\ InPrevious' = live \cup {q} /\ InNext' = live \cup {q}
    BY <1>0, <1>1, ViewsAfter
  <2>3. IsPrevious(live, q, previous[q]) /\ IsNext(live, q, r)
    BY <1>2 DEF HeaderWritten, RealGap
  <2>4. \A x \in live : IsPrevious(live, x, previous[x])
    BY <2>1 DEF HeapInv, ListInOrder
  <2>5. \A x \in live \cup {q} : IsPrevious(live \cup {q}, x, previous'[x])
    BY <1>0, <1>3, <1>4, <2>3, <2>4, InsertPrevious
  <2>6. IsFirst(InFirst', first') /\ \A x \in InNext' : IsNext(InNext', x, next'[x])
    BY <1>0, <2>1, <2>2 DEF HeapInv, ListInOrder
  <2> QED BY <2>2, <2>5, <2>6 DEF ListInOrder, IsFirst, IsNext, IsPrevious
<1>7. BlocksDisjoint' /\ SizeRecoverable'
  BY <1>0 DEF HeapInv, BlocksDisjoint, SizeRecoverable, InHeap, IsInHeap
<1>8. previous'[q] = previous[q]
  BY <1>0, <1>3, <1>4
<1>9. HeaderWritten(c)'
  BY <1>0, <1>2, <1>8 DEF HeaderWritten, RealGap
<1>10. Knows(c)'
  BY <1>0, <1>1, <1>9 DEF HeapInv, Knows, LinkNext, At
<1>11. \A d \in Contexts : Knows(d)'
  BY <1>0, <1>1, <1>10, OnlyActiveKnows
<1> QED BY <1>1, <1>5, <1>6, <1>7, <1>11 DEF HeapInv

(* ralloc returns: the block joins those in use, in order and apart. *)
LEMMA PublishPreserves ==
  ASSUME HeapInv, Careful, NEW c \in Contexts, OthersIdle(c), Publish(c)
  PROVE  HeapInv'
<1> DEFINE q == blk[c]
           b == best[c]
           l == IF old[c] = nullptr THEN "idle" ELSE "copy"
<1>0. /\ At(c, "publish") /\ pc' = [pc EXCEPT ![c] = l] /\ DropScan(c)
      /\ first' = IF b.address = HeapStart THEN q ELSE first
      /\ live' = live \cup {q}
      /\ asked' = [asked EXCEPT ![q] = want[c]]
      /\ blk' = [blk EXCEPT ![c] = nullptr]
      /\ UNCHANGED <<size, previous, next, old>>
  BY DEF Publish, Goto
<1>1. /\ \A d \in Contexts \ {c} : pc[d] = "idle" /\ pc'[d] = "idle"
      /\ \A d \in Contexts \ {c} : old[d] = nullptr
      /\ pc' \in [Contexts -> Labels] /\ pc'[c] = l /\ OneActive'
  <2>1. l \in Labels BY DEF Labels
  <2> QED BY <1>0, <2>1, Alone DEF At
<1>2. /\ want[c] \in Nat /\ b \in Gap /\ HeaderWritten(c)
      /\ RealGap(b, want[c]) /\ q = b.address + HeaderSize /\ size[q] = want[c]
  BY <1>0 DEF HeapInv, TypeOK, Knows, At, HeaderWritten
<1>3. /\ q \in Ptr /\ q \in Int /\ q \notin live
      /\ b.address \in Int /\ HeapStart <= b.address
      /\ (b.previous # nullptr => b.previous \in live)
      /\ (b.next # nullptr => b.next \in live)
  BY <1>2, RealGapPlace, PtrPositive DEF RealGap
<1>4. \A s \in live : /\ s \in Ptr /\ s \in Int /\ s # nullptr /\ size[s] \in Nat
                      /\ HeapStart + HeaderSize <= s
  BY LiveBlocks
<1>5. NoGap \in Gap
  BY HeapAssumption DEF NoGap, Gap
<1>6. TypeOK'
  BY <1>0, <1>1, <1>2, <1>3, <1>5 DEF HeapInv, TypeOK, DropScan
<1>7. ListInOrder'
  <2>1. InFirst = live /\ InPrevious = live \cup {q} /\ InNext = live \cup {q}
    <3>1. pc[c] = "publish" BY <1>0 DEF At
    <3> QED BY <1>1, <3>1, Views
  <2>2. InFirst' = live \cup {q} /\ InPrevious' = live \cup {q} /\ InNext' = live \cup {q}
    BY <1>0, <1>1, ViewsAfter
  <2>3. IsFirst(live, first)
    BY <2>1 DEF HeapInv, ListInOrder
  <2>4. IsFirst(live \cup {q}, first')
    <3>1. CASE b.address = HeapStart
      BY <1>0, <1>2, <1>3, <1>4, <3>1, HeapAssumption DEF IsFirst
    <3>2. CASE b.address # HeapStart
      <4>1. b.previous \in live /\ b.previous < q
        BY <1>2, <1>3, <1>4, <3>2 DEF RealGap, IsPrevious
      <4>2. first \in live /\ first <= b.previous
        BY <2>3, <4>1 DEF IsFirst
      <4> QED BY <1>0, <1>3, <1>4, <2>3, <3>2, <4>1, <4>2 DEF IsFirst
    <3> QED BY <3>1, <3>2
  <2> QED BY <1>0, <2>1, <2>2, <2>4 DEF HeapInv, ListInOrder, IsNext, IsPrevious, IsFirst
<1>8. BlocksDisjoint'
  <2>1. q + size[q] <= HeapEnd /\ HeapStart + HeaderSize <= q /\ q < HeapEnd
    BY <1>2, <1>3, HeapAssumption DEF RealGap
  <2>2. \A s \in live : s < q => s + size[s] <= q - HeaderSize
    <3> SUFFICES ASSUME NEW s \in live, s < q PROVE s + size[s] <= b.address
      BY <1>2, <1>3, <1>4, HeapAssumption
    <3>1. b.previous # nullptr /\ b.previous \in live /\ s <= b.previous
      BY <1>2, <1>3, <1>4 DEF RealGap, IsPrevious
    <3>2. b.previous + size[b.previous] <= b.address
      BY <1>2, <3>1 DEF RealGap
    <3>3. CASE s = b.previous BY <3>2, <3>3
    <3>4. CASE s < b.previous
      <4>1. s + size[s] <= b.previous - HeaderSize
        BY <3>1, <3>4 DEF HeapInv, BlocksDisjoint
      <4> QED BY <1>3, <1>4, <3>1, <3>2, <4>1, HeapAssumption
    <3> QED BY <1>4, <3>1, <3>3, <3>4
  <2>3. \A s \in live : q < s => q + size[q] <= s - HeaderSize
    <3> SUFFICES ASSUME NEW s \in live, q < s PROVE q + size[q] <= s - HeaderSize
      OBVIOUS
    <3>1. b.next # nullptr /\ b.next \in live /\ b.next <= s
      BY <1>2, <1>3, <1>4 DEF RealGap, IsNext
    <3>2. q + size[q] <= b.next - HeaderSize
      BY <1>2, <3>1 DEF RealGap
    <3> QED BY <1>2, <1>3, <1>4, <3>1, <3>2, HeapAssumption
  <2>4. \A x \in live \cup {q} : size'[x] = size[x] /\ InHeap(x)
    BY <1>0, <1>3, <2>1, HeapAssumption DEF HeapInv, BlocksDisjoint, InHeap, IsInHeap
  <2>5. \A x, y \in live \cup {q} : x < y => x + size[x] <= y - HeaderSize
    BY <1>3, <2>2, <2>3 DEF HeapInv, BlocksDisjoint
  <2> QED BY <1>0, <2>4, <2>5 DEF BlocksDisjoint, InHeap, IsInHeap
<1>9. SizeRecoverable'
  BY <1>0, <1>2, <1>3, <1>4 DEF HeapInv, TypeOK, SizeRecoverable
<1>10. Knows(c)'
  BY <1>0, <1>1 DEF HeapInv, Knows
<1>11. \A d \in Contexts : Knows(d)'
  BY <1>0, <1>1, <1>10, OnlyActiveKnows
<1> QED BY <1>1, <1>6, <1>7, <1>8, <1>9, <1>11 DEF HeapInv

(***************************************************************************)
(* unalloc                                                                 *)
(***************************************************************************)

(* Giving a block up (unalloc, and challoc once it has copied the bytes)   *)
(* changes who owns it, not the list.                                      *)
LEMMA ReleasePreserves ==
  ASSUME HeapInv, NEW c \in Contexts, OthersIdle(c), NEW p \in live,
         pc[c] \in Settled, pc' = [pc EXCEPT ![c] = "un_first"],
         live' = live \ {p}, asked' = [asked EXCEPT ![p] = 0],
         blk' = [blk EXCEPT ![c] = p], old' = [old EXCEPT ![c] = nullptr],
         UNCHANGED <<first, size, previous, next, want, cur, nxt, best>>
  PROVE  HeapInv'
<1>1. /\ \A d \in Contexts \ {c} : pc[d] = "idle" /\ pc'[d] = "idle"
      /\ \A d \in Contexts \ {c} : old[d] = nullptr
      /\ pc' \in [Contexts -> Labels] /\ pc'[c] = "un_first" /\ OneActive'
  BY Alone DEF Labels
<1>2. live \in SUBSET Ptr /\ p \in Ptr
  BY DEF HeapInv, TypeOK
<1>3. TypeOK'
  BY <1>1, <1>2 DEF HeapInv, TypeOK
<1>4. InFirst = live /\ InPrevious = live /\ InNext = live
  BY <1>1, Views DEF Settled
<1>5. blk'[c] = p /\ old'[c] = nullptr /\ \A d \in Contexts \ {c} : old'[d] = old[d]
  BY DEF HeapInv, TypeOK
<1>6. ListInOrder'
  <2>1. InFirst' = live /\ InPrevious' = live /\ InNext' = live
    <3>1. InFirst' = live' \cup {p} /\ InPrevious' = live' \cup {p} /\ InNext' = live' \cup {p}
      BY <1>1, <1>5, ViewsAfter
    <3>2. live' \cup {p} = live
      OBVIOUS
    <3> QED BY <3>1, <3>2
  <2> QED BY <1>4, <2>1 DEF HeapInv, ListInOrder, IsFirst, IsNext, IsPrevious
<1>7. BlocksDisjoint' /\ SizeRecoverable'
  BY <1>2 DEF HeapInv, TypeOK, BlocksDisjoint, SizeRecoverable, InHeap, IsInHeap
<1>8. Unlinking(c)'
  <2>1. IsPrevious(live, p, previous[p]) /\ live = (live \ {p}) \cup {p}
    BY <1>4 DEF HeapInv, ListInOrder
  <2>2. IsPrevious(live \ {p}, p, previous[p])
    BY <1>2, <2>1, NeighbourOfMember
  <2> QED BY <1>2, <1>5, <2>2 DEF Unlinking
<1>9. Knows(c)'
  BY <1>1, <1>5, <1>8 DEF Knows
<1>10. \A d \in Contexts : Knows(d)'
  BY <1>1, <1>5, <1>9, OnlyActiveKnows
<1> QED BY <1>1, <1>3, <1>6, <1>7, <1>10 DEF HeapInv

(* Entering unalloc: the caller gives the block up. *)
LEMMA UnallocPreserves ==
  ASSUME HeapInv, Careful, NEW c \in Contexts, OthersIdle(c), NEW p \in live, Unalloc(c, p)
  PROVE  HeapInv'
<1>1. old' = [old EXCEPT ![c] = nullptr]
  BY DEF HeapInv, TypeOK, Knows, Unalloc, At
<1> QED BY <1>1, ReleasePreserves DEF Unalloc, At, Goto, Settled

(* The end of a challoc that moved gives the old block up. *)
LEMMA CopyAndReleasePreserves ==
  ASSUME HeapInv, Careful, NEW c \in Contexts, OthersIdle(c), CopyAndRelease(c)
  PROVE  HeapInv'
<1>1. old[c] \in live
  BY DEF HeapInv, Knows, CopyAndRelease, At
<1> QED BY <1>1, ReleasePreserves DEF CopyAndRelease, At, Goto, Settled

(* What the three steps of unalloc know about the block they unlink. *)
LEMMA UnlinkingFacts ==
  ASSUME HeapInv, NEW c \in Contexts, \A d \in Contexts \ {c} : pc[d] = "idle",
         pc[c] \in {"un_first", "un_next", "un_prev"}
  PROVE  /\ blk[c] \in Ptr /\ blk[c] \notin live /\ live \in SUBSET Ptr
         /\ IsPrevious(live, blk[c], previous[blk[c]])
         /\ IsNext(live, blk[c], next[blk[c]])
         /\ InNext = live \cup {blk[c]}
         /\ next[blk[c]] # nullptr => next[blk[c]] \in live
         /\ previous[blk[c]] # nullptr => previous[blk[c]] \in live
         /\ old[c] = nullptr
<1>1. Unlinking(c) /\ live \in SUBSET Ptr /\ old[c] = nullptr
  BY DEF HeapInv, TypeOK, Knows
<1>2. InNext = live \cup {blk[c]}
  BY Views
<1>3. IsNext(live \cup {blk[c]}, blk[c], next[blk[c]])
  BY <1>2 DEF HeapInv, ListInOrder
<1>4. IsNext(live, blk[c], next[blk[c]])
  BY <1>1, <1>3, NeighbourOfMember DEF Unlinking
<1> QED BY <1>1, <1>2, <1>4 DEF Unlinking, IsNext, IsPrevious

(* unalloc moves first_address off the block. *)
LEMMA UnlinkFirstPreserves ==
  ASSUME HeapInv, Careful, NEW c \in Contexts, OthersIdle(c), UnlinkFirst(c)
  PROVE  HeapInv'
<1> DEFINE q == blk[c]
<1>0. /\ pc[c] = "un_first" /\ first' = IF q = first THEN next[q] ELSE first
      /\ UNCHANGED <<size, previous, next, want, cur, nxt, best, blk, old, live, asked>>
  BY DEF UnlinkFirst, At
<1>1. /\ \A d \in Contexts \ {c} : pc[d] = "idle" /\ pc'[d] = "idle"
      /\ \A d \in Contexts \ {c} : old[d] = nullptr
      /\ pc' \in [Contexts -> Labels] /\ pc'[c] = "un_next" /\ OneActive'
  BY Alone DEF UnlinkFirst, At, Goto, Labels
<1>2. /\ q \in Ptr /\ q \notin live /\ live \in SUBSET Ptr /\ IsNext(live, q, next[q])
      /\ IsPrevious(live, q, previous[q]) /\ old[c] = nullptr
  BY <1>0, <1>1, UnlinkingFacts
<1>3. TypeOK'
  BY <1>0, <1>1, <1>2 DEF HeapInv, TypeOK
<1>4. ListInOrder'
  <2>1. /\ InFirst = live \cup {q} /\ InPrevious = live \cup {q} /\ InNext = live \cup {q}
    BY <1>0, <1>1, Views
  <2>2. InFirst' = live /\ InPrevious' = live \cup {q} /\ InNext' = live \cup {q}
    BY <1>0, <1>1, ViewsAfter
  <2>3. IsFirst(live \cup {q}, first)
    BY <2>1 DEF HeapInv, ListInOrder
  <2>4. IsFirst(live, first')
    <3>1. \A s \in live : s \in Int /\ s # nullptr
      BY <1>2, PtrPositive
    <3>2. q \in Int
      BY <1>2, PtrPositive
    <3> QED BY <1>0, <1>2, <2>3, <3>1, <3>2 DEF IsFirst, IsNext
  <2> QED BY <1>0, <2>1, <2>2, <2>4 DEF HeapInv, ListInOrder, IsNext, IsPrevious, IsFirst
<1>5. BlocksDisjoint' /\ SizeRecoverable'
  BY <1>0 DEF HeapInv, BlocksDisjoint, SizeRecoverable, InHeap, IsInHeap
<1>6. Unlinking(c)'
  BY <1>0, <1>2 DEF Unlinking
<1>7. Knows(c)'
  BY <1>0, <1>1, <1>2, <1>6 DEF Knows
<1>8. \A d \in Contexts : Knows(d)'
  BY <1>0, <1>1, <1>7, OnlyActiveKnows
<1> QED BY <1>1, <1>3, <1>4, <1>5, <1>8 DEF HeapInv

(* unalloc makes the successor point back past the block. *)
LEMMA UnlinkNextPreserves ==
  ASSUME HeapInv, Careful, NEW c \in Contexts, OthersIdle(c), UnlinkNext(c)
  PROVE  HeapInv'
<1> DEFINE q == blk[c]
           r == next[q]
<1>0. /\ pc[c] = "un_next"
      /\ previous' = IF r = nullptr THEN previous ELSE [previous EXCEPT ![r] = previous[q]]
      /\ UNCHANGED <<first, size, next, want, cur, nxt, best, blk, old, live, asked>>
  BY DEF UnlinkNext, At
<1>1. /\ \A d \in Contexts \ {c} : pc[d] = "idle" /\ pc'[d] = "idle"
      /\ \A d \in Contexts \ {c} : old[d] = nullptr
      /\ pc' \in [Contexts -> Labels] /\ pc'[c] = "un_prev" /\ OneActive'
  BY Alone DEF UnlinkNext, At, Goto, Labels
<1>2. /\ q \in Ptr /\ q \notin live /\ live \in SUBSET Ptr /\ IsNext(live, q, r)
      /\ IsPrevious(live, q, previous[q]) /\ old[c] = nullptr
      /\ r # nullptr => r \in live
  BY <1>0, <1>1, UnlinkingFacts
<1>3. previous \in [Ptr -> Ptr \cup {nullptr}]
  BY DEF HeapInv, TypeOK
<1>4. TypeOK'
  BY <1>0, <1>1, <1>2 DEF HeapInv, TypeOK
<1>5. ListInOrder'
  <2>1. InFirst = live /\ InPrevious = live \cup {q} /\ InNext = live \cup {q}
    BY <1>0, <1>1, Views
  <2>2. InFirst' = live /\ InPrevious' = live /\ InNext' = live \cup {q}
    BY <1>0, <1>1, ViewsAfter
  <2>3. \A x \in live \cup {q} : IsPrevious(live \cup {q}, x, previous[x])
    BY <2>1 DEF HeapInv, ListInOrder
  <2>4. \A x \in live : IsPrevious(live, x, previous'[x])
    BY <1>0, <1>2, <1>3, <2>3, RemovePrevious
  <2>5. IsFirst(InFirst', first') /\ \A x \in InNext' : IsNext(InNext', x, next'[x])
    BY <1>0, <2>1, <2>2 DEF HeapInv, ListInOrder
  <2> QED BY <2>2, <2>4, <2>5 DEF ListInOrder, IsNext, IsPrevious, IsFirst
<1>6. BlocksDisjoint' /\ SizeRecoverable'
  BY <1>0 DEF HeapInv, BlocksDisjoint, SizeRecoverable, InHeap, IsInHeap
<1>7. previous'[q] = previous[q]
  BY <1>0, <1>2, <1>3
<1>8. Unlinking(c)'
  BY <1>0, <1>2, <1>7 DEF Unlinking
<1>9. Knows(c)'
  BY <1>0, <1>1, <1>2, <1>8 DEF Knows
<1>10. \A d \in Contexts : Knows(d)'
  BY <1>0, <1>1, <1>9, OnlyActiveKnows
<1> QED BY <1>1, <1>4, <1>5, <1>6, <1>10 DEF HeapInv

(* unalloc makes the predecessor point past the block. *)
LEMMA UnlinkPreviousPreserves ==
  ASSUME HeapInv, Careful, NEW c \in Contexts, OthersIdle(c), UnlinkPrevious(c)
  PROVE  HeapInv'
<1> DEFINE q == blk[c]
           p == previous[q]
<1>0. /\ pc[c] = "un_prev"
      /\ next' = IF p = nullptr THEN next ELSE [next EXCEPT ![p] = next[q]]
      /\ blk' = [blk EXCEPT ![c] = nullptr]
      /\ UNCHANGED <<first, size, previous, want, cur, nxt, best, old, live, asked>>
  BY DEF UnlinkPrevious, At
<1>1. /\ \A d \in Contexts \ {c} : pc[d] = "idle" /\ pc'[d] = "idle"
      /\ \A d \in Contexts \ {c} : old[d] = nullptr
      /\ pc' \in [Contexts -> Labels] /\ pc'[c] = "idle" /\ OneActive'
  BY Alone DEF UnlinkPrevious, At, Goto, Labels
<1>2. /\ q \in Ptr /\ q \notin live /\ live \in SUBSET Ptr
      /\ IsPrevious(live, q, p) /\ old[c] = nullptr /\ InNext = live \cup {q}
      /\ p # nullptr => p \in live
  BY <1>0, <1>1, UnlinkingFacts
<1>3. next \in [Ptr -> Ptr \cup {nullptr}]
  BY DEF HeapInv, TypeOK
<1>4. TypeOK'
  BY <1>0, <1>1, <1>2 DEF HeapInv, TypeOK
<1>5. ListInOrder'
  <2>1. InFirst = live /\ InPrevious = live
    BY <1>0, <1>1, Views
  <2>2. InFirst' = live /\ InPrevious' = live /\ InNext' = live
    BY <1>0, <1>1, ViewsAfter
  <2>3. \A x \in live \cup {q} : IsNext(live \cup {q}, x, next[x])
    BY <1>2 DEF HeapInv, ListInOrder
  <2>4. \A x \in live : IsNext(live, x, next'[x])
    BY <1>0, <1>2, <1>3, <2>3, RemoveNext
  <2>5. IsFirst(InFirst', first') /\ \A x \in InPrevious' : IsPrevious(InPrevious', x, previous'[x])
    BY <1>0, <2>1, <2>2 DEF HeapInv, ListInOrder
  <2> QED BY <2>2, <2>4, <2>5 DEF ListInOrder, IsNext, IsPrevious, IsFirst
<1>6. BlocksDisjoint' /\ SizeRecoverable'
  BY <1>0 DEF HeapInv, BlocksDisjoint, SizeRecoverable, InHeap, IsInHeap
<1>7. Knows(c)'
  BY <1>0, <1>1, <1>2 DEF Knows
<1>8. \A d \in Contexts : Knows(d)'
  BY <1>0, <1>1, <1>7, OnlyActiveKnows
<1> QED BY <1>1, <1>4, <1>5, <1>6, <1>8 DEF HeapInv

(***************************************************************************)
(* challoc                                                                 *)
(***************************************************************************)

(* Resizing in place keeps the heap in order if the new size fits in front *)
(* of the next block.                                                      *)
LEMMA ResizePreserves ==
  ASSUME HeapInv, NEW c \in Contexts, OthersIdle(c), At(c, "idle"),
         NEW p \in live, NEW n \in Nat, n <= Room(p),
         size' = [size EXCEPT ![p] = n], asked' = [asked EXCEPT ![p] = n],
         UNCHANGED <<first, previous, next, pc, want, cur, nxt, best, blk, old, live>>
  PROVE  HeapInv'
<1>1. /\ \A d \in Contexts \ {c} : pc[d] = "idle" /\ pc'[d] = "idle"
      /\ \A d \in Contexts \ {c} : old[d] = nullptr
      /\ pc' \in [Contexts -> Labels] /\ pc'[c] = "idle" /\ OneActive'
  <2>1. pc' = [pc EXCEPT ![c] = "idle"] /\ "idle" \in Labels
    BY DEF HeapInv, TypeOK, At, Labels
  <2> QED BY <2>1, Alone DEF At
<1>2. TypeOK'
  BY <1>1 DEF HeapInv, TypeOK
<1>3. InFirst = live /\ InPrevious = live /\ InNext = live
  BY <1>1, Views DEF At
<1>4. InFirst' = live /\ InPrevious' = live /\ InNext' = live
  BY <1>1, ViewsAfter
<1>5. ListInOrder'
  BY <1>3, <1>4 DEF HeapInv, ListInOrder, IsFirst, IsNext, IsPrevious
<1>6. \A x \in live : /\ x \in Ptr /\ x \in Int /\ x < HeapEnd /\ HeapStart + HeaderSize <= x
                      /\ x # nullptr /\ size'[x] = IF x = p THEN n ELSE size[x]
  BY LiveBlocks DEF HeapInv, TypeOK
<1>7. IsNext(live, p, next[p])
  BY <1>3 DEF HeapInv, ListInOrder
<1>8. BlocksDisjoint'
  <2>1. p + n <= HeapEnd
    BY <1>6, <1>7, HeapAssumption DEF Room, IsNext
  <2>2. \A y \in live : p < y => p + n <= y - HeaderSize
    BY <1>6, <1>7, HeapAssumption DEF Room, IsNext
  <2>3. \A x \in live : InHeap(x)'
    BY <1>6, <2>1, HeapAssumption DEF HeapInv, BlocksDisjoint, InHeap, IsInHeap
  <2>4. \A x, y \in live : x < y => x + size'[x] <= y - HeaderSize
    BY <1>6, <2>2 DEF HeapInv, BlocksDisjoint
  <2> QED BY <2>3, <2>4 DEF BlocksDisjoint
<1>9. SizeRecoverable'
  BY <1>6 DEF HeapInv, TypeOK, SizeRecoverable
<1>10. Knows(c)'
  BY <1>1 DEF HeapInv, Knows, At
<1>11. \A d \in Contexts : Knows(d)'
  BY <1>1, <1>10, OnlyActiveKnows
<1> QED BY <1>1, <1>2, <1>5, <1>8, <1>9, <1>11 DEF HeapInv

(* challoc to a smaller size stays inside the old block. *)
LEMMA ChallocShrinkPreserves ==
  ASSUME HeapInv, Careful, NEW c \in Contexts, OthersIdle(c), NEW p \in live, NEW n \in Sizes,
         ChallocShrink(c, p, n)
  PROVE  HeapInv'
<1>1. n \in Nat
  BY HeapAssumption
<1>2. \A d \in Contexts \ {c} : pc[d] = "idle"
  BY DEF ChallocShrink, At, OthersIdle
<1>3. IsNext(live, p, next[p])
  BY <1>2, Views DEF ChallocShrink, At, HeapInv, ListInOrder
<1>4. n <= Room(p)
  <2>1. /\ p \in Int /\ size[p] \in Nat /\ p + size[p] <= HeapEnd /\ n < size[p]
    BY LiveBlocks DEF ChallocShrink
  <2>2. CASE next[p] = nullptr
    BY <1>1, <2>1, <2>2, HeapAssumption DEF Room
  <2>3. CASE next[p] # nullptr
    <3>1. next[p] \in live /\ p < next[p]
      BY <1>3, <2>3 DEF IsNext
    <3>2. p + size[p] <= next[p] - HeaderSize /\ next[p] \in Int
      BY <3>1, LiveBlocks DEF HeapInv, BlocksDisjoint
    <3> QED BY <1>1, <2>1, <2>3, <3>2, HeapAssumption DEF Room
  <2> QED BY <2>2, <2>3
<1> QED BY <1>1, <1>4, ResizePreserves DEF ChallocShrink

(* challoc in place, within what a careful caller asks for. *)
LEMMA ChallocInPlacePreserves ==
  ASSUME HeapInv, Careful, NEW c \in Contexts, OthersIdle(c), NEW p \in live, NEW n \in Sizes,
         ChallocInPlace(c, p, n)
  PROVE  HeapInv'
BY ResizePreserves, HeapAssumption DEF ChallocInPlace

(* challoc that must move starts like ralloc. *)
LEMMA ChallocMovePreserves ==
  ASSUME HeapInv, Careful, NEW c \in Contexts, OthersIdle(c), NEW p \in live, NEW n \in Sizes,
         ChallocMove(c, p, n)
  PROVE  HeapInv'
<1>1. /\ \A d \in Contexts \ {c} : pc[d] = "idle" /\ pc'[d] = "idle"
      /\ \A d \in Contexts \ {c} : old[d] = nullptr
      /\ pc' \in [Contexts -> Labels] /\ pc'[c] = "ralloc" /\ OneActive'
  BY Alone DEF ChallocMove, At, Goto, Labels
<1>2. ListInOrder' /\ BlocksDisjoint' /\ SizeRecoverable'
  BY Quiet DEF ChallocMove, At, Goto, Settled
<1>3. TypeOK'
  BY <1>1, HeapAssumption DEF HeapInv, TypeOK, ChallocMove
<1>4. Knows(c)'
  BY <1>1 DEF HeapInv, TypeOK, Knows, ChallocMove, FitsEmptyHeap
<1>5. \A d \in Contexts \ {c} : old'[d] = old[d]
  BY DEF HeapInv, TypeOK, ChallocMove
<1>6. \A d \in Contexts : Knows(d)'
  BY <1>1, <1>4, <1>5, OnlyActiveKnows
<1> QED BY <1>1, <1>2, <1>3, <1>6 DEF HeapInv

(***************************************************************************)
(* The theorems                                                            *)
(***************************************************************************)

(* initialize_heap establishes the invariant. *)
LEMMA InitHolds == Init => HeapInv
<1> SUFFICES ASSUME Init PROVE HeapInv
  OBVIOUS
<1>1. TypeOK
  <2>1. NoGap \in Gap BY HeapAssumption DEF NoGap, Gap
  <2> QED BY <2>1 DEF Init, TypeOK, Labels
<1>2. InFirst = {} /\ InPrevious = {} /\ InNext = {}
  BY DEF Init, InFirst, InPrevious, InNext, Working
<1>3. ListInOrder
  BY <1>2 DEF Init, ListInOrder, IsFirst
<1>4. OneActive /\ BlocksDisjoint /\ SizeRecoverable
  BY DEF Init, OneActive, BlocksDisjoint, SizeRecoverable
<1>5. \A c \in Contexts : Knows(c)
  BY DEF Init, Knows
<1> QED BY <1>1, <1>3, <1>4, <1>5 DEF HeapInv

(* Every step of a heap that nobody else is inside, with careful callers,  *)
(* keeps the invariant.                                                    *)
LEMMA NextPreserves ==
  ASSUME Careful, HeapInv, [Next]_vars, [Undisturbed]_vars
  PROVE  HeapInv'
<1>1. CASE UNCHANGED vars
  BY <1>1 DEF vars, HeapInv, TypeOK, OneActive, ListInOrder, InFirst, InPrevious, InNext,
      Working, IsFirst, IsNext, IsPrevious, BlocksDisjoint, InHeap, IsInHeap,
      SizeRecoverable, Knows, Searching, RealGap, HeaderWritten, Unlinking, FitsEmptyHeap
<1>2. ASSUME NEW c \in Contexts, Call(c), OthersIdle(c) PROVE HeapInv'
  BY <1>2, RallocPreserves, UnallocPreserves, ChallocShrinkPreserves,
     ChallocInPlacePreserves, ChallocMovePreserves DEF Call
<1>3. ASSUME NEW c \in Contexts, Step(c), OthersIdle(c) PROVE HeapInv'
  BY <1>3, EmptyHeapPreserves, FirstGapPreserves, ScanGapPreserves, TailGapPreserves,
     WriteHeaderPreserves, LinkPreviousPreserves, LinkNextPreserves, PublishPreserves,
     ThrowPreserves, CopyAndReleasePreserves, UnlinkFirstPreserves, UnlinkNextPreserves,
     UnlinkPreviousPreserves DEF Step
<1> QED BY <1>1, <1>2, <1>3 DEF Next, Undisturbed

(* The heap invariant: with operations that do not overlap and careful     *)
(* callers, the list of heap.c is in order after every single store,       *)
(* blocks never overlap, and what ralloc has read when it links a block is *)
(* still true.                                                             *)
THEOREM HeapInvariance == Careful => (Spec /\ OneAtATime => []HeapInv)
<1> SUFFICES ASSUME Careful PROVE Spec /\ OneAtATime => []HeapInv
  OBVIOUS
<1>1. Init => HeapInv BY InitHolds
<1>2. HeapInv /\ [Next]_vars /\ [Undisturbed]_vars => HeapInv' BY NextPreserves
<1> QED BY <1>1, <1>2, PTL DEF Spec, OneAtATime

(* Every pointer in the list, in the headers and in the locals of ralloc   *)
(* and unalloc is nullptr or an address of the heap, and every size a      *)
(* natural number: no step follows a pointer elsewhere.                    *)
THEOREM HeapTypeCorrect == Careful => (Spec /\ OneAtATime => []TypeOK)
<1>1. HeapInv => TypeOK
  BY DEF HeapInv
<1> QED BY <1>1, HeapInvariance, PTL

(* Blocks never overlap, headers included, and never leave the heap. *)
THEOREM HeapSafety == Careful => (Spec /\ OneAtATime => []BlocksDisjoint)
<1>1. HeapInv => BlocksDisjoint
  BY DEF HeapInv
<1> QED BY <1>1, HeapInvariance, PTL

(* The list is the blocks in use, in address order, in both directions,    *)
(* after every single store of ralloc and unalloc.                         *)
THEOREM HeapListOrdered == Careful => (Spec /\ OneAtATime => []ListInOrder)
<1>1. HeapInv => ListInOrder
  BY DEF HeapInv
<1> QED BY <1>1, HeapInvariance, PTL

(* If operations do not overlap, ralloc never hands out a block that       *)
(* somebody has: the gap that it has found is still free when the block is *)
(* published.  heap.c does nothing to keep operations apart, so after fork *)
(* the hypothesis is the callers' to meet; HeapUndisturbed says who does,  *)
(* and the run heap_preempted what happens otherwise.                      *)
THEOREM HeapReturnsFresh == Careful => (Spec /\ OneAtATime => []ReturnsFreshBlock)
<1>1. HeapInv => ReturnsFreshBlock
  BY DEF HeapInv, OneActive, Knows, HeaderWritten, RealGap, ReturnsFreshBlock
<1> QED BY <1>1, HeapInvariance, PTL

(* The header of a block in use keeps the size that its owner asked for,   *)
(* whatever its neighbours do.                                             *)
THEOREM HeapKeepsSizes == Careful => (Spec /\ OneAtATime => []SizeRecoverable)
<1>1. HeapInv => SizeRecoverable
  BY DEF HeapInv
<1> QED BY <1>1, HeapInvariance, PTL

(***************************************************************************)
(* heap.c implements HeapSpec                                              *)
(***************************************************************************)

Blocks == [p \in live |-> size[p]]

(* A step that hands out no block, takes none back and resizes none.       *)
LEMMA BlocksUnchanged ==
  ASSUME live' = live, \A p \in live : size'[p] = size[p]
  PROVE  Blocks' = Blocks
BY DEF Blocks

(* ralloc returns: a block appears in free space. *)
LEMMA PublishAllocates ==
  ASSUME HeapInv, HeapInv', NEW c \in Contexts, OthersIdle(c), Publish(c)
  PROVE  Promise!Allocate
<1> DEFINE q == blk[c]
<1>1. /\ live' = live \cup {q} /\ size' = size /\ want[c] \in Sizes /\ size[q] = want[c]
      /\ q \notin live
  BY DEF HeapInv, Knows, HeaderWritten, RealGap, Publish, At
<1>2. q \in live' /\ q \in Ptr /\ q \in Int
  BY <1>1, PtrPositive DEF HeapInv, TypeOK
<1>3. \A p \in live' : p \in Int /\ size[p] \in Nat
  BY <1>1, PtrPositive DEF HeapInv, TypeOK
<1>4. Promise!Free(live, q, want[c])
  <2>1. Promise!Inside(q, want[c])
    BY <1>1, <1>2 DEF HeapInv, BlocksDisjoint, InHeap, Promise!Inside
  <2>2. \A s \in live : Promise!Apart(q, want[c], s)
    <3> SUFFICES ASSUME NEW s \in live PROVE Promise!Apart(q, want[c], s)
      OBVIOUS
    <3>1. Blocks[s] = size[s] /\ s # q /\ s \in live' /\ s \in Int
      BY <1>1, <1>3 DEF Blocks
    <3>2. s < q => s + size[s] <= q - HeaderSize
      BY <1>1, <1>2, <3>1 DEF HeapInv, BlocksDisjoint
    <3>3. q < s => q + size[q] <= s - HeaderSize
      BY <1>1, <1>2, <3>1 DEF HeapInv, BlocksDisjoint
    <3> QED BY <1>1, <1>2, <3>1, <3>2, <3>3 DEF Promise!Apart, Blocks
  <2> QED BY <2>1, <2>2 DEF Promise!Free
<1>5. Blocks' = [p \in live \cup {q} |-> IF p = q THEN want[c] ELSE Blocks[p]]
  BY <1>1 DEF Blocks
<1> QED BY <1>1, <1>2, <1>4, <1>5 DEF Promise!Allocate, Promise!Pointers, Ptr, Blocks

(* unalloc, and the end of a challoc that moved: a block goes away. *)
LEMMA ReleaseReleases ==
  ASSUME HeapInv, NEW p \in live, live' = live \ {p}, size' = size
  PROVE  Promise!Release
<1>1. Blocks' = [q \in live \ {p} |-> Blocks[q]]
  BY DEF Blocks
<1> QED BY <1>1 DEF Promise!Release, Blocks

(* challoc in place: one block changes its size where it is. *)
LEMMA ResizeResizes ==
  ASSUME HeapInv, HeapInv', NEW p \in live, NEW n \in Sizes,
         live' = live, size' = [size EXCEPT ![p] = n]
  PROVE  Promise!Resize
<1>1. \A s \in live : s \in Ptr /\ s \in Int /\ size'[s] = IF s = p THEN n ELSE size[s]
  BY PtrPositive DEF HeapInv, TypeOK
<1>2. Promise!Free(live \ {p}, p, n)
  <2>1. Promise!Inside(p, n)
    BY <1>1 DEF HeapInv, BlocksDisjoint, InHeap, Promise!Inside
  <2>2. \A s \in live \ {p} : Promise!Apart(p, n, s)
    <3> SUFFICES ASSUME NEW s \in live \ {p} PROVE Promise!Apart(p, n, s)
      OBVIOUS
    <3>1. s < p => s + size[s] <= p - HeaderSize
      BY DEF HeapInv, BlocksDisjoint
    <3>2. p < s => p + n <= s - HeaderSize
      BY <1>1 DEF HeapInv, BlocksDisjoint
    <3> QED BY <1>1, <3>1, <3>2 DEF Promise!Apart
  <2> QED BY <2>1, <2>2 DEF Promise!Free
<1>3. Blocks' = [Blocks EXCEPT ![p] = n]
  BY <1>1 DEF Blocks
<1> QED BY <1>2, <1>3 DEF Promise!Resize, Blocks

(* Every step of heap.c is a step of the promise, or none. *)
LEMMA StepRefines ==
  ASSUME Careful, HeapInv, HeapInv', [Next]_vars, [Undisturbed]_vars
  PROVE  [Promise!Next]_Blocks
<1>1. CASE UNCHANGED vars
  BY <1>1 DEF vars, Blocks
<1>2. ASSUME NEW c \in Contexts, Call(c), OthersIdle(c) PROVE [Promise!Next]_Blocks
  <2>1. ASSUME NEW n \in Sizes, Ralloc(c, n) PROVE Blocks' = Blocks
    BY <2>1, BlocksUnchanged DEF Ralloc
  <2>2. ASSUME NEW p \in live, Unalloc(c, p) PROVE Promise!Release
    BY <2>2, ReleaseReleases DEF Unalloc
  <2>3. ASSUME NEW p \in live, NEW n \in Sizes, ChallocShrink(c, p, n)
        PROVE  Promise!Resize
    BY <2>3, ResizeResizes DEF ChallocShrink
  <2>4. ASSUME NEW p \in live, NEW n \in Sizes, ChallocInPlace(c, p, n)
        PROVE  Promise!Resize
    BY <2>4, ResizeResizes DEF ChallocInPlace
  <2>5. ASSUME NEW p \in live, NEW n \in Sizes, ChallocMove(c, p, n)
        PROVE  Blocks' = Blocks
    BY <2>5, BlocksUnchanged DEF ChallocMove
  <2> QED BY <1>2, <2>1, <2>2, <2>3, <2>4, <2>5 DEF Call, Promise!Next
<1>3. ASSUME NEW c \in Contexts, Step(c), OthersIdle(c) PROVE [Promise!Next]_Blocks
  <2>1. CASE \/ EmptyHeap(c) \/ FirstGap(c) \/ ScanGap(c) \/ TailGap(c) \/ LinkPrevious(c)
             \/ LinkNext(c) \/ Throw(c) \/ UnlinkFirst(c) \/ UnlinkNext(c) \/ UnlinkPrevious(c)
    BY <2>1, BlocksUnchanged DEF EmptyHeap, FirstGap, ScanGap, TailGap, LinkPrevious,
       LinkNext, Throw, UnlinkFirst, UnlinkNext, UnlinkPrevious
  <2>2. CASE WriteHeader(c)
    <3>1. best[c].address + HeaderSize \notin live
      BY <2>2 DEF WriteHeader, At, HeapInv, Knows, RealGap
    <3>2. live' = live /\ \A p \in live : size'[p] = size[p]
      BY <2>2, <3>1 DEF WriteHeader, HeapInv, TypeOK
    <3> QED BY <3>2, BlocksUnchanged
  <2>3. CASE Publish(c)
    BY <1>3, <2>3, PublishAllocates DEF Promise!Next
  <2>4. CASE CopyAndRelease(c)
    <3>1. old[c] \in live
      BY <2>4 DEF HeapInv, Knows, CopyAndRelease, At
    <3> QED BY <2>4, <3>1, ReleaseReleases DEF CopyAndRelease, Promise!Next
  <2> QED BY <1>3, <2>1, <2>2, <2>3, <2>4 DEF Step
<1> QED BY <1>1, <1>2, <1>3 DEF Next, Undisturbed

(* heap.c keeps the promise of heap.h: it hands out blocks in free space,  *)
(* takes back and resizes only the block it was asked about, and touches   *)
(* no other block in use, however long the list and the gaps are.          *)
THEOREM HeapImplementsSpec == Careful => (Spec /\ OneAtATime => ImplementsHeapSpec)
<1> SUFFICES ASSUME Careful PROVE Spec /\ OneAtATime => ImplementsHeapSpec
  OBVIOUS
<1>1. Init => Promise!Init
  BY DEF Init, Promise!Init
<1>2. Spec /\ OneAtATime => []HeapInv
  BY HeapInvariance
<1>3. HeapInv /\ HeapInv' /\ [Next]_vars /\ [Undisturbed]_vars => [Promise!Next]_Blocks
  BY StepRefines
<1> QED
  BY <1>1, <1>2, <1>3, PTL DEF Spec, OneAtATime, ImplementsHeapSpec, Promise!Spec, Blocks

(***************************************************************************)
(* The search in ralloc.  HeapInv says that the gap the search remembers   *)
(* is a real one; here it is compared with the gaps the search has passed: *)
(* the block goes into the tightest gap that holds it, the lowest one      *)
(* among equals, and the allocation exception is thrown only when no gap   *)
(* holds it.                                                               *)
(***************************************************************************)

(* b is what the search for n bytes keeps of the gaps of which L gives the *)
(* lengths, by start: the tightest one that holds the block and its        *)
(* header, the lowest among equals, or nothing.                            *)
Kept(b, n, L) ==
  /\ b.address = nullptr => b.size = HeapEnd - HeapStart
  /\ b.address # nullptr => b.address \in DOMAIN L /\ b.size = L[b.address]
  /\ \A a \in DOMAIN L : L[a] >= n + HeaderSize =>
       /\ b.address # nullptr
       /\ \/ b.size < L[a]
          \/ b.size = L[a] /\ b.address <= a

Lengths(S) == [a \in S |-> GapLength(a)]

(* The gaps ralloc has looked at when its search stands at block p. *)
Passed(p) == {HeapStart} \cup {q + size[q] : q \in {r \in live : r < p}}

(* What the search has kept at each label. *)
Compared(c) ==
  /\ pc[c] = "scan" => Kept(best[c], want[c], Lengths(Passed(cur[c])))
  /\ pc[c] = "header" /\ live # {} => Kept(best[c], want[c], Lengths(GapStarts))
  /\ pc[c] = "throw" =>
       /\ best[c].address = nullptr /\ Kept(best[c], want[c], Lengths(GapStarts))
       /\ cur[c] \in live /\ IsNext(live, cur[c], nullptr)

(* Inductive together with HeapInv. *)
SearchInv == \A c \in Contexts : Compared(c)

(***************************************************************************)
(* How long the gaps are                                                   *)
(***************************************************************************)

(* The least of a set of integers is the one CHOOSE finds. *)
LEMMA ChooseLeast ==
  ASSUME NEW S \in SUBSET Int, NEW m \in S, \A r \in S : m <= r
  PROVE  (CHOOSE q \in S : \A r \in S : q <= r) = m
<1> DEFINE P(q) == q \in S /\ \A r \in S : q <= r
           x == CHOOSE q : P(q)
<1>1. P(x)
  <2>1. P(m) OBVIOUS
  <2> HIDE DEF P
  <2> QED BY <2>1
<1>2. x = m
  <2> HIDE DEF x
  <2> QED BY <1>1
<1> QED BY <1>2

(* The gap in front of the first block ends at its header. *)
LEMMA LengthInFront ==
  ASSUME HeapInv, IsFirst(live, first), first # nullptr
  PROVE  GapLength(HeapStart) = first - HeapStart - HeaderSize
<1>1. \A q \in live : q \in Int /\ HeapStart <= q - HeaderSize
  BY LiveBlocks, HeapAssumption
<1>2. first \in live /\ \A r \in live : first <= r
  BY DEF IsFirst
<1>3. {q \in live : HeapStart <= q - HeaderSize} = live
  BY <1>1
<1>4. (CHOOSE q \in live : \A r \in live : q <= r) = first
  BY <1>1, <1>2, ChooseLeast
<1> QED BY <1>2, <1>3, <1>4 DEF GapLength

(* The gap behind a block ends at the header of the next one, or with the  *)
(* heap.                                                                   *)
LEMMA LengthBehind ==
  ASSUME HeapInv, NEW p \in live, NEW r, IsNext(live, p, r)
  PROVE  GapLength(p + size[p])
           = (IF r = nullptr THEN HeapEnd ELSE r) - (p + size[p]) - HeaderSize
<1> DEFINE after == {q \in live : p + size[p] <= q - HeaderSize}
<1>1. \A q \in live : q \in Int /\ q # nullptr /\ size[q] \in Nat
  BY LiveBlocks
<1>2. \A q \in live : p < q => p + size[p] <= q - HeaderSize
  BY DEF HeapInv, BlocksDisjoint
<1>3. after = {q \in live : p < q}
  BY <1>1, <1>2, HeapAssumption
<1>4. CASE r = nullptr
  <2>1. after = {}
    BY <1>1, <1>3, <1>4 DEF IsNext
  <2> QED BY <1>4, <2>1 DEF GapLength
<1>5. CASE r # nullptr
  <2>1. r \in after /\ \A s \in after : r <= s
    BY <1>1, <1>3, <1>5 DEF IsNext
  <2>2. after \in SUBSET Int
    BY <1>1
  <2>3. (CHOOSE q \in after : \A s \in after : q <= s) = r
    <3> HIDE DEF after
    <3> QED BY <2>1, <2>2, ChooseLeast
  <2> QED BY <1>5, <2>1, <2>3 DEF GapLength
<1> QED BY <1>4, <1>5

(***************************************************************************)
(* One comparison                                                          *)
(***************************************************************************)

(* ralloc initialises best_* to nothing, which is right before the search. *)
LEMMA NothingKept ==
  ASSUME NEW n \in Nat
  PROVE  Kept(NoGap, n, Lengths({}))
BY DEF Kept, Lengths, NoGap

(* One comparison of the search: the gap g, behind all those of S, has the *)
(* length the code computed, unless that wrapped and is far too large.     *)
LEMMA ConsiderKeeps ==
  ASSUME NEW b \in Gap, NEW g \in Gap, NEW n \in Nat, NEW S \in SUBSET Int,
         FitsEmptyHeap(n), Kept(b, n, Lengths(S)), b.size <= HeapEnd - HeapStart,
         g.address \in Int, g.address # nullptr, \A s \in S : s < g.address,
         GapLength(g.address) \in Int, GapLength(g.address) < HeapEnd - HeapStart,
         GapLength(g.address) >= 0 => g.size = GapLength(g.address),
         GapLength(g.address) < 0 => g.size >= HeapEnd - HeapStart,
         \A s \in S : GapLength(s) \in Int
  PROVE  Kept(Consider(b, n, g), n, Lengths(S \cup {g.address}))
<1>1. Dword(n + HeaderSize) = n + HeaderSize
  BY DwordSmall, HeapAssumption DEF FitsEmptyHeap
<1>2. b.size \in Nat /\ g.size \in Nat
  BY DEF Gap
<1> DEFINE fits == g.size >= n + HeaderSize /\ g.size < b.size
<1>3. CASE fits
  <2>1. Consider(b, n, g) = g
    BY <1>1, <1>3 DEF Consider
  <2>2. g.size = GapLength(g.address)
    BY <1>2, <1>3, HeapAssumption
  <2>3. \A a \in S : GapLength(a) >= n + HeaderSize => g.size < GapLength(a)
    BY <1>2, <1>3 DEF Kept, Lengths
  <2> QED BY <1>2, <2>1, <2>2, <2>3 DEF Kept, Lengths
<1>4. CASE ~fits
  <2>1. Consider(b, n, g) = b
    BY <1>1, <1>4 DEF Consider
  <2>2. ASSUME GapLength(g.address) >= n + HeaderSize
        PROVE  b.address # nullptr /\ b.size <= GapLength(g.address)
    <3>1. g.size = GapLength(g.address)
      BY <2>2, HeapAssumption
    <3> QED BY <1>2, <1>4, <2>2, <3>1, HeapAssumption DEF Kept, Lengths
  <2>3. b.address # nullptr => b.address \in Int /\ b.address < g.address
    BY DEF Kept, Lengths
  <2> QED BY <1>2, <2>1, <2>2, <2>3 DEF Kept, Lengths
<1> QED BY <1>3, <1>4

(* The gaps passed when the search has moved on from p to its successor.   *)
LEMMA PassedNext ==
  ASSUME HeapInv, NEW p \in live, NEW r, IsNext(live, p, r)
  PROVE  Passed(p) \cup {p + size[p]} = IF r = nullptr THEN GapStarts ELSE Passed(r)
<1>1. \A q \in live : q \in Int /\ q # nullptr
  BY LiveBlocks
<1>2. CASE r = nullptr
  <2>1. live = {q \in live : q < p} \cup {p}
    BY <1>1, <1>2 DEF IsNext
  <2> QED BY <1>2, <2>1 DEF Passed, GapStarts
<1>3. CASE r # nullptr
  <2>1. {q \in live : q < r} = {q \in live : q < p} \cup {p}
    BY <1>1, <1>3 DEF IsNext
  <2> QED BY <1>3, <2>1 DEF Passed
<1> QED BY <1>2, <1>3

(* Gaps passed start before the block the search stands at, and have a     *)
(* length.                                                                 *)
LEMMA PassedBefore ==
  ASSUME HeapInv, NEW p \in live, \A q \in live : IsNext(live, q, next[q]),
         IsFirst(live, first)
  PROVE  /\ \A a \in Passed(p) : a \in Int /\ a < p + size[p]
         /\ \A a \in Passed(p) : GapLength(a) \in Int
<1>1. \A q \in live : /\ q \in Int /\ size[q] \in Nat /\ HeapStart + HeaderSize <= q
                      /\ q # nullptr /\ next[q] \in Ptr \cup {nullptr}
  BY LiveBlocks
<1>2. \A q \in live : q < p => q + size[q] <= p - HeaderSize
  BY DEF HeapInv, BlocksDisjoint
<1>3. GapLength(HeapStart) \in Int
  <2>1. first \in live
    BY DEF IsFirst
  <2>2. first # nullptr
    BY <1>1, <2>1
  <2> QED BY <1>1, <2>1, <2>2, LengthInFront, HeapAssumption
<1>4. \A q \in live : GapLength(q + size[q]) \in Int
  <2> SUFFICES ASSUME NEW q \in live PROVE GapLength(q + size[q]) \in Int
    OBVIOUS
  <2>1. GapLength(q + size[q])
          = (IF next[q] = nullptr THEN HeapEnd ELSE next[q]) - (q + size[q]) - HeaderSize
    BY LengthBehind
  <2>2. (IF next[q] = nullptr THEN HeapEnd ELSE next[q]) \in Int
    BY <1>1, PtrPositive, HeapAssumption
  <2> QED BY <1>1, <2>1, <2>2, HeapAssumption
<1>5. \A a \in Passed(p) : a \in Int /\ a < p + size[p]
  BY <1>1, <1>2, HeapAssumption DEF Passed
<1>6. \A a \in Passed(p) : GapLength(a) \in Int
  BY <1>3, <1>4 DEF Passed
<1> QED BY <1>5, <1>6

(***************************************************************************)
(* The steps of the search                                                 *)
(***************************************************************************)

(* Between operations, and while ralloc searches, the list is exactly the  *)
(* blocks in use.                                                          *)
LEMMA ListOfLive ==
  ASSUME HeapInv, NEW c \in Contexts, OthersIdle(c), pc[c] \in Settled
  PROVE  /\ IsFirst(live, first)
         /\ \A q \in live : IsNext(live, q, next[q])
         /\ \A q \in live : IsPrevious(live, q, previous[q])
<1>1. \A d \in Contexts \ {c} : pc[d] = "idle"
  BY DEF OthersIdle
<1>2. InFirst = live /\ InPrevious = live /\ InNext = live
  BY <1>1, Views DEF Settled
<1> QED BY <1>2 DEF HeapInv, ListInOrder

(* The gaps have the same lengths while blocks and their sizes are as they *)
(* were.                                                                   *)
LEMMA LengthsStay ==
  ASSUME live' = live, size' = size
  PROVE  \A T : [a \in T |-> GapLength(a)'] = Lengths(T)
<1>1. \A a : GapLength(a)' = GapLength(a)
  BY DEF GapLength
<1> QED BY <1>1 DEF Lengths

(* A context that is not searching has compared nothing. *)
LEMMA OnlyActiveCompares ==
  ASSUME NEW c \in Contexts, \A d \in Contexts \ {c} : pc'[d] = "idle", Compared(c)'
  PROVE  SearchInv'
BY DEF SearchInv, Compared

(* FirstGap: the gap in front of the first block. *)
LEMMA FirstGapCompares ==
  ASSUME HeapInv, NEW c \in Contexts, OthersIdle(c), FirstGap(c)
  PROVE  SearchInv'
<1> DEFINE g == GapAt(Dword(first - HeapStart - HeaderSize), HeapStart, nullptr, first)
           n == want[c]
           b == Consider(NoGap, n, g)
<1>1. /\ pc[c] = "ralloc" /\ OthersIdle(c) /\ first # nullptr
      /\ best' = [best EXCEPT ![c] = b] /\ cur' = [cur EXCEPT ![c] = first]
      /\ pc' = [pc EXCEPT ![c] = "scan"]
      /\ UNCHANGED <<size, live, want>>
  BY DEF FirstGap, At, Goto
<1>2. /\ best'[c] = b /\ cur'[c] = first /\ pc'[c] = "scan"
      /\ \A d \in Contexts \ {c} : pc'[d] = "idle"
  BY <1>1 DEF HeapInv, TypeOK, OthersIdle
<1>3. IsFirst(live, first) /\ first \in live
  <2>1. IsFirst(live, first)
    BY <1>1, ListOfLive DEF Settled
  <2> QED BY <1>1, <2>1 DEF IsFirst
<1>4. n \in Nat /\ FitsEmptyHeap(n)
  BY <1>1 DEF HeapInv, TypeOK, Knows
<1>5. /\ first \in Int /\ first < HeapEnd /\ HeapStart + HeaderSize <= first
      /\ \A q \in live : q \in Int
  BY <1>3, LiveBlocks
<1>6. GapLength(HeapStart) = first - HeapStart - HeaderSize
  BY <1>1, <1>3, LengthInFront
<1>7. g.address = HeapStart /\ g.size = GapLength(HeapStart) /\ g \in Gap
  <2>1. g \in Gap
    BY <1>1, <1>3, <1>4, FirstGapReal
  <2>2. Dword(first - HeapStart - HeaderSize) = first - HeapStart - HeaderSize
    BY <1>5, DwordSmall, HeapAssumption
  <2> QED BY <1>6, <2>1, <2>2 DEF GapAt
<1>8. NoGap \in Gap /\ NoGap.size <= HeapEnd - HeapStart
  BY HeapAssumption DEF NoGap, Gap
<1>9. Kept(b, n, Lengths({} \cup {g.address}))
  <2>1. Kept(NoGap, n, Lengths({}))
    BY <1>4, NothingKept
  <2> HIDE DEF g, n
  <2> QED BY <1>4, <1>5, <1>6, <1>7, <1>8, <2>1, ConsiderKeeps, HeapAssumption DEF nullptr
<1>10. Passed(first) = {} \cup {g.address}
  <2>1. {q \in live : q < first} = {}
    <3>1. \A q \in live : q \in Int /\ first <= q
      BY <1>3, <1>5, PtrPositive DEF IsFirst
    <3> QED BY <1>5, <3>1
  <2> QED BY <1>7, <2>1 DEF Passed
<1>11. Kept(best[c], want[c], Lengths(Passed(cur[c])))'
  <2>1. Passed(cur[c])' = Passed(first)
    BY <1>1, <1>2 DEF Passed
  <2>2. Lengths(Passed(cur[c]))' = Lengths(Passed(first))
    BY <1>1, <2>1, LengthsStay DEF Lengths
  <2>3. want'[c] = n
    BY <1>1
  <2> HIDE DEF b
  <2> QED BY <1>2, <1>9, <1>10, <2>2, <2>3 DEF Kept
<1>12. Compared(c)'
  BY <1>2, <1>11 DEF Compared
<1> QED BY <1>2, <1>12, OnlyActiveCompares

(* ScanGap: one more gap between two neighbours. *)
LEMMA ScanGapCompares ==
  ASSUME HeapInv, SearchInv, NEW c \in Contexts, OthersIdle(c), ScanGap(c)
  PROVE  SearchInv'
<1> DEFINE p == cur[c]
           r == nxt[c]
           n == want[c]
           g == GapAt(Dword(r - p - size[p] - HeaderSize), p + size[p], p, r)
           b == Consider(best[c], n, g)
<1>1. /\ pc[c] = "scan" /\ OthersIdle(c) /\ r # nullptr
      /\ best' = [best EXCEPT ![c] = b] /\ cur' = [cur EXCEPT ![c] = r]
      /\ pc' = [pc EXCEPT ![c] = "scan"]
      /\ UNCHANGED <<size, live, want>>
  BY DEF ScanGap, At, Goto
<1>2. /\ best'[c] = b /\ cur'[c] = r /\ pc'[c] = "scan"
      /\ \A d \in Contexts \ {c} : pc'[d] = "idle"
  BY <1>1 DEF HeapInv, TypeOK, OthersIdle
<1>3. /\ n \in Nat /\ FitsEmptyHeap(n) /\ p \in live /\ r = next[p] /\ best[c] \in Gap
      /\ best[c].size <= HeapEnd - HeapStart
  BY <1>1 DEF HeapInv, TypeOK, Knows, Searching
<1>4. /\ IsFirst(live, first) /\ \A q \in live : IsNext(live, q, next[q])
  BY <1>1, ListOfLive DEF Settled
<1>5. IsNext(live, p, r) /\ r \in live /\ p < r
  BY <1>1, <1>3, <1>4 DEF IsNext
<1>6. /\ p \in Int /\ size[p] \in Nat /\ p + size[p] \in Int /\ p + size[p] # nullptr
      /\ r \in Int /\ r < HeapEnd /\ HeapStart < p
      /\ p + size[p] <= r - HeaderSize
  <2>1. /\ p \in Int /\ size[p] \in Nat /\ HeapStart + HeaderSize <= p
        /\ r \in Int /\ r < HeapEnd
    BY <1>3, <1>5, LiveBlocks
  <2>2. p + size[p] <= r - HeaderSize
    BY <1>3, <1>5 DEF HeapInv, BlocksDisjoint
  <2>3. p + size[p] \in Int /\ p + size[p] # nullptr /\ HeapStart < p
    <3> HIDE DEF p
    <3> QED BY <2>1, HeapAssumption DEF nullptr
  <2> QED BY <2>1, <2>2, <2>3
<1>7. GapLength(p + size[p]) = r - (p + size[p]) - HeaderSize
  BY <1>1, <1>3, <1>5, LengthBehind
<1>8. g.address = p + size[p] /\ g.size = GapLength(p + size[p]) /\ g \in Gap
  <2>1. g \in Gap
    BY <1>1, <1>3, <1>5, InnerGapReal
  <2>2. Dword(r - p - size[p] - HeaderSize) = r - p - size[p] - HeaderSize
    BY <1>6, DwordSmall, HeapAssumption
  <2>3. r - p - size[p] - HeaderSize = r - (p + size[p]) - HeaderSize
    BY <1>6, HeapAssumption
  <2> QED BY <1>7, <2>1, <2>2, <2>3 DEF GapAt
<1>9. Kept(b, n, Lengths(Passed(p) \cup {g.address}))
  <2>1. Kept(best[c], n, Lengths(Passed(p)))
    BY <1>1 DEF SearchInv, Compared
  <2>2. /\ \A a \in Passed(p) : a \in Int /\ a < p + size[p]
        /\ \A a \in Passed(p) : GapLength(a) \in Int
    BY <1>3, <1>4, PassedBefore
  <2>3. /\ GapLength(g.address) \in Int /\ GapLength(g.address) < HeapEnd - HeapStart
        /\ GapLength(g.address) >= 0
    BY <1>6, <1>7, <1>8, HeapAssumption
  <2>4. Passed(p) \in SUBSET Int
    BY <2>2
  <2>5. g.address \in Int /\ g.address # nullptr /\ \A a \in Passed(p) : a < g.address
    BY <1>6, <1>8, <2>2
  <2> HIDE DEF g, n, p
  <2> QED BY <1>3, <1>8, <2>1, <2>2, <2>3, <2>4, <2>5, ConsiderKeeps
<1>10. Passed(r) = Passed(p) \cup {g.address}
  BY <1>1, <1>3, <1>5, <1>8, PassedNext
<1>11. Kept(best[c], want[c], Lengths(Passed(cur[c])))'
  <2>1. Passed(cur[c])' = Passed(r)
    BY <1>1, <1>2 DEF Passed
  <2>2. Lengths(Passed(cur[c]))' = Lengths(Passed(r))
    BY <1>1, <2>1, LengthsStay DEF Lengths
  <2>3. want'[c] = n
    BY <1>1
  <2> HIDE DEF b
  <2> QED BY <1>2, <1>9, <1>10, <2>2, <2>3 DEF Kept
<1>12. Compared(c)'
  BY <1>2, <1>11 DEF Compared
<1> QED BY <1>2, <1>12, OnlyActiveCompares

(* TailGap: the gap behind the last block, and the decision. *)
LEMMA TailGapCompares ==
  ASSUME HeapInv, SearchInv, NEW c \in Contexts, OthersIdle(c), TailGap(c)
  PROVE  SearchInv'
<1> DEFINE p == cur[c]
           n == want[c]
           free == HeapEnd - p - size[p] - HeaderSize
           g == LastGap(c)
           b == Consider(best[c], n, g)
           l == IF b.address # nullptr THEN "header" ELSE "throw"
<1>1. /\ pc[c] = "scan" /\ OthersIdle(c) /\ nxt[c] = nullptr
      /\ best' = [best EXCEPT ![c] = b] /\ pc' = [pc EXCEPT ![c] = l]
      /\ UNCHANGED <<size, live, want, cur>>
  BY DEF TailGap, At, Goto
<1>2. /\ best'[c] = b /\ pc'[c] = l
      /\ \A d \in Contexts \ {c} : pc'[d] = "idle"
  BY <1>1 DEF HeapInv, TypeOK, OthersIdle
<1>3. /\ n \in Nat /\ FitsEmptyHeap(n) /\ p \in live /\ next[p] = nullptr /\ best[c] \in Gap
      /\ best[c].size <= HeapEnd - HeapStart
  BY <1>1 DEF HeapInv, TypeOK, Knows, Searching
<1>4. /\ IsFirst(live, first) /\ \A q \in live : IsNext(live, q, next[q])
  BY <1>1, ListOfLive DEF Settled
<1>5. IsNext(live, p, nullptr)
  BY <1>3, <1>4
<1>6. /\ p \in Int /\ size[p] \in Nat /\ p + size[p] \in Int /\ p + size[p] # nullptr
      /\ HeapStart + HeaderSize <= p /\ p + size[p] <= HeapEnd /\ free \in Int
  BY <1>3, LiveBlocks, HeapAssumption DEF nullptr
<1>7. GapLength(p + size[p]) = free
  <2>1. GapLength(p + size[p]) = HeapEnd - (p + size[p]) - HeaderSize
    BY <1>3, <1>5, LengthBehind
  <2> QED BY <1>6, <2>1, HeapAssumption
<1>8. /\ g.address = p + size[p] /\ g \in Gap
      /\ free >= 0 => g.size = free
      /\ free < 0 => g.size >= HeapEnd - HeapStart
  <2>1. g \in Gap
    BY <1>3, <1>5, LastGapReal DEF LastGap
  <2>2. g.address = p + size[p] /\ g.size = Dword(free)
    BY DEF LastGap, GapAt
  <2>3. ASSUME free >= 0 PROVE Dword(free) = free
    BY <1>6, <2>3, DwordSmall, HeapAssumption
  <2>4. ASSUME free < 0 PROVE Dword(free) = free + Word
    BY <1>6, <2>4, DwordWraps, HeapAssumption
  <2>5. free + Word >= HeapEnd - HeapStart
    BY <1>6, HeapAssumption
  <2> QED BY <2>1, <2>2, <2>3, <2>4, <2>5
<1>9. Kept(b, n, Lengths(Passed(p) \cup {g.address}))
  <2>1. Kept(best[c], n, Lengths(Passed(p)))
    BY <1>1 DEF SearchInv, Compared
  <2>2. /\ \A a \in Passed(p) : a \in Int /\ a < p + size[p]
        /\ \A a \in Passed(p) : GapLength(a) \in Int
    BY <1>3, <1>4, PassedBefore
  <2>3. /\ GapLength(g.address) \in Int /\ GapLength(g.address) < HeapEnd - HeapStart
        /\ GapLength(g.address) >= 0 => g.size = GapLength(g.address)
        /\ GapLength(g.address) < 0 => g.size >= HeapEnd - HeapStart
    BY <1>6, <1>7, <1>8, HeapAssumption
  <2>4. Passed(p) \in SUBSET Int
    BY <2>2
  <2>5. g.address \in Int /\ g.address # nullptr /\ \A a \in Passed(p) : a < g.address
    BY <1>6, <1>8, <2>2
  <2> HIDE DEF g, n, p
  <2> QED BY <1>3, <1>8, <2>1, <2>2, <2>3, <2>4, <2>5, ConsiderKeeps
<1>10. GapStarts = Passed(p) \cup {g.address}
  BY <1>3, <1>5, <1>8, PassedNext
<1>11. Kept(best[c], want[c], Lengths(GapStarts))'
  <2>1. GapStarts' = GapStarts
    BY <1>1 DEF GapStarts
  <2>2. Lengths(GapStarts)' = Lengths(GapStarts)
    BY <1>1, <2>1, LengthsStay DEF Lengths
  <2>3. want'[c] = n
    BY <1>1
  <2> HIDE DEF b
  <2> QED BY <1>2, <1>9, <1>10, <2>2, <2>3 DEF Kept
<1>12. pc'[c] = "throw" => best'[c].address = nullptr
  BY <1>2
<1>13. (cur[c] \in live /\ IsNext(live, cur[c], nullptr))'
  BY <1>1, <1>3, <1>5 DEF IsNext
<1>14. Compared(c)'
  <2>1. pc'[c] # "scan"
    BY <1>2
  <2> QED BY <1>11, <1>12, <1>13, <2>1 DEF Compared
<1> QED BY <1>2, <1>14, OnlyActiveCompares

(* A step that neither searches nor decides leaves nothing compared. *)
LEMMA OtherStepsCompare ==
  ASSUME HeapInv, NEW c \in Contexts, OthersIdle(c), NEW l,
         pc' = [pc EXCEPT ![c] = l], l \notin {"scan", "header", "throw"}
  PROVE  SearchInv'
BY DEF HeapInv, TypeOK, OthersIdle, SearchInv, Compared

(* EmptyHeap decides without comparing, on a heap without blocks. *)
LEMMA EmptyHeapCompares ==
  ASSUME HeapInv, NEW c \in Contexts, OthersIdle(c), EmptyHeap(c)
  PROVE  SearchInv'
<1>1. /\ pc[c] = "ralloc" /\ OthersIdle(c) /\ first = nullptr /\ live' = live
      /\ pc' = [pc EXCEPT ![c] = "header"]
  BY DEF EmptyHeap, At, Goto
<1>2. IsFirst(live, first)
  BY <1>1, ListOfLive DEF Settled
<1>3. live = {}
  BY <1>1, <1>2, LiveBlocks DEF IsFirst
<1> QED BY <1>1, <1>3 DEF HeapInv, TypeOK, OthersIdle, SearchInv, Compared

(* Every step of a heap that nobody else is inside keeps what the search   *)
(* has compared.                                                           *)
LEMMA SearchNext ==
  ASSUME HeapInv, SearchInv, [Next]_vars, [Undisturbed]_vars
  PROVE  SearchInv'
<1>1. CASE UNCHANGED vars
  <2> SUFFICES ASSUME NEW c \in Contexts PROVE Compared(c)'
    BY DEF SearchInv
  <2>1. UNCHANGED <<pc, best, want, cur, live, size>>
    BY <1>1 DEF vars
  <2>2. Passed(cur[c])' = Passed(cur[c]) /\ GapStarts' = GapStarts
    BY <2>1 DEF Passed, GapStarts
  <2>3. /\ Lengths(Passed(cur[c]))' = Lengths(Passed(cur[c]))
        /\ Lengths(GapStarts)' = Lengths(GapStarts)
    BY <2>1, <2>2, LengthsStay DEF Lengths
  <2>4. IsNext(live, cur[c], nullptr)' <=> IsNext(live, cur[c], nullptr)
    BY <2>1 DEF IsNext
  <2>5. Compared(c)
    BY DEF SearchInv
  <2>6. pc'[c] = "scan" => Kept(best[c], want[c], Lengths(Passed(cur[c])))'
    BY <2>1, <2>3, <2>5 DEF Compared, Kept
  <2>7. pc'[c] = "header" /\ live' # {} => Kept(best[c], want[c], Lengths(GapStarts))'
    BY <2>1, <2>3, <2>5 DEF Compared, Kept
  <2>8. pc'[c] = "throw" => Kept(best[c], want[c], Lengths(GapStarts))'
    BY <2>1, <2>3, <2>5 DEF Compared, Kept
  <2> QED BY <2>1, <2>4, <2>5, <2>6, <2>7, <2>8 DEF Compared
<1>2. ASSUME NEW c \in Contexts, Call(c), OthersIdle(c) PROVE SearchInv'
  <2>1. ASSUME NEW n, Ralloc(c, n) PROVE SearchInv'
    BY <1>2, <2>1, OtherStepsCompare DEF Ralloc, At, Goto
  <2>2. ASSUME NEW p, Unalloc(c, p) PROVE SearchInv'
    BY <1>2, <2>2, OtherStepsCompare DEF Unalloc, At, Goto
  <2>3. ASSUME NEW p, NEW n, ChallocMove(c, p, n) PROVE SearchInv'
    BY <1>2, <2>3, OtherStepsCompare DEF ChallocMove, At, Goto
  <2>4. ASSUME NEW p, NEW n, ChallocShrink(c, p, n) \/ ChallocInPlace(c, p, n)
        PROVE  SearchInv'
    <3>1. OthersIdle(c) /\ pc' = [pc EXCEPT ![c] = "idle"]
      BY <1>2, <2>4 DEF HeapInv, TypeOK, ChallocShrink, ChallocInPlace, At
    <3> QED BY <3>1, OtherStepsCompare
  <2> QED BY <1>2, <2>1, <2>2, <2>3, <2>4 DEF Call
<1>3. ASSUME NEW c \in Contexts, Step(c), OthersIdle(c) PROVE SearchInv'
  <2>1. CASE EmptyHeap(c) \/ FirstGap(c) \/ ScanGap(c) \/ TailGap(c)
    BY <1>3, <2>1, EmptyHeapCompares, FirstGapCompares, ScanGapCompares, TailGapCompares
  <2>2. CASE WriteHeader(c) \/ LinkPrevious(c) \/ LinkNext(c)
    BY <1>3, <2>2, OtherStepsCompare DEF WriteHeader, LinkPrevious, LinkNext, At, Goto
  <2>3. CASE Publish(c) \/ Throw(c)
    <3> DEFINE l == pc'[c]
    <3>1. /\ OthersIdle(c) /\ pc' = [pc EXCEPT ![c] = l] /\ l \in {"idle", "copy", "halted"}
      BY <1>3, <2>3 DEF HeapInv, TypeOK, Publish, Throw, At, Goto
    <3> HIDE DEF l
    <3> QED BY <3>1, OtherStepsCompare
  <2>4. CASE CopyAndRelease(c) \/ UnlinkFirst(c) \/ UnlinkNext(c) \/ UnlinkPrevious(c)
    BY <1>3, <2>4, OtherStepsCompare
    DEF CopyAndRelease, UnlinkFirst, UnlinkNext, UnlinkPrevious, At, Goto
  <2> QED BY <1>3, <2>1, <2>2, <2>3, <2>4 DEF Step
<1> QED BY <1>1, <1>2, <1>3 DEF Next, Undisturbed

(***************************************************************************)
(* The theorems                                                            *)
(***************************************************************************)

(* The search invariant: whatever ralloc remembers is the tightest of the  *)
(* gaps it has passed, the lowest among equals.                            *)
THEOREM HeapSearchInvariance == Careful => (Spec /\ OneAtATime => []SearchInv)
<1> SUFFICES ASSUME Careful PROVE Spec /\ OneAtATime => []SearchInv
  OBVIOUS
<1>1. Init => SearchInv
  BY DEF Init, SearchInv, Compared
<1>2. HeapInv /\ SearchInv /\ [Next]_vars /\ [Undisturbed]_vars => SearchInv'
  BY SearchNext
<1>3. Spec /\ OneAtATime => []HeapInv
  BY HeapInvariance
<1> QED BY <1>1, <1>2, <1>3, PTL DEF Spec, OneAtATime

(* ralloc is best fit: when it links a block in, every other gap that      *)
(* holds the block is longer, or as long and further up.                   *)
THEOREM HeapBestFit == Careful => (Spec /\ OneAtATime => []BestFit)
<1>1. SearchInv => BestFit
  <2> SUFFICES ASSUME SearchInv, NEW c \in Contexts, pc[c] = "header", live # {},
                      NEW a \in GapStarts, GapLength(a) >= want[c] + HeaderSize
               PROVE  \/ GapLength(best[c].address) < GapLength(a)
                      \/ /\ GapLength(best[c].address) = GapLength(a)
                         /\ best[c].address <= a
    BY DEF BestFit
  <2>1. Kept(best[c], want[c], Lengths(GapStarts))
    BY DEF SearchInv, Compared
  <2> QED BY <2>1 DEF Kept, Lengths
<1> QED BY <1>1, HeapSearchInvariance, PTL

(* A set of addresses has a lowest one. *)
LEMMA LowestAddress ==
  ASSUME NEW T \in SUBSET Nat, T # {}
  PROVE  \E x \in T : \A y \in T : x <= y
<1> DEFINE Below == OpToRel(<, Nat)
<1>1. Below = {p \in Nat \X Nat : p[1] < p[2]}
  BY DEF OpToRel
<1>2. IsWellFoundedOn(Below, Nat)
  BY NatLessThanWellFounded, Zenon
<1> HIDE DEF Below
<1>3. PICK x \in T : \A y \in T : ~(<<y, x>> \in Below)
  BY <1>2, WFMin
<1>4. \A y \in T : ~(y < x)
  BY <1>1, <1>3
<1> QED BY <1>4

(* When the search has kept nothing, free room of n bytes and a header     *)
(* would have to be behind the last block, where the code keeps a spare    *)
(* header as well.                                                         *)
LEMMA NothingHolds ==
  ASSUME HeapInv, IsFirst(live, first), NEW n \in Nat,
         \A q \in live : IsNext(live, q, next[q]),
         \A q \in live : IsPrevious(live, q, previous[q]),
         \A a \in GapStarts : ~(GapLength(a) >= n + HeaderSize),
         NEW p \in live, IsNext(live, p, nullptr),
         NEW a \in HeapStart .. HeapEnd, FreeAt(a, n)
  PROVE  (\A q \in live : q <= a) /\ a + n + 2 * HeaderSize > HeapEnd
<1> DEFINE after == {q \in live : a + HeaderSize + n <= q - HeaderSize}
<1>1. \A q \in live : /\ q \in Nat /\ q # nullptr /\ size[q] \in Nat
                      /\ q + size[q] \in GapStarts
  <2>1. \A q \in live : q \in Ptr /\ q # nullptr /\ size[q] \in Nat
    BY LiveBlocks
  <2> QED BY <2>1, HeapAssumption DEF GapStarts, Ptr
<1>2. a \in Int /\ HeapStart <= a
  BY HeapAssumption
<1>3. \A q \in live : q \in after \/ q + size[q] <= a
  BY DEF FreeAt
<1>4. after = {}
  <2> SUFFICES ASSUME after # {} PROVE FALSE
    OBVIOUS
  <2>1. PICK r \in after : \A y \in after : r <= y
    <3>1. after \in SUBSET Nat
      BY <1>1
    <3> HIDE DEF after
    <3> QED BY <3>1, LowestAddress
  <2>2. r \in live /\ r \in Nat /\ a + HeaderSize + n <= r - HeaderSize
    BY <1>1, <2>1
  <2>3. CASE previous[r] = nullptr
    <3>1. first = r
      <4>1. \A s \in live : r <= s
        BY <1>1, <2>2, <2>3 DEF IsPrevious
      <4>2. first \in live /\ first <= r
        BY <2>2 DEF IsFirst
      <4>3. first \in Nat /\ r <= first
        BY <1>1, <4>1, <4>2
      <4> QED BY <2>2, <4>2, <4>3
    <3>2. GapLength(HeapStart) = r - HeapStart - HeaderSize
      BY <1>1, <2>2, <3>1, LengthInFront
    <3>3. HeapStart \in GapStarts
      BY DEF GapStarts
    <3> QED BY <1>2, <2>2, <3>2, <3>3, HeapAssumption
  <2>4. CASE previous[r] # nullptr
    <3> DEFINE q == previous[r]
    <3>1. q \in live /\ q < r /\ IsNext(live, q, r)
      <4>1. q \in live /\ q < r /\ \A s \in live : r <= s \/ s <= q
        BY <2>2, <2>4 DEF IsPrevious
      <4> QED BY <1>1, <2>2, <4>1 DEF IsNext
    <3>2. q + size[q] <= a
      <4>1. q \notin after
        <5>1. q \in Nat /\ q < r
          BY <1>1, <3>1
        <5> HIDE DEF q
        <5> QED BY <2>1, <2>2, <5>1
      <4> QED BY <1>3, <3>1, <4>1
    <3>3. GapLength(q + size[q]) = r - (q + size[q]) - HeaderSize
      BY <1>1, <2>2, <3>1, LengthBehind
    <3>4. q \in Nat /\ size[q] \in Nat /\ q + size[q] \in GapStarts
      BY <1>1, <3>1
    <3> HIDE DEF q
    <3> QED BY <1>2, <2>2, <3>2, <3>3, <3>4, HeapAssumption
  <2> QED BY <2>3, <2>4
<1>5. \A q \in live : q + size[q] <= a
  BY <1>3, <1>4
<1>6. \A q \in live : q <= a
  BY <1>1, <1>2, <1>5
<1>7. GapLength(p + size[p]) = HeapEnd - (p + size[p]) - HeaderSize
  BY LengthBehind
<1>8. a + n + 2 * HeaderSize > HeapEnd
  BY <1>1, <1>2, <1>5, <1>7, HeapAssumption
<1> QED BY <1>6, <1>8

(* ralloc throws only when no gap holds the block: free room for it can    *)
(* exist only behind the last block, and then without the spare header     *)
(* that heap.c keeps there.                                                *)
THEOREM HeapThrowMeansNoGap == Careful => (Spec /\ OneAtATime => []ThrowMeansNoGap)
<1> SUFFICES ASSUME Careful PROVE Spec /\ OneAtATime => []ThrowMeansNoGap
  OBVIOUS
<1>1. HeapInv /\ SearchInv => ThrowMeansNoGap
  <2> SUFFICES ASSUME HeapInv, SearchInv, NEW c \in Contexts, pc[c] = "throw",
                      NEW a \in HeapStart .. HeapEnd, FreeAt(a, want[c])
               PROVE  (\A q \in live : q <= a) /\ a + want[c] + 2 * HeaderSize > HeapEnd
    BY DEF ThrowMeansNoGap
  <2>1. /\ best[c].address = nullptr /\ Kept(best[c], want[c], Lengths(GapStarts))
        /\ cur[c] \in live /\ IsNext(live, cur[c], nullptr)
    BY DEF SearchInv, Compared
  <2>2. \A s \in GapStarts : ~(GapLength(s) >= want[c] + HeaderSize)
    BY <2>1 DEF Kept, Lengths
  <2>3. OthersIdle(c) /\ want[c] \in Nat
    BY DEF HeapInv, TypeOK, OneActive, OthersIdle
  <2>4. /\ IsFirst(live, first)
        /\ \A q \in live : IsNext(live, q, next[q])
        /\ \A q \in live : IsPrevious(live, q, previous[q])
    BY <2>3, ListOfLive DEF Settled
  <2> QED BY <2>1, <2>2, <2>3, <2>4, NothingHolds
<1> QED BY <1>1, HeapInvariance, HeapSearchInvariance, PTL

(***************************************************************************)
(* Progress                                                                *)
(***************************************************************************)

(* What each label has left to do; an operation that is done, or that the  *)
(* kernel's handler stopped, has nothing left.                             *)
Rank == [l \in Labels |->
  CASE l = "ralloc"             -> 11
    [] l = "scan"               -> 10
    [] l \in {"header", "throw"} -> 9
    [] l = "link_prev"          -> 8
    [] l = "link_next"          -> 7
    [] l = "publish"            -> 6
    [] l = "copy"               -> 5
    [] l = "un_first"           -> 4
    [] l = "un_next"            -> 3
    [] l = "un_prev"            -> 2
    [] OTHER                    -> 0]

(* The work left at label l with current block a: in the search of ralloc  *)
(* the part of the heap behind that block counts, too.                     *)
Span == HeapEnd - HeapStart + 1
Work(l, a) == Rank[l] * Span + (IF l = "scan" THEN HeapEnd - a ELSE 0)

WorkLeft(c) == Work(pc[c], cur[c])

(* Work is a natural number, below a bound that depends on the size of the *)
(* heap alone, and a context that has work left is alone in the heap code. *)
WorkBounded ==
  \A c \in Contexts :
    /\ WorkLeft(c) \in 0 .. 12 * Span
    /\ WorkLeft(c) = 0 <=> pc[c] \in {"idle", "halted"}
    /\ WorkLeft(c) # 0 => OthersIdle(c)

(* Every step of the system while an operation is under way is one of its  *)
(* own and leaves it less to do.                                           *)
WorkDecreases == \A c \in Contexts : WorkLeft(c) # 0 => WorkLeft(c)' < WorkLeft(c)

(* The labels in the order in which an operation passes them. *)
LEMMA RankIs ==
  /\ Rank["ralloc"] = 11 /\ Rank["scan"] = 10 /\ Rank["header"] = 9 /\ Rank["throw"] = 9
  /\ Rank["link_prev"] = 8 /\ Rank["link_next"] = 7 /\ Rank["publish"] = 6
  /\ Rank["copy"] = 5 /\ Rank["un_first"] = 4 /\ Rank["un_next"] = 3 /\ Rank["un_prev"] = 2
  /\ Rank["idle"] = 0 /\ Rank["halted"] = 0
BY DEF Rank, Labels

(* A label further on has less work left, wherever the search is. *)
LEMMA WorkIs ==
  ASSUME NEW l \in Labels, NEW a, l = "scan" => a \in Ptr
  PROVE  /\ Rank[l] \in 0 .. 11 /\ (Rank[l] = 0 <=> l \in {"idle", "halted"})
         /\ Span \in Nat /\ Span > 0
         /\ Work(l, a) \in Nat /\ Rank[l] * Span <= Work(l, a)
         /\ Work(l, a) < (Rank[l] + 1) * Span
         /\ Rank[l] = 0 => Work(l, a) = 0
<1>1. Rank[l] \in 0 .. 11 /\ (Rank[l] = 0 <=> l \in {"idle", "halted"})
  BY RankIs DEF Labels
<1>2. Span \in Nat /\ Span > 0
  BY HeapAssumption DEF Span
<1>3. CASE l = "scan"
  <2>1. HeapEnd - a \in Nat /\ HeapEnd - a < Span
    BY <1>3, HeapAssumption DEF Ptr, Span
  <2>2. Work(l, a) = 10 * Span + (HeapEnd - a) /\ Rank[l] = 10
    BY <1>3, RankIs DEF Work
  <2> QED BY <1>1, <1>2, <2>1, <2>2
<1>4. CASE l # "scan"
  <2>1. ASSUME NEW r \in 0 .. 11 PROVE r * Span \in Nat /\ r * Span < (r + 1) * Span
    <3>1. \/ r = 0 \/ r = 1 \/ r = 2 \/ r = 3 \/ r = 4 \/ r = 5
          \/ r = 6 \/ r = 7 \/ r = 8 \/ r = 9 \/ r = 10 \/ r = 11
      OBVIOUS
    <3> QED BY <1>2, <3>1
  <2>2. Work(l, a) = Rank[l] * Span
    BY <1>1, <1>2, <1>4, <2>1 DEF Work
  <2> QED BY <1>1, <1>2, <2>1, <2>2
<1> QED BY <1>3, <1>4

(* A step to a label further on leaves less to do. *)
LEMMA WorkFalls ==
  ASSUME NEW l \in Labels, NEW a, l = "scan" => a \in Ptr,
         NEW m \in Labels, NEW b, m = "scan" => b \in Ptr,
         Rank[m] < Rank[l]
  PROVE  Work(m, b) < Work(l, a)
<1>1. /\ Rank[l] \in 0 .. 11 /\ Rank[m] \in 0 .. 11 /\ Span \in Nat
      /\ Work(l, a) \in Nat /\ Rank[l] * Span <= Work(l, a)
      /\ Work(m, b) \in Nat /\ Work(m, b) < (Rank[m] + 1) * Span
  BY WorkIs
<1>2. ASSUME NEW r \in 0 .. 11, NEW s \in 0 .. 11, r < s
      PROVE  (r + 1) * Span <= s * Span
  <2>1. PICK k \in Nat : s = (r + 1) + k
    BY <1>2
  <2>2. s * Span = (r + 1) * Span + k * Span /\ k * Span \in Nat /\ (r + 1) * Span \in Nat
    BY <1>1, <2>1
  <2> QED BY <2>2
<1>3. (Rank[m] + 1) * Span <= Rank[l] * Span
  BY <1>1, <1>2
<1>4. (Rank[m] + 1) * Span \in Nat /\ Rank[l] * Span \in Nat
  BY <1>1
<1> QED BY <1>1, <1>3, <1>4

(* The search stands at a block in use. *)
LEMMA SearchStands ==
  ASSUME HeapInv, NEW c \in Contexts
  PROVE  pc[c] \in Labels /\ (pc[c] = "scan" => cur[c] \in live /\ cur[c] \in Ptr)
BY DEF HeapInv, TypeOK, Knows, Searching

(* The bound, and that whoever is inside the heap is not kept from going   *)
(* on.                                                                     *)
LEMMA HeapInvBoundsWork == HeapInv => WorkBounded
<1> SUFFICES ASSUME HeapInv, NEW c \in Contexts
             PROVE  /\ WorkLeft(c) \in 0 .. 12 * Span
                    /\ WorkLeft(c) = 0 <=> pc[c] \in {"idle", "halted"}
                    /\ WorkLeft(c) # 0 => OthersIdle(c)
  BY DEF WorkBounded
<1>1. /\ Rank[pc[c]] \in 0 .. 11 /\ (Rank[pc[c]] = 0 <=> pc[c] \in {"idle", "halted"})
      /\ Span \in Nat /\ Span > 0
      /\ WorkLeft(c) \in Nat /\ Rank[pc[c]] * Span <= WorkLeft(c)
      /\ WorkLeft(c) < (Rank[pc[c]] + 1) * Span
      /\ Rank[pc[c]] = 0 => WorkLeft(c) = 0
  BY SearchStands, WorkIs DEF WorkLeft
<1>2. ASSUME NEW r \in 0 .. 11
      PROVE  /\ r * Span \in Nat /\ (r # 0 => r * Span > 0)
             /\ (r + 1) * Span \in Nat /\ (r + 1) * Span <= 12 * Span
  <2>1. \/ r = 0 \/ r = 1 \/ r = 2 \/ r = 3 \/ r = 4 \/ r = 5
        \/ r = 6 \/ r = 7 \/ r = 8 \/ r = 9 \/ r = 10 \/ r = 11
    OBVIOUS
  <2> QED BY <1>1, <2>1
<1>3. /\ Rank[pc[c]] * Span \in Nat /\ (Rank[pc[c]] # 0 => Rank[pc[c]] * Span > 0)
      /\ (Rank[pc[c]] + 1) * Span \in Nat /\ (Rank[pc[c]] + 1) * Span <= 12 * Span
  BY <1>1, <1>2
<1>4. WorkLeft(c) \in 0 .. 12 * Span
  BY <1>1, <1>3
<1>5. WorkLeft(c) = 0 <=> pc[c] \in {"idle", "halted"}
  BY <1>1, <1>3
<1>6. WorkLeft(c) # 0 => OthersIdle(c)
  BY <1>5 DEF HeapInv, OneActive, OthersIdle
<1> QED BY <1>4, <1>5, <1>6

(* A turn of the search moves to a block at a higher address, so the loop  *)
(* of ralloc ends.                                                         *)
LEMMA ScanGapDecreases ==
  ASSUME HeapInv, NEW c \in Contexts, OthersIdle(c), ScanGap(c)
  PROVE  WorkLeft(c)' < WorkLeft(c)
<1>1. /\ pc[c] = "scan" /\ OthersIdle(c) /\ nxt[c] # nullptr
      /\ pc'[c] = "scan" /\ cur'[c] = nxt[c]
  BY DEF ScanGap, At, Goto, HeapInv, TypeOK
<1>2. cur[c] \in live /\ nxt[c] = next[cur[c]] /\ cur[c] \in Int
  BY <1>1, LiveBlocks DEF HeapInv, Knows, Searching
<1>3. IsNext(live, cur[c], nxt[c])
  BY <1>1, <1>2, ListOfLive DEF Settled
<1>4. nxt[c] \in Int /\ cur[c] < nxt[c]
  BY <1>1, <1>3, LiveBlocks DEF IsNext
<1>5. Rank["scan"] * Span \in Int
  BY RankIs, HeapAssumption DEF Span
<1> QED BY <1>1, <1>2, <1>4, <1>5, HeapAssumption DEF WorkLeft, Work

(* Every other step of ralloc, unalloc and challoc goes to a label further *)
(* on: only the search ever turns back.                                    *)
LEMMA StepDecreases ==
  ASSUME HeapInv, HeapInv', NEW c \in Contexts, OthersIdle(c), Step(c)
  PROVE  WorkLeft(c)' < WorkLeft(c)
<1>1. CASE ScanGap(c)
  BY <1>1, ScanGapDecreases
<1>2. CASE ~ScanGap(c)
  <2>1. Rank[pc'[c]] < Rank[pc[c]]
    <3>1. CASE EmptyHeap(c)
      BY <3>1, RankIs DEF EmptyHeap, At, Goto, HeapInv, TypeOK
    <3>2. CASE FirstGap(c)
      BY <3>2, RankIs DEF FirstGap, At, Goto, HeapInv, TypeOK
    <3>3. CASE TailGap(c)
      BY <3>3, RankIs DEF TailGap, At, Goto, HeapInv, TypeOK
    <3>4. CASE WriteHeader(c)
      BY <3>4, RankIs DEF WriteHeader, At, Goto, HeapInv, TypeOK
    <3>5. CASE LinkPrevious(c)
      BY <3>5, RankIs DEF LinkPrevious, At, Goto, HeapInv, TypeOK
    <3>6. CASE LinkNext(c)
      BY <3>6, RankIs DEF LinkNext, At, Goto, HeapInv, TypeOK
    <3>7. CASE Publish(c)
      BY <3>7, RankIs DEF Publish, At, Goto, HeapInv, TypeOK
    <3>8. CASE Throw(c)
      BY <3>8, RankIs DEF Throw, At, Goto, HeapInv, TypeOK
    <3>9. CASE CopyAndRelease(c)
      BY <3>9, RankIs DEF CopyAndRelease, At, Goto, HeapInv, TypeOK
    <3>10. CASE UnlinkFirst(c) \/ UnlinkNext(c) \/ UnlinkPrevious(c)
      BY <3>10, RankIs DEF UnlinkFirst, UnlinkNext, UnlinkPrevious, At, Goto, HeapInv, TypeOK
    <3> QED BY <1>2, <3>1, <3>2, <3>3, <3>4, <3>5, <3>6, <3>7, <3>8, <3>9, <3>10 DEF Step
  <2>2. /\ pc[c] \in Labels /\ (pc[c] = "scan" => cur[c] \in Ptr)
        /\ pc'[c] \in Labels /\ (pc'[c] = "scan" => cur'[c] \in Ptr)
    BY DEF HeapInv, TypeOK, Knows, Searching
  <2> QED BY <2>1, <2>2, WorkFalls DEF WorkLeft
<1> QED BY <1>1, <1>2

(* While one context works, no other enters the heap, and it does not      *)
(* start anew.                                                             *)
LEMMA OnlyWorkerSteps ==
  ASSUME HeapInv, NEW c \in Contexts, WorkLeft(c) # 0, Next, Undisturbed
  PROVE  Step(c)
<1>1. pc[c] # "idle"
  BY HeapInvBoundsWork DEF WorkBounded
<1>2. ~Call(c)
  BY <1>1 DEF Call, Ralloc, Unalloc, ChallocShrink, ChallocInPlace, ChallocMove, At
<1>3. \A d \in Contexts : OthersIdle(d) => d = c
  BY <1>1 DEF OthersIdle
<1> QED BY <1>2, <1>3 DEF Next, Undisturbed

(* ralloc, unalloc and challoc end: each has less work left after every    *)
(* step, of anybody, than before it, and starts with at most a multiple of *)
(* the heap's size.  The search cannot run in circles, because heap.c      *)
(* keeps the list in address order.                                        *)
THEOREM HeapProgress ==
  Careful => (Spec /\ OneAtATime => []WorkBounded /\ [][WorkDecreases]_vars)
<1> SUFFICES ASSUME Careful
             PROVE  Spec /\ OneAtATime => []WorkBounded /\ [][WorkDecreases]_vars
  OBVIOUS
<1>1. HeapInv => WorkBounded
  BY HeapInvBoundsWork
<1>2. HeapInv /\ HeapInv' /\ [Next]_vars /\ [Undisturbed]_vars => [WorkDecreases]_vars
  <2> SUFFICES ASSUME HeapInv, HeapInv', Next, Undisturbed, NEW c \in Contexts, WorkLeft(c) # 0
               PROVE  WorkLeft(c)' < WorkLeft(c)
    BY DEF WorkDecreases
  <2>1. Step(c) /\ OthersIdle(c)
    BY <1>1, OnlyWorkerSteps DEF WorkBounded
  <2> QED BY <2>1, StepDecreases
<1> QED BY <1>1, <1>2, HeapInvariance, PTL DEF Spec, OneAtATime
============================================================================
