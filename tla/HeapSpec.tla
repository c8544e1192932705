----------------------------- MODULE HeapSpec -----------------------------
(***************************************************************************)
(* What the MushLib heap (lib/base/heap.h) promises its callers, with no   *)
(* list, no headers to follow and no search: a set of blocks, each known   *)
(* by the pointer handed out and by the size that was asked for.  A block  *)
(* occupies its bytes and the HeaderSize bytes in front of them.           *)
(***************************************************************************)
EXTENDS Integers

CONSTANTS HeapStart,   (* first byte the heap may use                      *)
          HeapEnd,     (* first byte behind the heap                       *)
          HeaderSize,  (* bytes of a heap_block_header                     *)
          Sizes        (* the sizes callers ask for                        *)

VARIABLE blocks        (* pointer |-> size of every block in use           *)

Pointers == HeapStart .. HeapEnd

(* A block of n bytes at p lies inside the heap. *)
Inside(p, n) == HeapStart + HeaderSize <= p /\ p + n <= HeapEnd

(* A block of n bytes at p shares no byte with the block q. *)
Apart(p, n, q) == \/ p + n <= q - HeaderSize
                  \/ q + blocks[q] <= p - HeaderSize

Free(S, p, n) == Inside(p, n) /\ \A q \in S : Apart(p, n, q)

Init == blocks = [p \in {} |-> 0]

(* ralloc, zalloc: a new block in a place nobody uses. *)
Allocate ==
  \E p \in Pointers, n \in Sizes :
    /\ p \notin DOMAIN blocks
    /\ Free(DOMAIN blocks, p, n)
    /\ blocks' = [q \in DOMAIN blocks \cup {p} |->
                    IF q = p THEN n ELSE blocks[q]]

(* unalloc *)
Release ==
  \E p \in DOMAIN blocks :
    blocks' = [q \in DOMAIN blocks \ {p} |-> blocks[q]]

(* challoc in place: the pointer stays, the other blocks stay. *)
Resize ==
  \E p \in DOMAIN blocks, n \in Sizes :
    /\ Free(DOMAIN blocks \ {p}, p, n)
    /\ blocks' = [blocks EXCEPT ![p] = n]

Next == Allocate \/ Release \/ Resize

Spec == Init /\ [][Next]_blocks
============================================================================
