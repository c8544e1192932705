---------------------------- MODULE AddressSpace ----------------------------
(***************************************************************************)
(* What paging promises to tasks (docs/sources/memory_map.md: "Kernel      *)
(* mappings are shared; user pages are deep-copied"): every directory has  *)
(* user pages of its own.  A fork starts a directory with a copy of them;  *)
(* from then on nobody sees what anybody else writes.                      *)
(***************************************************************************)
CONSTANTS UserPages,  (* the pages of a task                               *)
          Contents,   (* what a page can hold                              *)
          Names       (* what a directory can be called                    *)

VARIABLE spaces       (* directory |-> contents of its user pages          *)

Init == spaces = [d \in {} |-> {}]

(* initialise_paging: the kernel's own directory. *)
Start ==
  /\ DOMAIN spaces = {}
  /\ \E d \in Names, c \in [UserPages -> Contents] : spaces' = [x \in {d} |-> c]

(* The running task writes one of its pages. *)
Write ==
  \E d \in DOMAIN spaces, p \in UserPages, v \in Contents :
    spaces' = [spaces EXCEPT ![d][p] = v]

(* clone_directory *)
Clone ==
  \E d \in DOMAIN spaces, e \in Names :
    /\ e \notin DOMAIN spaces
    /\ spaces' = [x \in DOMAIN spaces \cup {e} |->
                    IF x = e THEN spaces[d] ELSE spaces[x]]

Next == Start \/ Write \/ Clone

Spec == Init /\ [][Next]_spaces
============================================================================
