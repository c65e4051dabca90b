--------------------------- MODULE MCFreeListWalk ---------------------------
(***************************************************************************)
(* Every list over four nodes: each node's link is unreadable, zero, any   *)
(* of the nodes or a dangling pointer, with either kind of bin, with and   *)
(* without safe-linking.  Pages of 16 bytes give the nodes of the address  *)
(* space of 64 different keys; the node 60 has its fastbin slot behind the *)
(* end of the address space, where wrapping_add takes it to 12 again.      *)
(***************************************************************************)
EXTENDS FreeListWalk, Bitwise

MCXor(a, b) == a ^^ b

Nodes == {4, 20, 40, 60}

Targets == Nodes \cup {0, 30}

MCLists ==
  [kind : {"fastbin", "tcache"}, safe : BOOLEAN, head : {0, 4, 30},
   link : UNION {[S -> Targets] : S \in SUBSET Nodes}]
=============================================================================
