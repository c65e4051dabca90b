---------------------------- MODULE MCChunkWalk -----------------------------
(***************************************************************************)
(* A 64-bit layout (8-byte words, 16-byte alignment) over the four size    *)
(* fields 8, 24, 40 and 56, in an address space of 256 bytes.  Every       *)
(* memory over these addresses is tried: each word unreadable or one of    *)
(* Headers, which has sound chunks of one and two units with each flag the *)
(* walk looks at, the sentinel word, a size below the minimum, one off     *)
(* alignment, and one that overflows the address space from address 24 on. *)
(***************************************************************************)
EXTENDS ChunkWalk

SizeFields == {8, 24, 40, 56}

Headers == {1, 16, 17, 21, 29, 33, 245}

Memories == UNION {[mapped -> Headers] : mapped \in SUBSET SizeFields}

(* Ends: top's size field (40, 56) for the last heap of an arena, and one  *)
(* word behind the last size field (64) for an intermediate heap.          *)
MCRegions ==
  [mem : Memories, start : {8}, end : {40, 56, 64}, main : BOOLEAN]
    \cup [mem : {[a \in SizeFields |-> 17]}, start : {8, 40, 56}, end : {40},
          main : BOOLEAN]
=============================================================================
