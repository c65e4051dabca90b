---------------------------- MODULE MCArenaWalk -----------------------------
(***************************************************************************)
(* A 64-bit layout (8-byte words, 16-byte alignment) in an address space   *)
(* of 1024 bytes with heaps of 128: word 8 is the arena's top, word 16 is  *)
(* sbrk_base, a _heap_info is 32 bytes and a malloc_state 16.              *)
(*                                                                         *)
(* Secondary arenas: three possible heaps (128, 256, 384), each unreadable *)
(* or with a small, a full or an overflowing size and any prev; the words  *)
(* behind the header are zero up to the third or the seventh one, then     *)
(* hold chunks of 16 bytes.  Main arenas: two segments, each present or    *)
(* not, and sbrk_base and top unreadable, null, in or out of them, at the  *)
(* very end included, there also unaligned.  Healthy arenas, built as malloc builds them: a main *)
(* one, and secondary ones of one or two heaps, the older one closed by    *)
(* either of the two forms sysmalloc leaves behind.                        *)
(***************************************************************************)
EXTENDS ArenaWalk, SequencesExt

NoInfo == [size |-> 0, prev |-> 1]

Infos == [size : {80, 128, 1008}, prev : {0, 128, 256, 384}] \cup {NoInfo}

HeapAddrs == {128, 256, 384}

Words(first, last) == {a \in first .. last : a % 8 = 0}

Unknown(main, segments, image) ==
  [main |-> main, segments |-> segments, mem |-> image, healthy |-> FALSE, chunks |-> <<>>]

SecondaryMemory(top, infos, pad) ==
  LET present == {a \in HeapAddrs : infos[a] # NoInfo}
      control == IF top = 1 THEN {} ELSE {8}
      word(a) == IF a = 8 THEN top
                 ELSE LET o == a % 128
                          i == infos[a - o]
                      IN  CASE o = 0 -> i.size
                            [] o = 8 -> i.size
                            [] o = 16 -> i.prev
                            [] OTHER -> IF o < pad THEN 0 ELSE 17
  IN  [a \in control \cup UNION {Words(b, b + 127) : b \in present} |-> word(a)]

SecondaryArenas ==
  {Unknown(FALSE, {}, SecondaryMemory(top, infos, pad)) :
     top \in {0, 1, 352, 504}, infos \in [HeapAddrs -> Infos], pad \in {40, 72}}

Segments == {[start |-> 128, end |-> 320], [start |-> 320, end |-> 1024]}

MainMemory(segments, sbrk, top, used) ==
  LET words == UNION {Words(s.start, s.end - 1) : s \in segments}
  IN  [a \in words \cup (IF top = 1 THEN {} ELSE {8})
               \cup (IF sbrk = 1 THEN {} ELSE {16}) |->
         CASE a = 8 -> top
           [] a = 16 -> sbrk
           [] OTHER -> IF a \in used THEN 17 ELSE 0]

MainArenas ==
  {Unknown(TRUE, segs, MainMemory(segs, sbrk, top, used)) :
     segs \in SUBSET Segments, sbrk \in {0, 1, 80, 128, 336},
     top \in {0, 1, 64, 192, 368, 928, 1015, 1016}, used \in SUBSET {160, 336, 640}}

-----------------------------------------------------------------------------
(* Chunks of the given sizes and states, the first size field at first:    *)
(* what malloc writes, closed by the header at the address behind them.    *)

Starts(first, list) ==
  [i \in 1 .. Len(list) + 1 |->
     FoldLeft(LAMBDA a, c : a + c.size, first, SubSeq(list, 1, i - 1))]

ChunkWords(first, list, flags, last) ==
  LET starts == Starts(first, list)
      inUse(i) == IF i = 1 \/ list[i - 1].in_use THEN 1 ELSE 0
  IN  [a \in {starts[i] : i \in DOMAIN starts} |->
         LET i == CHOOSE j \in DOMAIN starts : starts[j] = a
         IN  IF i > Len(list) THEN last + inUse(i)
             ELSE list[i].size + flags + inUse(i)]

Chunks(first, list) ==
  [i \in DOMAIN list |-> [addr   |-> Starts(first, list)[i],
                          size   |-> list[i].size,
                          in_use |-> list[i].in_use]]

Lists(room) ==
  {l \in UNION {[1 .. n -> [size : {32, 48}, in_use : BOOLEAN]] : n \in 0 .. 2} :
     FoldLeft(LAMBDA a, c : a + c.size, 0, l) = room}

Zeros(first, last) == [a \in Words(first, last) |-> 0]

(* One heap: its _heap_info, the words behind it and its chunks.           *)
HeapWords(addr, size, prev, words) ==
  words @@ addr :> size @@ (addr + 8) :> size @@ (addr + 16) :> prev
    @@ Zeros(addr, addr + size - 1)

(* The oldest heap, with room for 32 bytes of chunks in front of a bridge  *)
(* of 32 bytes, or for 48 in front of one of 16.                           *)
Older(list, room) ==
  HeapWords(128, 128, 0,
    ChunkWords(184, list, 4, 64 - room)
      @@ 248 :> 1)

(* A heap as [address, start, end, close, upto]: with the given room for   *)
(* chunks, the n first of the arena.                                       *)
Built(address, start, end, room, n) ==
  [address |-> address, start |-> start, end |-> end, close |-> start + room, upto |-> n]

Healthy(main, segments, image, l, built) ==
  [main |-> main, segments |-> segments, mem |-> image, healthy |-> TRUE, chunks |-> l,
   built |-> built]

HealthyMain(room) ==
  {Healthy(TRUE, {[start |-> 128, end |-> 320]},
           ChunkWords(136, l, 0, 32) @@ Zeros(128, 319)
             @@ 8 :> 128 + room @@ 16 :> 128,
           Chunks(136, l), <<Built(128, 136, 136 + room, room, Len(l))>>) : l \in Lists(room)}

HealthyOne(room) ==
  {Healthy(FALSE, {},
           HeapWords(128, 128, 0, ChunkWords(184, l, 4, 32)) @@ 8 :> 176 + room,
           Chunks(184, l), <<Built(128, 184, 184 + room, room, Len(l))>>) : l \in Lists(room)}

HealthyTwo(oldRoom, room) ==
  {Healthy(FALSE, {},
           Older(old, oldRoom)
             @@ HeapWords(384, 128, 128, ChunkWords(424, l, 4, 32))
             @@ 8 :> 416 + room,
           Chunks(424, l) \o Chunks(184, old),
           <<Built(384, 424, 424 + room, room, Len(l)),
             Built(128, 184, 256, oldRoom, Len(l) + Len(old))>>) :
     old \in Lists(oldRoom), l \in Lists(room)}

MCArenas ==
  SecondaryArenas
    \cup MainArenas
    \cup UNION {HealthyMain(room) : room \in {0, 32, 64, 80}}
    \cup UNION {HealthyOne(room) : room \in {0, 32, 48}}
    \cup UNION {HealthyTwo(oldRoom, room) : oldRoom \in {32, 48}, room \in {0, 32, 64, 80}}
=============================================================================
