------------------------------ MODULE HeapList ------------------------------
(***************************************************************************)
(* heap::heap_list::list: the heap regions of one arena.  The main arena   *)
(* has one, from sbrk_base (or a bounded guess) to top; a secondary arena  *)
(* has a chain of _heap_info blocks linked by prev, from the heap holding  *)
(* top back to the oldest one, which embeds the arena's malloc_state.      *)
(*                                                                         *)
(* The arena is untrusted input, chosen in Init: its memory, and the       *)
(* file-backed segments of the core as a set of [start, end) intervals.    *)
(***************************************************************************)
EXTENDS Memory, Sequences, FiniteSetsExt

CONSTANTS Word,             \* DetectedLayout.word_size
          TopField,         \* where the arena's malloc_state.top is
          SbrkField,        \* where mp_.sbrk_base is
          SizeOffset,       \* offsets of size, mprotect_size and prev in
          MprotectOffset,   \*   a _heap_info
          PrevOffset,
          HeapInfoSize,     \* DetectedLayout.heap_info_size
          MallocStateSize,  \* DetectedLayout.main_arena.size
          HeapMaxSize,      \* DetectedLayout.heap_max_size
          MaxHeaps,         \* MAX_HEAPS
          Arenas            \* the arenas a listing may be asked for

(* No core is as large as the address space: some word is unreadable.      *)
IsArena(a) ==
  /\ a.main \in BOOLEAN
  /\ IsMemory(a.mem)
  /\ \A r \in 0 .. Word - 1 : \E b \in Addr : b % Word = r /\ ~ Readable(a.mem, b)
  /\ \A s \in a.segments : s.start \in Addr /\ s.end \in Addr \cup {AddrLimit}

ASSUME HeapListAssumption ==
  /\ {Word, HeapMaxSize, MaxHeaps} \subseteq Nat \ {0}
  /\ {TopField, SbrkField, SizeOffset, MprotectOffset, PrevOffset,
      HeapInfoSize, MallocStateSize} \subseteq Addr
  /\ Word <= HeapInfoSize
  /\ AddrLimit % Word = 0
  /\ \A a \in Arenas : IsArena(a)

VARIABLES arena,    \* the arena to list
          pc,       \* "start", "walk", "done" or "failed" (a hard error)
          current,  \* the _heap_info to look at next
          heaps,    \* the heaps found
          problems  \* the kinds of the Problems pushed

vars == <<arena, pc, current, heaps, problems>>

Heap == [address : Addr, size : Addr, region_start : Addr, region_end : Addr]

TypeOK ==
  /\ IsArena(arena)
  /\ pc \in {"start", "walk", "done", "failed"}
  /\ current \in Addr
  /\ heaps \in Seq(Heap)
  /\ problems \in Seq({"HeapWalkTruncated"})

Init ==
  /\ arena \in Arenas
  /\ pc = "start"
  /\ current = 0
  /\ heaps = <<>>
  /\ problems = <<>>

-----------------------------------------------------------------------------
mem == arena.mem

Top == mem[TopField]

SbrkBase == mem[SbrkField]

(* segment_start.is_some(), and the start of the segment that holds addr.  *)
Mapped(addr) == \E s \in arena.segments : s.start <= addr /\ addr < s.end

SegmentStart(addr) ==
  (CHOOSE s \in arena.segments : s.start <= addr /\ addr < s.end).start

(* The first word from start on that is not a readable zero, or the first  *)
(* one not below end; wrapping_add may lead past the last address to 0.    *)
SkipZeroPadding(start, end) ==
  LET word(k) == WrappingAdd(start, k * Word)
      stops   == {k \in 0 .. AddrLimit \div Word :
                    \/ word(k) >= end
                    \/ ~ Readable(mem, word(k))
                    \/ mem[word(k)] # 0}
  IN  word(Min(stops))

ToHeapStart(addr) == addr - (addr % HeapMaxSize)

Truncated == problems' = Append(problems, "HeapWalkTruncated")

-----------------------------------------------------------------------------
(* Both kinds of arena.                                                    *)

StartUnreadable ==
  /\ pc = "start"
  /\ \/ ~ Readable(mem, TopField)
     \/ arena.main /\ ~ Readable(mem, SbrkField)
  /\ pc' = "failed"
  /\ UNCHANGED <<arena, current, heaps, problems>>

StartRead ==
  /\ pc = "start"
  /\ Readable(mem, TopField)
  /\ arena.main => Readable(mem, SbrkField)

Unused == Top = 0 \/ (arena.main /\ SbrkBase = 0)

EmptyArena ==
  /\ StartRead
  /\ Unused
  /\ pc' = "done"
  /\ UNCHANGED <<arena, current, heaps, problems>>

-----------------------------------------------------------------------------
(* list_main.                                                              *)

MainHeapStart ==
  IF Mapped(SbrkBase) THEN SbrkBase
  ELSE Max({SegmentStart(Top), SaturatingSub(Top, 4 * HeapMaxSize)})

(* Wrong variant: an unknown start is reported as no heap at all.          *)
MainUndeterminable_Silent ==
  /\ StartRead
  /\ arena.main
  /\ ~ Unused
  /\ ~ Mapped(SbrkBase) /\ ~ Mapped(Top)
  /\ pc' = "done"
  /\ UNCHANGED <<arena, current, heaps, problems>>

MainUndeterminable ==
  /\ StartRead
  /\ arena.main
  /\ ~ Unused
  /\ ~ Mapped(SbrkBase) /\ ~ Mapped(Top)
  /\ pc' = "done"
  /\ Truncated
  /\ UNCHANGED <<arena, current, heaps>>

(* An inverted heap is reported and still listed, with size 0.             *)
MainHeap ==
  /\ StartRead
  /\ arena.main
  /\ ~ Unused
  /\ Mapped(SbrkBase) \/ Mapped(Top)
  /\ LET start == MainHeapStart
         last  == WrappingAdd(Top, Word)
     IN  /\ heaps' = <<[address      |-> start,
                        size         |-> SaturatingSub(Top, start),
                        region_start |-> SkipZeroPadding(start, last),
                        region_end   |-> last]>>
         /\ IF Top < start THEN Truncated ELSE problems' = problems
  /\ pc' = "done"
  /\ UNCHANGED <<arena, current>>

-----------------------------------------------------------------------------
(* list_secondary.                                                         *)

TopHeap == ToHeapStart(Top)

StartChain ==
  /\ StartRead
  /\ ~ arena.main
  /\ ~ Unused
  /\ pc' = "walk"
  /\ current' = TopHeap
  /\ UNCHANGED <<arena, heaps, problems>>

InfoReadable(h) ==
  \A off \in {SizeOffset, MprotectOffset, PrevOffset} :
    Readable(mem, WrappingAdd(h, off))

Size(h) == mem[WrappingAdd(h, SizeOffset)]

Prev(h) == mem[WrappingAdd(h, PrevOffset)]

(* Wrong variant: the repetition goes unnoticed.                           *)
Listed_Never == FALSE

(* visited: every heap looked at so far is in heaps, or ended the walk.    *)
Listed == \E i \in DOMAIN heaps : heaps[i].address = current

InWalk == pc = "walk" /\ Len(heaps) < MaxHeaps /\ ~ Listed

CapOrCycle ==
  /\ pc = "walk"
  /\ Len(heaps) >= MaxHeaps \/ Listed
  /\ pc' = "done"
  /\ Truncated
  /\ UNCHANGED <<arena, current, heaps>>

(* Without any heap_info there is no starting point: a hard error.         *)
FirstInfoUnreadable ==
  /\ InWalk
  /\ ~ InfoReadable(current)
  /\ heaps = <<>>
  /\ pc' = "failed"
  /\ UNCHANGED <<arena, current, heaps, problems>>

LaterInfoUnreadable ==
  /\ InWalk
  /\ ~ InfoReadable(current)
  /\ heaps # <<>>
  /\ pc' = "done"
  /\ Truncated
  /\ UNCHANGED <<arena, current, heaps>>

(* Every heap but the one holding top must fit into the address space.     *)
Overflows(h) == h # TopHeap /\ AddOverflows(h, Size(h))

SizeOverflows ==
  /\ InWalk
  /\ InfoReadable(current)
  /\ Overflows(current)
  /\ pc' = "done"
  /\ Truncated
  /\ UNCHANGED <<arena, current, heaps>>

RegionEnd(h) ==
  IF h = TopHeap THEN WrappingAdd(Top, Word) ELSE h + Size(h)

(* Wrong variant: the embedded malloc_state is looked for in the newest    *)
(* heap instead of the oldest.                                             *)
HeapStart_InNewest(h) ==
  WrappingAdd(WrappingAdd(h, HeapInfoSize),
              IF h = TopHeap THEN MallocStateSize ELSE 0)

(* The oldest heap has the malloc_state of its arena behind its header.    *)
HeapStart(h) ==
  WrappingAdd(WrappingAdd(h, HeapInfoSize),
              IF Prev(h) = 0 THEN MallocStateSize ELSE 0)

AddHeap ==
  /\ InWalk
  /\ InfoReadable(current)
  /\ ~ Overflows(current)
  /\ heaps' = Append(heaps,
       [address      |-> current,
        size         |-> Size(current),
        region_start |-> SkipZeroPadding(HeapStart(current),
                                         RegionEnd(current)),
        region_end   |-> RegionEnd(current)])
  /\ UNCHANGED <<arena, problems>>

OldestHeap ==
  /\ AddHeap
  /\ Prev(current) = 0
  /\ pc' = "done"
  /\ UNCHANGED current

OlderHeapFollows ==
  /\ AddHeap
  /\ Prev(current) # 0
  /\ current' = Prev(current)
  /\ UNCHANGED pc

Next ==
  \/ StartUnreadable
  \/ EmptyArena
  \/ MainUndeterminable
  \/ MainHeap
  \/ StartChain
  \/ CapOrCycle
  \/ FirstInfoUnreadable
  \/ LaterInfoUnreadable
  \/ SizeOverflows
  \/ OldestHeap
  \/ OlderHeapFollows

Spec == Init /\ [][Next]_vars

-----------------------------------------------------------------------------
(* Properties.                                                             *)

(* The heap chain of a secondary arena is listed by a pointer chase from   *)
(* the heap of top along prev: no heap twice (its chunks would be counted  *)
(* twice), a clean end means the whole chain, and a broken, cyclic or      *)
(* overlong chain is reported or, without any heap, a hard error.          *)
HasChain == ~ arena.main /\ Readable(mem, TopField) /\ Top # 0

(* Where a _heap_info with a readable size may be.                         *)
Candidates == {(a + AddrLimit - SizeOffset) % AddrLimit : a \in DOMAIN mem}

ChainLink ==
  [h \in {a \in Candidates : HasChain /\ InfoReadable(a) /\ ~ Overflows(a)}
     |-> IF Prev(h) = 0 THEN AddrLimit ELSE Prev(h)]

ChainRoot == IF HasChain THEN TopHeap ELSE AddrLimit

ChainAt ==
  IF ~ HasChain \/ (pc = "done" /\ problems = <<>>) THEN AddrLimit
  ELSE IF pc = "start" THEN TopHeap ELSE current

ChainPath ==
  IF HasChain THEN [i \in DOMAIN heaps |-> heaps[i].address] ELSE <<>>

ChainVerdict ==
  IF HasChain /\ (problems # <<>> \/ pc = "failed") THEN "broken"
  ELSE IF pc = "done" THEN "clean" ELSE "running"

Chase == INSTANCE PointerChase WITH
  Node    <- Addr,
  End     <- AddrLimit,
  Cap     <- MaxHeaps,
  link    <- ChainLink,
  root    <- ChainRoot,
  at      <- ChainAt,
  path    <- ChainPath,
  verdict <- ChainVerdict

IsPointerChase == Chase!Spec

(* "That's a diagnostic, not a silent no heap": an arena listed without    *)
(* heaps and without a problem is one that never allocated, and a hard     *)
(* error is only raised while there is nothing to show.                    *)
NoHeapIsExplained ==
  /\ pc = "done" /\ heaps = <<>> /\ problems = <<>> => Unused
  /\ pc = "failed" => heaps = <<>> /\ problems = <<>>

(* When sbrk_base is not mapped, the guessed main heap stays in the        *)
(* segment of top and never makes the walk scan more than four maximal     *)
(* heaps; a heap that starts above top is always reported.                 *)
MainGuessIsBounded ==
  arena.main /\ heaps # <<>> =>
    LET h == heaps[1]
    IN  /\ ~ Mapped(SbrkBase) =>
             /\ Top - h.address <= 4 * HeapMaxSize
             /\ \E s \in arena.segments :
                  {h.address, Top} \subseteq s.start .. s.end - 1
        /\ h.address > Top => problems # <<>>

IsOldest(i) == i = Len(heaps) /\ pc = "done" /\ problems = <<>>

RegionSkipsMetadataOnly ==
  ~ arena.main =>
    \A i \in DOMAIN heaps :
      LET h        == heaps[i]
          metadata == HeapInfoSize + (IF IsOldest(i) THEN MallocStateSize ELSE 0)
      IN  /\ h.region_end < AddrLimit
          /\ h.address + metadata < AddrLimit /\ h.region_end + Word <= AddrLimit =>
            /\ h.region_start >= h.address + metadata
            /\ \A a \in h.address + metadata .. h.region_start - 1 :
                 (a - h.address - metadata) % Word = 0 =>
                   Readable(mem, a) /\ mem[a] = 0

(* The region to walk is never guessed too large (MainGuessIsBounded), and *)
(* in a secondary arena it never takes in allocator metadata or skips a    *)
(* word that holds something: it starts behind the header of its heap, in  *)
(* the oldest heap also behind the malloc_state, all it skips is zero, and *)
(* it ends inside the address space, whatever size the heap_info claims.   *)
(* Only at the very end of the address space would the sums wrap.          *)
RegionIsSound == MainGuessIsBounded /\ RegionSkipsMetadataOnly
=============================================================================
