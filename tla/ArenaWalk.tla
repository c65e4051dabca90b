----------------------------- MODULE ArenaWalk ------------------------------
(***************************************************************************)
(* The loop of analyze that reports the chunks of one arena: the heaps are *)
(* listed (HeapList), then the region of each one, newest heap first, is   *)
(* walked (ChunkWalk), and the events and problems are collected.  The two *)
(* components only agree by convention on where a region starts and ends:  *)
(* on the size field of its first chunk, and one word past the end of its  *)
(* last one.                                                               *)
(*                                                                         *)
(* An arena says here also whether it is healthy, and then which chunks    *)
(* malloc has put into it, and where.                                      *)
(***************************************************************************)
EXTENDS HeapList

CONSTANTS Header,     \* DetectedLayout.header_size
          Alignment,  \* DetectedLayout.malloc_alignment
          MaxChunks   \* MAX_CHUNKS

(***************************************************************************)
(* What malloc builds.  A healthy arena a has the heaps a.built, the       *)
(* newest first, each [address, start, end, close, upto]: its region from  *)
(* the first size field on, the header behind its last chunk, and how many *)
(* of a.chunks are in it and the newer ones.  A chunk is [addr, size,      *)
(* in_use], its size field at addr.                                        *)
(***************************************************************************)
Upto(a, i) == IF i = 0 THEN 0 ELSE a.built[i].upto

\* The header of chunk n in heap i, or the one behind its last chunk.
HeaderAt(a, i, n) == IF n > Upto(a, i) THEN a.built[i].close ELSE a.chunks[n].addr

DataStart(a, i) ==
  a.built[i].address
    + (IF a.main THEN 0
       ELSE IF i = Len(a.built) THEN HeapInfoSize + MallocStateSize ELSE HeapInfoSize)

\* Nothing but zeros in front of the first chunk.
IsPadded(a, i) ==
  LET padding == {b \in DataStart(a, i) .. a.built[i].start - 1 :
                    (b - DataStart(a, i)) % Word = 0}
  IN  /\ DataStart(a, i) <= a.built[i].start
      /\ (a.built[i].start - DataStart(a, i)) % Word = 0
      /\ \A b \in padding : Readable(a.mem, b) /\ a.mem[b] = 0

IsChunk(a, i, n) ==
  LET c    == a.chunks[n]
      next == HeaderAt(a, i, n + 1)
  IN  /\ c.size >= 2 * Word /\ c.size % Alignment = 0
      /\ c.addr + c.size = next /\ next <= a.built[i].close
      /\ Readable(a.mem, c.addr) /\ ChunkSize(a.mem[c.addr]) = c.size
      /\ ~ a.main => NonMainArena(a.mem[c.addr])
      /\ PrevInuse(a.mem[next]) = c.in_use

(* sysmalloc gives the end of an older heap to two headers no chunk has:   *)
(* one that is not of an arena, and behind it PREV_INUSE, the last word.   *)
IsClosed(a, i) ==
  LET b        == a.built[i]
      bridge   == ChunkSize(a.mem[b.close])
      sentinel == b.close + bridge
  IN  /\ ~ NonMainArena(a.mem[b.close])
      /\ bridge >= 2 * Word /\ bridge % Alignment = 0
      /\ sentinel + Word = b.end
      /\ Readable(a.mem, sentinel) /\ a.mem[sentinel] = PREV_INUSE
      /\ Upto(a, i) - Upto(a, i - 1) < MaxChunks

IsFilled(a, i) ==
  LET b == a.built[i]
  IN  /\ Upto(a, i - 1) <= b.upto /\ b.upto - Upto(a, i - 1) <= MaxChunks
      /\ HeaderAt(a, i, Upto(a, i - 1) + 1) = b.start
      /\ \A n \in Upto(a, i - 1) + 1 .. b.upto : IsChunk(a, i, n)
      /\ b.start <= b.close /\ Readable(a.mem, b.close)
      /\ IF i = 1 THEN b.close = b.end ELSE IsClosed(a, i)

IsMainHeap(a) ==
  /\ Len(a.built) = 1
  /\ Readable(a.mem, SbrkField) /\ a.mem[SbrkField] = a.built[1].address
  /\ \E s \in a.segments : s.start <= a.mem[SbrkField] /\ a.mem[SbrkField] < s.end
  /\ a.mem[SbrkField] <= a.mem[TopField]

InfoAt(a, i, offset) == WrappingAdd(a.built[i].address, offset)

IsHeapChain(a) ==
  /\ Len(a.built) <= MaxHeaps
  /\ a.built[1].address = ToHeapStart(a.mem[TopField])
  /\ \A i, j \in DOMAIN a.built : a.built[i].address = a.built[j].address => i = j
  /\ \A i \in DOMAIN a.built :
       /\ \A offset \in {SizeOffset, MprotectOffset, PrevOffset} :
            Readable(a.mem, InfoAt(a, i, offset))
       /\ a.mem[InfoAt(a, i, PrevOffset)]
            = IF i = Len(a.built) THEN 0 ELSE a.built[i + 1].address
       /\ i # 1 => a.built[i].end = a.built[i].address + a.mem[InfoAt(a, i, SizeOffset)]

IsHealthy(a) ==
  /\ a.built \in Seq([address : Addr \ {0}, start : Addr, end : Addr, close : Addr,
                      upto : 0 .. Len(a.chunks)])
  /\ a.built # <<>> /\ Upto(a, Len(a.built)) = Len(a.chunks)
  /\ a.chunks \in Seq([addr : Addr, size : Addr, in_use : BOOLEAN])
  /\ Readable(a.mem, TopField) /\ a.built[1].end = a.mem[TopField] + Word
  /\ IF a.main THEN IsMainHeap(a) ELSE IsHeapChain(a)
  /\ \A i \in DOMAIN a.built : IsPadded(a, i) /\ IsFilled(a, i)

ASSUME ArenaWalkAssumption ==
  /\ Header \in 0 .. 2 * Word
  /\ Alignment \in Nat \ {0}
  /\ MaxChunks \in Nat
  /\ \A a \in Arenas : a.healthy \in BOOLEAN /\ (a.healthy => IsHealthy(a))

VARIABLES h,             \* the heap being walked, an index into heaps
          at,            \* "idle" between two walks, else where the walk is
          region,        \* the variables of one walk
          cursor,
          header,
          seen,
          events,
          damage,
          chunks,        \* the events of the walks that are over
          walkProblems   \* and their problems

walkVars == <<h, at, region, cursor, header, seen, events, damage,
              chunks, walkProblems>>

allVars == <<vars, walkVars>>

W == INSTANCE ChunkWalk WITH
  Regions <- {}, pc <- at, problems <- damage

NoRegion == [mem |-> <<>>, start |-> 0, end |-> 0, main |-> FALSE]

ArenaInit ==
  /\ Init
  /\ h = 0
  /\ at = "idle"
  /\ region = NoRegion
  /\ cursor = 0
  /\ header = 0
  /\ seen = 0
  /\ events = <<>>
  /\ damage = <<>>
  /\ chunks = <<>>
  /\ walkProblems = <<>>

List == Next /\ UNCHANGED walkVars

(* Wrong variant: every region is walked as one of the main arena, which   *)
(* has no bridges between heaps.                                           *)
RegionOf_AsMain(i) ==
  [mem   |-> mem,
   start |-> heaps[i].region_start,
   end   |-> heaps[i].region_end,
   main  |-> TRUE]

(* The arguments of walk_region.                                           *)
RegionOf(i) ==
  [mem   |-> mem,
   start |-> heaps[i].region_start,
   end   |-> heaps[i].region_end,
   main  |-> arena.main]

WalkHeap ==
  /\ pc = "done"
  /\ at = "idle"
  /\ h < Len(heaps)
  /\ h' = h + 1
  /\ at' = "start"
  /\ region' = RegionOf(h + 1)
  /\ cursor' = heaps[h + 1].region_start
  /\ UNCHANGED <<vars, header, seen, events, damage, chunks, walkProblems>>

WalkStep ==
  /\ at \in {"start", "walk"}
  /\ W!Next
  /\ UNCHANGED <<vars, h, chunks, walkProblems>>

(* events.extend(evs); problems.extend(probs).                             *)
CollectHeap ==
  /\ at = "done"
  /\ at' = "idle"
  /\ chunks' = chunks \o events
  /\ walkProblems' = walkProblems \o damage
  /\ region' = NoRegion
  /\ cursor' = 0
  /\ header' = 0
  /\ seen' = 0
  /\ events' = <<>>
  /\ damage' = <<>>
  /\ UNCHANGED <<vars, h>>

ArenaNext ==
  \/ List
  \/ WalkHeap
  \/ WalkStep
  \/ CollectHeap

ArenaSpec == ArenaInit /\ [][ArenaNext]_allVars

ArenaTypeOK ==
  /\ TypeOK
  /\ h \in 0 .. Len(heaps)
  /\ at \in {"idle", "start", "walk", "done"}
  /\ W!IsRegion(region)
  /\ cursor \in Addr
  /\ header \in Addr
  /\ seen \in 0 .. MaxChunks + 1
  /\ {events, chunks} \subseteq Seq(W!Events)
  /\ {damage, walkProblems} \subseteq Seq(W!ProblemKinds)

-----------------------------------------------------------------------------
(* Properties.                                                             *)

Collected == pc = "done" /\ at = "idle" /\ h = Len(heaps)

(* The regions handed over are the ones the walk expects: of an arena as   *)
(* malloc builds it every chunk below top is reported once, heap by heap,  *)
(* with its size and whether it is in use, and nothing is reported that    *)
(* malloc put there for itself (malloc_state, the bridge and the sentinel  *)
(* at the end of an older heap, top); and there is no problem.             *)
HealthyArenaIsReportedWhole ==
  Collected /\ arena.healthy =>
    /\ problems \o walkProblems = <<>>
    /\ [i \in DOMAIN chunks |-> [addr   |-> chunks[i].size_field_addr,
                                 size   |-> chunks[i].full_size,
                                 in_use |-> chunks[i].in_use]] = arena.chunks

(* The heaps of a secondary arena are aligned to heap_max_size and no      *)
(* larger, and neither the metadata nor the padding in front of the first  *)
(* chunk reaches the end of the address space.  A main arena has one heap. *)
HeapsInPlace ==
  ~ arena.main =>
    \A i \in DOMAIN heaps :
      /\ heaps[i].address % HeapMaxSize = 0
      /\ heaps[i].size <= HeapMaxSize
      /\ heaps[i].address + HeapInfoSize + MallocStateSize < AddrLimit
      /\ heaps[i].region_end + Word <= AddrLimit

Before(e, f) == W!EndOf(e) <= f.size_field_addr

Apart(s) == \A i, j \in DOMAIN s : i # j => Before(s[i], s[j]) \/ Before(s[j], s[i])

(* As long as the heaps are where malloc puts them, no byte of the arena   *)
(* is reported in two chunks, however the chain is broken and whatever the *)
(* chunks say of their sizes: neither within a heap nor across two, though *)
(* the region of the heap of top ends one word behind top.                 *)
NoByteTwice == HeapsInPlace => Apart(chunks \o events)
=============================================================================
