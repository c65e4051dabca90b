----------------------------- MODULE ChunkWalk ------------------------------
(***************************************************************************)
(* heap::walk::walk_region: the linear walk over the chunks of one heap    *)
(* region of a core dump.                                                  *)
(*                                                                         *)
(* The region (its memory, bounds and arena kind) is untrusted input: it   *)
(* is chosen once in Init among Regions, which a model checking module     *)
(* fills with every small memory.  One step is one iteration of the loop,  *)
(* with all its early exits; the texts of the HeapWalkTruncated reasons    *)
(* are left out.                                                           *)
(***************************************************************************)
EXTENDS Memory, Sequences

CONSTANTS Word,       \* DetectedLayout.word_size
          Header,     \* DetectedLayout.header_size
          Alignment,  \* DetectedLayout.malloc_alignment
          MaxChunks,  \* MAX_CHUNKS
          Regions     \* the regions a walk may be asked for

IsRegion(r) ==
  /\ IsMemory(r.mem)
  /\ r.start \in Addr
  /\ r.end \in Addr
  /\ r.main \in BOOLEAN

ASSUME ChunkWalkAssumption ==
  /\ Word \in Nat \ {0}
  /\ Header \in 0 .. 2 * Word
  /\ Alignment \in Nat \ {0}
  /\ MaxChunks \in Nat
  /\ \A r \in Regions : IsRegion(r)

VARIABLES region,    \* the arguments of walk_region
          pc,        \* "start", "walk" or "done"
          cursor,    \* next_header_address
          header,    \* next_header, the raw word at cursor
          seen,      \* chunks looked at so far
          events,    \* the ChunkEvents emitted
          problems   \* the kinds of the Problems pushed

vars == <<region, pc, cursor, header, seen, events, problems>>

ProblemKinds == {"HeapWalkTruncated", "ChunkReadFailed"}

Events == [size_field_addr : Addr, user_addr : Addr, user_size : Addr,
           full_size : Addr, in_use : BOOLEAN]

(* Every state variable has its type.  For events this says more: the      *)
(* unchecked size_field_addr + word and full_size - header of walk.rs stay *)
(* within a u64.                                                           *)
TypeOK ==
  /\ IsRegion(region)
  /\ pc \in {"start", "walk", "done"}
  /\ cursor \in Addr
  /\ header \in Addr
  /\ seen \in 0 .. MaxChunks + 1
  /\ events \in Seq(Events)
  /\ problems \in Seq(ProblemKinds)

Init ==
  /\ region \in Regions
  /\ pc = "start"
  /\ cursor = region.start
  /\ header = 0
  /\ seen = 0
  /\ events = <<>>
  /\ problems = <<>>

-----------------------------------------------------------------------------
(* Before the loop: the bounds, then the first header.                     *)

Report(kind) == problems' = Append(problems, kind)

RejectRegion ==
  /\ pc = "start"
  /\ region.start > region.end
  /\ pc' = "done"
  /\ Report("HeapWalkTruncated")
  /\ UNCHANGED <<region, cursor, header, seen, events>>

EmptyRegion ==
  /\ pc = "start"
  /\ region.start = region.end
  /\ pc' = "done"
  /\ UNCHANGED <<region, cursor, header, seen, events, problems>>

FirstUnreadable ==
  /\ pc = "start"
  /\ region.start < region.end
  /\ ~ Readable(region.mem, region.start)
  /\ pc' = "done"
  /\ Report("ChunkReadFailed")
  /\ UNCHANGED <<region, cursor, header, seen, events>>

ReadFirst ==
  /\ pc = "start"
  /\ region.start < region.end
  /\ Readable(region.mem, region.start)
  /\ pc' = "walk"
  /\ header' = region.mem[region.start]
  /\ UNCHANGED <<region, cursor, seen, events, problems>>

-----------------------------------------------------------------------------
(* The loop.  The chunk at cursor is Full bytes long and the next size     *)
(* field is at NextCursor.                                                    *)

Full == ChunkSize(header)

NextCursor == cursor + Full

(* Wrong variants of the checks (each breaks a property of its run).       *)
BadChunk_NoRegionEnd ==
  \/ seen + 1 > MaxChunks
  \/ Full < 2 * Word
  \/ Full % Alignment # 0
  \/ AddOverflows(cursor, Full)

BadChunk_MinimumOffByOne ==
  \/ seen + 1 > MaxChunks
  \/ Full <= 2 * Word
  \/ Full % Alignment # 0
  \/ AddOverflows(cursor, Full)
  \/ NextCursor > region.end

(* The checks that truncate the walk before the next header is read.       *)
BadChunk ==
  \/ seen + 1 > MaxChunks
  \/ Full < 2 * Word
  \/ Full % Alignment # 0
  \/ AddOverflows(cursor, Full)
  \/ NextCursor > region.end

(* Wrong variant: the sentinel is not required to end the region.          *)
IsBridge_Anywhere(raw, next, nextRaw) ==
  LET sentinel == next + ChunkSize(nextRaw)
  IN  /\ ~ region.main
      /\ ~ NonMainArena(raw)
      /\ Readable(region.mem, sentinel)
      /\ region.mem[sentinel] = PREV_INUSE

(* raw, followed by a chunk whose header nextRaw sits at next, is the      *)
(* bridge that closes an intermediate heap of a secondary arena.           *)
IsBridge(raw, next, nextRaw) ==
  LET sentinel == next + ChunkSize(nextRaw)
  IN  /\ ~ region.main
      /\ ~ NonMainArena(raw)
      /\ ~ AddOverflows(next, ChunkSize(nextRaw))
      /\ sentinel + Word = region.end
      /\ Readable(region.mem, sentinel)
      /\ region.mem[sentinel] = PREV_INUSE

(* Wrong variant: in-use taken from the chunk's own header.                *)
ChunkEvent_OwnBit(addr, raw, nextRaw) ==
  [size_field_addr |-> addr,
   user_addr       |-> addr + Word,
   user_size       |-> ChunkSize(raw) - Header,
   full_size       |-> ChunkSize(raw),
   in_use          |-> PrevInuse(raw)]

ChunkEvent(addr, raw, nextRaw) ==
  [size_field_addr |-> addr,
   user_addr       |-> addr + Word,
   user_size       |-> ChunkSize(raw) - Header,
   full_size       |-> ChunkSize(raw),
   in_use          |-> PrevInuse(nextRaw)]

InLoop == pc = "walk" /\ cursor # region.end

EndOfRegion ==
  /\ pc = "walk"
  /\ cursor = region.end
  /\ pc' = "done"
  /\ UNCHANGED <<region, cursor, header, seen, events, problems>>

(* Wrong variant: a damaged chunk is passed over (a continue in front of   *)
(* seen += 1), so that the loop meets the same chunk again.                *)
TruncateAtChunk_PassedOver ==
  /\ InLoop
  /\ BadChunk
  /\ IF seen + 1 > MaxChunks
     THEN pc' = "done" /\ seen' = seen + 1 /\ Report("HeapWalkTruncated")
     ELSE UNCHANGED <<pc, seen, problems>>
  /\ UNCHANGED <<region, cursor, header, events>>

TruncateAtChunk ==
  /\ InLoop
  /\ BadChunk
  /\ pc' = "done"
  /\ seen' = seen + 1
  /\ Report("HeapWalkTruncated")
  /\ UNCHANGED <<region, cursor, header, events>>

(* The next header is unreadable: the current chunk is not emitted.        *)
NextUnreadable ==
  /\ InLoop
  /\ ~ BadChunk
  /\ ~ Readable(region.mem, NextCursor)
  /\ pc' = "done"
  /\ seen' = seen + 1
  /\ cursor' = NextCursor
  /\ Report("ChunkReadFailed")
  /\ UNCHANGED <<region, header, events>>

Advance ==
  /\ InLoop
  /\ ~ BadChunk
  /\ Readable(region.mem, NextCursor)
  /\ seen' = seen + 1
  /\ cursor' = NextCursor
  /\ header' = region.mem[NextCursor]

StopAtBridge ==
  /\ Advance
  /\ IsBridge(header, NextCursor, header')
  /\ pc' = "done"
  /\ UNCHANGED <<region, events, problems>>

EmitChunk ==
  /\ Advance
  /\ ~ IsBridge(header, NextCursor, header')
  /\ events' = Append(events, ChunkEvent(cursor, header, header'))
  /\ UNCHANGED <<region, pc, problems>>

Next ==
  \/ RejectRegion
  \/ EmptyRegion
  \/ FirstUnreadable
  \/ ReadFirst
  \/ EndOfRegion
  \/ TruncateAtChunk
  \/ NextUnreadable
  \/ StopAtBridge
  \/ EmitChunk

Spec == Init /\ [][Next]_vars

(* The walk is a loop of one thread: it runs as long as it has a step.     *)
FairSpec == Spec /\ WF_vars(Next)

-----------------------------------------------------------------------------
(* Properties.                                                             *)

EndOf(e) == e.size_field_addr + e.full_size

(* The first address no emitted chunk covers.                              *)
Covered == IF events = <<>> THEN region.start ELSE EndOf(events[Len(events)])

(* The emitted chunks tile [region.start, Covered): the first starts the   *)
(* region, each starts where its predecessor ends, none is empty (so no    *)
(* user address is reported twice, which the membership test of stats      *)
(* relies on), none crosses the end of the region, and while the walk runs *)
(* the next header read is exactly the one behind the last chunk.          *)
EventsTileRegion ==
  /\ \A i \in DOMAIN events :
       /\ events[i].size_field_addr =
            IF i = 1 THEN region.start ELSE EndOf(events[i - 1])
       /\ events[i].full_size > 0
       /\ EndOf(events[i]) <= region.end
  /\ pc # "done" => Covered = cursor

(* What an event says is what memory says at the two ends of its chunk:    *)
(* its size comes from the header at its own address and its in-use bit    *)
(* from the header right behind it, whatever was read in between.          *)
EventsMatchHeaders ==
  \A i \in DOMAIN events :
    LET e == events[i]
    IN  /\ Readable(region.mem, e.size_field_addr)
        /\ Readable(region.mem, EndOf(e))
        /\ e.full_size = ChunkSize(region.mem[e.size_field_addr])
        /\ e.in_use = PrevInuse(region.mem[EndOf(e)])

(* The chunk at addr and the one behind it fill the region up to its last  *)
(* word, which is a bare PREV_INUSE.                                       *)
BridgeAt(addr) ==
  LET raw  == region.mem[addr]
      next == addr + ChunkSize(raw)
  IN  /\ ~ region.main
      /\ Readable(region.mem, addr)
      /\ ~ NonMainArena(raw)
      /\ Readable(region.mem, next)
      /\ next + ChunkSize(region.mem[next]) + Word = region.end
      /\ Readable(region.mem, next + ChunkSize(region.mem[next]))
      /\ region.mem[next + ChunkSize(region.mem[next])] = PREV_INUSE

(* A walk that ends without a problem has accounted for the whole region:  *)
(* the tiles reach its end, or all that is left is the bridge of an        *)
(* intermediate heap.  No chunk is ever dropped silently.                  *)
CleanEndCoversRegion ==
  pc = "done" /\ problems = <<>> => Covered = region.end \/ BridgeAt(Covered)

(* A problem is never a false alarm: the region is inverted, the cap is    *)
(* used up, or the chunk behind the last good one is unreadable, breaks a  *)
(* malloc rule, leaves the region or has an unreadable successor.  And a   *)
(* walk reports one problem at most.                                       *)
ProblemHasCause ==
  /\ Len(problems) <= 1
  /\ problems # <<>> =>
       \/ region.start > region.end
       \/ Len(events) = MaxChunks
       \/ ~ Readable(region.mem, Covered)
       \/ LET size == ChunkSize(region.mem[Covered])
          IN  \/ size < 2 * Word
              \/ size % Alignment # 0
              \/ AddOverflows(Covered, size)
              \/ Covered + size > region.end
              \/ ~ Readable(region.mem, Covered + size)

(* The walk ends on every memory, corrupt or not.                          *)
WalkTerminates == <>(pc = "done")

(* walk.rs: "a damaged chunk shouldn't cost us the chunks before it": when *)
(* a header cannot be read, the chunks in front of it have been emitted.   *)
DamageKeepsEarlierChunks ==
  problems = <<"ChunkReadFailed">> => Covered = cursor
=============================================================================
