-------------------------- MODULE ChunkWalkProofs ---------------------------
(***************************************************************************)
(* Proofs about ChunkWalk, for every set of regions, word size, alignment, *)
(* cap and address space.                                                  *)
(*                                                                         *)
(* EventsTileRegion is not inductive: it does not say that the header the  *)
(* loop carries is the one at cursor, nor that cursor is inside the        *)
(* region and the count within the cap.  CarriedHeader adds these, and the *)
(* state before the loop.                                                  *)
(***************************************************************************)
EXTENDS ChunkWalk, TLAPS

CarriedHeader ==
  /\ pc # "done" => seen = Len(events) /\ seen <= MaxChunks
  /\ pc = "start" => cursor = region.start /\ events = <<>> /\ problems = <<>>
  /\ pc = "walk"  => /\ Readable(region.mem, cursor)
                     /\ header = region.mem[cursor]
                     /\ cursor <= region.end
                     /\ problems = <<>>

IInv ==
  /\ TypeOK
  /\ EventsTileRegion
  /\ EventsMatchHeaders
  /\ CarriedHeader

(* The size of a chunk is a multiple of 8 that does not exceed the header. *)
LEMMA ChunkSizeBound ==
  ASSUME NEW raw \in Addr
  PROVE  ChunkSize(raw) \in 0 .. raw
  BY AddrLimitAssumption, Z3 DEF ChunkSize, Addr

(* What it is to be a region, spelt out for the provers.                   *)
LEMMA RegionTyped ==
  ASSUME NEW r, IsRegion(r)
  PROVE  /\ \A a \in DOMAIN r.mem : a \in Addr /\ r.mem[a] \in Addr
         /\ r.start \in Addr
         /\ r.end \in Addr
         /\ r.main \in BOOLEAN
  BY DEF IsRegion, IsMemory

(* The event of an accepted chunk has its type: neither the addition of    *)
(* the word nor the subtraction of the header leaves the u64 range.        *)
LEMMA AcceptedChunk ==
  ASSUME TypeOK, CarriedHeader, InLoop, ~ BadChunk,
         Readable(region.mem, NextCursor)
  PROVE  /\ NextCursor \in Addr
         /\ NextCursor <= region.end
         /\ Full > 0
         /\ Full \in Addr
         /\ seen + 1 \in 0 .. MaxChunks
         /\ region.mem[NextCursor] \in Addr
         /\ ChunkEvent(cursor, header, region.mem[NextCursor]) \in Events
  <1>1. Full \in 0 .. header
    BY ChunkSizeBound DEF Full, TypeOK
  <1>2. region.start \in Addr /\ region.end \in Addr
    BY RegionTyped DEF TypeOK
  <1>3. /\ Full \in Addr
        /\ Full >= 2 * Word
        /\ Full > 0
        /\ NextCursor <= region.end
        /\ NextCursor \in Addr
        /\ seen + 1 \in 0 .. MaxChunks
    BY <1>1, <1>2, AddrLimitAssumption, ChunkWalkAssumption
       DEF BadChunk, NextCursor, TypeOK, Addr, InLoop, AddOverflows
  <1>4. region.mem[NextCursor] \in Addr
    BY RegionTyped DEF TypeOK, Readable
  <1>5. cursor + Word \in Addr /\ Full - Header \in Addr
    BY <1>1, <1>2, <1>3, AddrLimitAssumption, ChunkWalkAssumption
       DEF NextCursor, TypeOK, Addr
  <1>6. PrevInuse(region.mem[NextCursor]) \in BOOLEAN
    BY DEF PrevInuse
  <1> QED
    BY <1>3, <1>4, <1>5, <1>6 DEF ChunkEvent, Events, Full, TypeOK

(* A walk about to begin, over any region.                                 *)
Starting ==
  /\ IsRegion(region)
  /\ pc = "start"
  /\ cursor = region.start
  /\ header = 0
  /\ seen = 0
  /\ events = <<>>
  /\ problems = <<>>

LEMMA StartIInv == Starting => IInv
  <1> SUFFICES ASSUME Starting PROVE IInv
    OBVIOUS
  <1>1. region.start \in Addr
    BY RegionTyped DEF Starting
  <1>2. TypeOK
    BY <1>1, AddrLimitAssumption, ChunkWalkAssumption DEF Starting, TypeOK, Addr
  <1>3. EventsTileRegion
    BY DEF Starting, EventsTileRegion, Covered
  <1>4. EventsMatchHeaders
    BY DEF Starting, EventsMatchHeaders
  <1> QED
    BY <1>2, <1>3, <1>4, ChunkWalkAssumption DEF Starting, IInv, CarriedHeader

LEMMA InitIInv == Init => IInv
  BY StartIInv, ChunkWalkAssumption DEF Init, Starting

(* Appending to the problems keeps them typed.                             *)
LEMMA ReportTyped ==
  ASSUME TypeOK, NEW kind \in ProblemKinds, Report(kind)
  PROVE  problems' \in Seq(ProblemKinds)
  BY DEF TypeOK, Report

LEMMA StepIInv == IInv /\ [Next]_vars => IInv'
  <1> SUFFICES ASSUME IInv, [Next]_vars PROVE IInv'
    OBVIOUS
  <1> USE DEF IInv
  <1>1. CASE RejectRegion
    <2>1. TypeOK'
      BY <1>1, ReportTyped DEF TypeOK, RejectRegion, ProblemKinds
    <2> QED
      BY <1>1, <2>1 DEF RejectRegion, EventsTileRegion, EventsMatchHeaders,
         CarriedHeader, EndOf
  <1>2. CASE EmptyRegion
    BY <1>2 DEF EmptyRegion, TypeOK, EventsTileRegion, EventsMatchHeaders,
       CarriedHeader, EndOf
  <1>3. CASE FirstUnreadable
    <2>1. TypeOK'
      BY <1>3, ReportTyped DEF TypeOK, FirstUnreadable, ProblemKinds
    <2> QED
      BY <1>3, <2>1 DEF FirstUnreadable, EventsTileRegion,
         EventsMatchHeaders, CarriedHeader, EndOf
  <1>4. CASE ReadFirst
    <2>1. region.mem[region.start] \in Addr /\ region.start \in Addr
          /\ region.end \in Addr
      BY <1>4, RegionTyped DEF ReadFirst, Readable, TypeOK
    <2>2. TypeOK'
      BY <1>4, <2>1 DEF ReadFirst, TypeOK
    <2>3. EventsTileRegion' /\ EventsMatchHeaders'
      BY <1>4 DEF ReadFirst, EventsTileRegion, EventsMatchHeaders,
         CarriedHeader, Covered
    <2>4. CarriedHeader'
      BY <1>4, <2>1 DEF ReadFirst, CarriedHeader, Addr
    <2> QED
      BY <2>2, <2>3, <2>4
  <1>5. CASE EndOfRegion
    BY <1>5 DEF EndOfRegion, TypeOK, EventsTileRegion, EventsMatchHeaders,
       CarriedHeader, EndOf
  <1>6. CASE TruncateAtChunk
    <2>1. seen' \in 0 .. MaxChunks + 1
      BY <1>6, ChunkWalkAssumption DEF TruncateAtChunk, TypeOK, CarriedHeader,
         InLoop
    <2>2. TypeOK'
      BY <1>6, <2>1, ReportTyped DEF TypeOK, TruncateAtChunk, ProblemKinds
    <2> QED
      BY <1>6, <2>2 DEF TruncateAtChunk, EventsTileRegion,
         EventsMatchHeaders, CarriedHeader, EndOf
  <1>7. CASE NextUnreadable
    <2>1. NextCursor \in Addr /\ seen' \in 0 .. MaxChunks + 1
      <3>1. Full \in 0 .. header /\ region.end \in Addr
        BY ChunkSizeBound, RegionTyped DEF Full, TypeOK
      <3> QED
        BY <1>7, <3>1, AddrLimitAssumption, ChunkWalkAssumption
           DEF NextUnreadable, InLoop, BadChunk, NextCursor, TypeOK, Addr,
               AddOverflows
    <2>2. TypeOK'
      BY <1>7, <2>1, ReportTyped DEF TypeOK, NextUnreadable, ProblemKinds
    <2> QED
      BY <1>7, <2>2 DEF NextUnreadable, EventsTileRegion,
         EventsMatchHeaders, CarriedHeader, EndOf
  <1>8. CASE StopAtBridge
    <2>1. TypeOK'
      BY <1>8, AcceptedChunk, ChunkWalkAssumption
         DEF StopAtBridge, Advance, TypeOK
    <2> QED
      BY <1>8, <2>1 DEF StopAtBridge, Advance, EventsTileRegion,
         EventsMatchHeaders, CarriedHeader, EndOf
  <1>9. CASE EmitChunk
    <2> DEFINE e == ChunkEvent(cursor, header, region.mem[NextCursor])
    <2>1. /\ e \in Events
          /\ events' = Append(events, e)
          /\ cursor' = NextCursor
          /\ header' = region.mem[NextCursor]
          /\ seen' = seen + 1
          /\ pc = "walk"
          /\ UNCHANGED <<region, pc, problems>>
          /\ Readable(region.mem, NextCursor)
      BY <1>9, AcceptedChunk DEF EmitChunk, Advance, InLoop
    <2>2. /\ NextCursor \in Addr
          /\ NextCursor <= region.end
          /\ Full > 0
          /\ seen + 1 \in 0 .. MaxChunks
          /\ region.mem[NextCursor] \in Addr
      BY <1>9, AcceptedChunk DEF EmitChunk, Advance
    <2>3. TypeOK'
      BY <2>1, <2>2, ChunkWalkAssumption DEF TypeOK
    <2>4. /\ e.size_field_addr = cursor
          /\ e.full_size = Full
          /\ EndOf(e) = NextCursor
          /\ e.in_use = PrevInuse(region.mem[NextCursor])
      BY DEF ChunkEvent, EndOf, NextCursor, Full
    <2>5. /\ Len(events') = Len(events) + 1
          /\ DOMAIN events' = 1 .. Len(events) + 1
          /\ events'[Len(events) + 1] = e
          /\ \A i \in DOMAIN events : events'[i] = events[i]
          /\ DOMAIN events = 1 .. Len(events)
          /\ Len(events) \in Nat
      BY <2>1 DEF TypeOK
    <2>6. CarriedHeader'
      BY <2>1, <2>2, <2>5 DEF CarriedHeader
    <2>7. EventsTileRegion'
      <3>1. events' # <<>> /\ Covered' = NextCursor
        BY <2>4, <2>5 DEF Covered, EndOf
      <3>2. e.size_field_addr = Covered
        BY <2>1, <2>4 DEF EventsTileRegion
      <3>3. ASSUME NEW i \in DOMAIN events'
            PROVE  /\ events'[i].size_field_addr =
                        IF i = 1 THEN region.start ELSE EndOf(events'[i - 1])
                   /\ events'[i].full_size > 0
                   /\ EndOf(events'[i]) <= region.end
        <4>1. CASE i \in DOMAIN events
          <5>1. i # 1 => i - 1 \in DOMAIN events
            BY <4>1, <2>5
          <5> QED
            BY <4>1, <5>1, <2>5 DEF EventsTileRegion
        <4>2. CASE i = Len(events) + 1
          <5>1. CASE events = <<>>
            BY <4>2, <5>1, <3>2, <2>2, <2>4, <2>5 DEF Covered
          <5>2. CASE events # <<>>
            <6>1. Len(events) \in DOMAIN events /\ i # 1 /\ i - 1 = Len(events)
              BY <4>2, <5>2, <2>5 DEF TypeOK
            <6>2. Covered = EndOf(events'[i - 1])
              BY <5>2, <6>1, <2>5 DEF Covered
            <6> QED
              BY <4>2, <6>1, <6>2, <3>2, <2>2, <2>4, <2>5
          <5> QED
            BY <5>1, <5>2
        <4> QED
          BY <3>3, <4>1, <4>2, <2>5
      <3> QED
        BY <3>1, <3>3, <2>1 DEF EventsTileRegion, EndOf
    <2>8. EventsMatchHeaders'
      <3>1. Readable(region.mem, cursor) /\ header = region.mem[cursor]
        BY <2>1 DEF CarriedHeader
      <3> QED
        BY <3>1, <2>1, <2>4, <2>5 DEF EventsMatchHeaders, EndOf, Full
    <2> QED
      BY <2>3, <2>6, <2>7, <2>8
  <1>10. CASE UNCHANGED vars
    BY <1>10 DEF vars, TypeOK, EventsTileRegion, EventsMatchHeaders,
       CarriedHeader, Covered, EndOf
  <1> QED
    BY <1>1, <1>2, <1>3, <1>4, <1>5, <1>6, <1>7, <1>8, <1>9, <1>10 DEF Next

LEMMA InductiveInvariant == Spec => []IInv
  BY InitIInv, StepIInv, PTL DEF Spec

-----------------------------------------------------------------------------
(* The verdict of a finished walk.  Only the steps that end the walk can   *)
(* break it: from then on nothing changes.                                 *)

Verdict == CleanEndCoversRegion /\ ProblemHasCause

LEMMA StepVerdict == IInv /\ Verdict /\ [Next]_vars => Verdict'
  <1> SUFFICES ASSUME IInv, Verdict, [Next]_vars PROVE Verdict'
    OBVIOUS
  <1> USE DEF IInv, Verdict
  <1>0. /\ pc # "done" => Covered = cursor
        /\ pc # "done" => problems = <<>>
        /\ pc = "walk" => Readable(region.mem, cursor)
                           /\ header = region.mem[cursor]
        /\ UNCHANGED <<region, events>> => Covered' = Covered
    BY DEF EventsTileRegion, CarriedHeader, Covered, EndOf, TypeOK
  <1>1. CASE RejectRegion
    BY <1>1, <1>0 DEF RejectRegion, CleanEndCoversRegion, ProblemHasCause,
       Report
  <1>2. CASE EmptyRegion
    BY <1>2, <1>0 DEF EmptyRegion, CleanEndCoversRegion, ProblemHasCause,
       CarriedHeader
  <1>3. CASE FirstUnreadable
    BY <1>3, <1>0 DEF FirstUnreadable, CleanEndCoversRegion,
       ProblemHasCause, Report, CarriedHeader
  <1>4. CASE ReadFirst
    BY <1>4, <1>0 DEF ReadFirst, CleanEndCoversRegion, ProblemHasCause
  <1>5. CASE EndOfRegion
    BY <1>5, <1>0 DEF EndOfRegion, CleanEndCoversRegion, ProblemHasCause
  <1>6. CASE TruncateAtChunk
    <2>1. /\ pc = "walk" /\ problems = <<>> /\ BadChunk
          /\ problems' = <<"HeapWalkTruncated">>
          /\ UNCHANGED <<region, events>> /\ Covered' = Covered
          /\ Covered = cursor /\ header = region.mem[cursor]
          /\ seen = Len(events) /\ seen <= MaxChunks /\ seen \in Nat
      BY <1>6, <1>0 DEF TruncateAtChunk, InLoop, Report, CarriedHeader, TypeOK
    <2>2. seen + 1 > MaxChunks => Len(events) = MaxChunks
      BY <2>1, ChunkWalkAssumption
    <2>3. \/ Len(events) = MaxChunks
          \/ LET size == ChunkSize(region.mem[Covered])
             IN  \/ size < 2 * Word
                 \/ size % Alignment # 0
                 \/ AddOverflows(Covered, size)
                 \/ Covered + size > region.end
      BY <2>1, <2>2 DEF BadChunk, NextCursor, Full
    <2> QED
      BY <2>1, <2>3 DEF CleanEndCoversRegion, ProblemHasCause
  <1>7. CASE NextUnreadable
    BY <1>7, <1>0 DEF NextUnreadable, CleanEndCoversRegion,
       ProblemHasCause, Report, InLoop, NextCursor, Full
  <1>8. CASE StopAtBridge
    <2>1. BridgeAt(Covered)
      BY <1>8, <1>0 DEF StopAtBridge, Advance, InLoop, IsBridge, BridgeAt,
         NextCursor, Full
    <2>2. BridgeAt(Covered)'
      BY <1>8, <1>0, <2>1 DEF StopAtBridge, Advance, BridgeAt
    <2> QED
      BY <1>8, <1>0, <2>2 DEF StopAtBridge, Advance, InLoop,
         CleanEndCoversRegion, ProblemHasCause
  <1>9. CASE EmitChunk
    BY <1>9, <1>0 DEF EmitChunk, Advance, InLoop, CleanEndCoversRegion,
       ProblemHasCause
  <1>10. CASE UNCHANGED vars
    BY <1>10, <1>0 DEF vars, CleanEndCoversRegion, ProblemHasCause, BridgeAt,
       IsBridge
  <1> QED
    BY <1>1, <1>2, <1>3, <1>4, <1>5, <1>6, <1>7, <1>8, <1>9, <1>10 DEF Next

LEMMA InitVerdict == Init => Verdict
  BY DEF Init, Verdict, CleanEndCoversRegion, ProblemHasCause

LEMMA VerdictInvariant == Spec => []Verdict
  BY InductiveInvariant, InitVerdict, StepVerdict, PTL DEF Spec

-----------------------------------------------------------------------------
(* Tiles are in order, so no two of them overlap: that is what a walk over *)
(* several regions has to know of each.                                    *)
InOrder ==
  /\ \A i \in DOMAIN events :
       /\ region.start <= events[i].size_field_addr
       /\ EndOf(events[i]) <= Covered
       /\ Covered <= region.end
  /\ \A i, j \in DOMAIN events :
       i < j => EndOf(events[i]) <= events[j].size_field_addr

LEMMA StartInOrder == Starting => InOrder
  BY DEF Starting, InOrder

LEMMA StepInOrder == IInv /\ InOrder /\ [Next]_vars => InOrder'
  <1> SUFFICES ASSUME IInv, InOrder, [Next]_vars PROVE InOrder'
    OBVIOUS
  <1>1. CASE UNCHANGED <<region, events>>
    BY <1>1 DEF InOrder, Covered, EndOf
  <1>2. CASE EmitChunk
    <2> DEFINE e == ChunkEvent(cursor, header, region.mem[NextCursor])
               n == Len(events)
    <2>1. /\ e \in Events /\ events' = Append(events, e) /\ region' = region
          /\ NextCursor \in Addr /\ NextCursor <= region.end
          /\ e.size_field_addr = cursor /\ EndOf(e) = NextCursor
          /\ cursor <= NextCursor /\ pc = "walk"
      <3>1. TypeOK /\ CarriedHeader
        BY DEF IInv
      <3>2. /\ NextCursor \in Addr /\ NextCursor <= region.end /\ Full \in Addr
            /\ e \in Events
        BY <1>2, <3>1, AcceptedChunk DEF EmitChunk, Advance
      <3>3. cursor <= NextCursor
        BY <3>1, <3>2, AddrLimitAssumption DEF NextCursor, TypeOK, Addr
      <3>4. e.size_field_addr = cursor /\ EndOf(e) = NextCursor
        BY DEF ChunkEvent, EndOf, NextCursor, Full
      <3> QED
        BY <1>2, <3>2, <3>3, <3>4 DEF EmitChunk, Advance, InLoop
    <2>2. /\ Covered = cursor /\ events \in Seq(Events) /\ region.start \in Addr
          /\ cursor \in Addr /\ (events = <<>> => cursor = region.start)
      <3>1. Covered = cursor
        BY <2>1 DEF IInv, EventsTileRegion
      <3> QED
        BY <3>1, RegionTyped DEF IInv, TypeOK, Covered
    <2> HIDE DEF e
    <2>3. /\ n \in Nat /\ DOMAIN events = 1 .. n /\ DOMAIN events' = 1 .. n + 1
          /\ events'[n + 1] = e /\ \A i \in 1 .. n : events'[i] = events[i]
          /\ events' # <<>> /\ Len(events') = n + 1
          /\ \A i \in 1 .. n : events[i] \in Events
      BY <2>1, <2>2
    <2>4. Covered' = NextCursor
      BY <2>1, <2>3 DEF Covered, EndOf
    <2>5. \A a \in Addr : a \in Nat
      BY AddrLimitAssumption DEF Addr
    <2>6. \A i \in 1 .. n : EndOf(events[i]) \in Nat
      BY <2>3, <2>5 DEF EndOf, Events
    <2>7. region.start <= cursor
      <3>1. CASE n = 0
        BY <2>2, <2>3, <2>5, <3>1
      <3>2. CASE n # 0
        <4>1. /\ 1 \in 1 .. n /\ events[1] \in Events
              /\ region.start <= events[1].size_field_addr /\ EndOf(events[1]) <= cursor
          BY <2>2, <2>3, <3>2 DEF InOrder
        <4> QED
          BY <2>2, <2>5, <4>1 DEF EndOf, Events
      <3> QED
        BY <3>1, <3>2
    <2>8. ASSUME NEW i \in DOMAIN events'
          PROVE  /\ region.start <= events'[i].size_field_addr
                 /\ EndOf(events'[i]) <= NextCursor
                 /\ NextCursor <= region.end
      <3>1. CASE i \in 1 .. n
        <4>1. region.start <= events[i].size_field_addr /\ EndOf(events[i]) <= cursor
          BY <2>2, <2>3, <3>1 DEF InOrder
        <4> QED
          BY <2>1, <2>2, <2>3, <2>5, <2>6, <3>1, <4>1
      <3>2. CASE i = n + 1
        BY <2>1, <2>3, <2>5, <2>7, <3>2
      <3> QED
        BY <2>3, <3>1, <3>2
    <2>9. ASSUME NEW i \in DOMAIN events', NEW j \in DOMAIN events', i < j
          PROVE  EndOf(events'[i]) <= events'[j].size_field_addr
      <3>1. CASE j \in 1 .. n
        BY <2>3, <2>9, <3>1 DEF InOrder
      <3>2. CASE j = n + 1
        BY <2>1, <2>2, <2>3, <2>9, <3>2 DEF InOrder
      <3> QED
        BY <2>3, <3>1, <3>2
    <2> QED
      BY <2>1, <2>4, <2>8, <2>9 DEF InOrder, EndOf
  <1> QED
    BY <1>1, <1>2
       DEF Next, vars, RejectRegion, EmptyRegion, FirstUnreadable, ReadFirst,
           EndOfRegion, TruncateAtChunk, NextUnreadable, StopAtBridge

LEMMA SameRegion == Next => region' = region
  BY DEF Next, RejectRegion, EmptyRegion, FirstUnreadable, ReadFirst, EndOfRegion,
         TruncateAtChunk, NextUnreadable, StopAtBridge, EmitChunk

-----------------------------------------------------------------------------
(* Types hold for every region; in particular the additions and            *)
(* subtractions that walk.rs does not check stay within a u64.             *)
THEOREM TypeCorrect == Spec => []TypeOK
  BY InductiveInvariant, PTL DEF IInv

(* Emitted chunks tile a prefix of the region, without gaps or overlaps.   *)
THEOREM ChunksTileRegion == Spec => []EventsTileRegion
  BY InductiveInvariant, PTL DEF IInv

(* Every event agrees with the two header words that delimit its chunk.    *)
THEOREM ChunksMatchHeaders == Spec => []EventsMatchHeaders
  BY InductiveInvariant, PTL DEF IInv

(* A walk that ends without a problem leaves no chunk out but the bridge.  *)
THEOREM CleanWalkIsComplete == Spec => []CleanEndCoversRegion
  BY VerdictInvariant, PTL DEF Verdict

(* A walk reports at most one problem and never without a damaged chunk.   *)
THEOREM NoFalseAlarm == Spec => []ProblemHasCause
  BY VerdictInvariant, PTL DEF Verdict
=============================================================================
