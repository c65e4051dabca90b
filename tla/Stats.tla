------------------------------- MODULE Stats --------------------------------
(***************************************************************************)
(* heap::stats::accumulate: the chunk events of one arena, the tcache      *)
(* membership of the whole process and the fastbins of the arena are       *)
(* folded into allocated and free totals.                                  *)
(*                                                                         *)
(* A fastbin chunk keeps its in-use bit, so its event counts as allocated  *)
(* first and is moved to free afterwards, by count and nominal size alone: *)
(* which chunks the bin holds is not known here.  The model keeps them     *)
(* (fastbins[i].members) to say what the right answer would have been.     *)
(*                                                                         *)
(* One step is one event or one fastbin; the arena is chosen in Init, and  *)
(* the membership is what TlsResolve made of the threads (Accounting).     *)
(***************************************************************************)
EXTENDS Naturals, Sequences, FiniteSets, Functions

CONSTANTS Sizes,       \* the payload sizes that occur
          MinPayload,  \* minsize - header_size
          Alignment,   \* DetectedLayout.malloc_alignment
          HeaderSize,  \* DetectedLayout.header_size
          MaxU64,      \* u64::MAX
          Arenas       \* the inputs accumulate may be called with

(* The ChunkEvents of the arena and its fastbins.                          *)
IsArena(a) ==
  /\ a.events \in Seq([user_addr : Nat, user_size : Sizes, in_use : BOOLEAN])
  /\ Len(a.events) <= MaxU64
  /\ a.fastbins \in Seq([index : Nat, count : Nat, members : SUBSET Nat])
  /\ \A i \in DOMAIN a.fastbins :
       MinPayload + a.fastbins[i].index * Alignment \in Sizes

InputsOK ==
  /\ Sizes \subseteq Nat \ {0} /\ IsFiniteSet(Sizes)
  /\ {MinPayload, Alignment, HeaderSize, MaxU64} \subseteq Nat
  /\ \A a \in Arenas : IsArena(a)

VARIABLES arena,        \* the arguments
          membership,   \* the user addresses in some tcache -> first owner
          pc,           \* "events", "fastbins" or "done"
          i,            \* the event or the fastbin to look at next
          allocated,    \* SizeTally
          free,         \* SizeTally
          tcacheThreads,
          tcacheCounts, \* bin index -> chunks
          shown,        \* fastbins: the BinTally of each one listed
          inconsistent  \* the sizes reported StatsInconsistent

vars == <<arena, membership, pc, i, allocated, free, tcacheThreads,
          tcacheCounts, shown, inconsistent>>

SizeTally == [count : Nat, bytes : Nat, histogram : [Sizes -> Nat]]

TypeOK ==
  /\ IsArena(arena)
  /\ \A p \in DOMAIN membership : membership[p] \in [thread : Nat, bin : Nat]
  /\ pc \in {"events", "fastbins", "done"}
  /\ i \in Nat \ {0}
  /\ allocated \in SizeTally
  /\ free \in SizeTally
  /\ tcacheThreads \subseteq Nat
  /\ \A b \in DOMAIN tcacheCounts : b \in Nat /\ tcacheCounts[b] \in Nat
  /\ shown \in Seq([index : Nat, size : Nat, count : Nat, bytes : Nat])
  /\ inconsistent \subseteq Sizes

-----------------------------------------------------------------------------
(* SizeTally.                                                              *)

SatAdd(a, b) == IF a + b > MaxU64 THEN MaxU64 ELSE a + b

SatMul(a, b) == IF a * b > MaxU64 THEN MaxU64 ELSE a * b

SatSub(a, b) == IF a >= b THEN a - b ELSE 0

(* Wrong variant: the bytes of one chunk only.                             *)
AddN_OneChunkBytes(t, size, n) ==
  [count     |-> SatAdd(t.count, n),
   bytes     |-> SatAdd(t.bytes, size),
   histogram |-> [t.histogram EXCEPT ![size] = SatAdd(@, n)]]

AddN(t, size, n) ==
  [count     |-> SatAdd(t.count, n),
   bytes     |-> SatAdd(t.bytes, SatMul(size, n)),
   histogram |-> [t.histogram EXCEPT ![size] = SatAdd(@, n)]]

RemoveN(t, size, n) ==
  [count     |-> SatSub(t.count, n),
   bytes     |-> SatSub(t.bytes, SatMul(size, n)),
   histogram |-> [t.histogram EXCEPT ![size] = SatSub(@, n)]]

(* Wrong variant: taking the last chunk of a size is an underflow.         *)
Underflows_AtEqual(t, size, n) == t.count <= n \/ t.histogram[size] <= n

(* What remove_n returns.                                                  *)
Underflows(t, size, n) == t.count < n \/ t.histogram[size] < n

EmptyTally == [count |-> 0, bytes |-> 0, histogram |-> [s \in Sizes |-> 0]]

IndexToSize(index) == MinPayload + index * Alignment

(* A bin is listed with its nominal size, whatever the chunks' own.        *)
BinTally(index, count) ==
  [index |-> index, size |-> IndexToSize(index), count |-> count,
   bytes |-> SatMul(IndexToSize(index), count)]

-----------------------------------------------------------------------------
Init ==
  /\ arena \in Arenas
  /\ pc = "events"
  /\ i = 1
  /\ allocated = EmptyTally
  /\ free = EmptyTally
  /\ tcacheThreads = {}
  /\ tcacheCounts = <<>>
  /\ shown = <<>>
  /\ inconsistent = {}

(* The chunk at hand, and whether some tcache holds it.                    *)
Event == arena.events[i]

MoreEvents == pc = "events" /\ i <= Len(arena.events)

Parked == Event.in_use /\ Event.user_addr \in DOMAIN membership

CountOwner ==
  LET owner == membership[Event.user_addr]
      old   == IF owner.bin \in DOMAIN tcacheCounts
               THEN tcacheCounts[owner.bin] ELSE 0
  IN  /\ tcacheThreads' = tcacheThreads \cup {owner.thread}
      /\ tcacheCounts' = [b \in DOMAIN tcacheCounts \cup {owner.bin} |->
                            IF b = owner.bin THEN SatAdd(old, 1)
                            ELSE tcacheCounts[b]]

(* Wrong variant: without the else, the chunk is allocated as well.        *)
CountParked_AllocatedToo ==
  /\ MoreEvents
  /\ Parked
  /\ CountOwner
  /\ free' = AddN(free, Event.user_size, 1)
  /\ allocated' = AddN(allocated, Event.user_size, 1)
  /\ i' = i + 1
  /\ UNCHANGED <<arena, membership, pc, shown, inconsistent>>

(* Source 1: in use by its neighbour's bit, but parked in a tcache.        *)
CountParked ==
  /\ MoreEvents
  /\ Parked
  /\ CountOwner
  /\ free' = AddN(free, Event.user_size, 1)
  /\ i' = i + 1
  /\ UNCHANGED <<arena, membership, pc, allocated, shown, inconsistent>>

CountAllocated ==
  /\ MoreEvents
  /\ Event.in_use
  /\ ~ Parked
  /\ allocated' = AddN(allocated, Event.user_size, 1)
  /\ i' = i + 1
  /\ UNCHANGED <<arena, membership, pc, free, tcacheThreads, tcacheCounts,
                 shown, inconsistent>>

(* Source 3: free by its neighbour's bit.                                  *)
CountFree ==
  /\ MoreEvents
  /\ ~ Event.in_use
  /\ free' = AddN(free, Event.user_size, 1)
  /\ i' = i + 1
  /\ UNCHANGED <<arena, membership, pc, allocated, tcacheThreads, tcacheCounts,
                 shown, inconsistent>>

EventsDone ==
  /\ pc = "events"
  /\ i > Len(arena.events)
  /\ pc' = "fastbins"
  /\ i' = 1
  /\ UNCHANGED <<arena, membership, allocated, free, tcacheThreads,
                 tcacheCounts, shown, inconsistent>>

MoreFastbins == pc = "fastbins" /\ i <= Len(arena.fastbins)

SkipEmptyFastbin ==
  /\ MoreFastbins
  /\ arena.fastbins[i].count = 0
  /\ i' = i + 1
  /\ UNCHANGED <<arena, membership, pc, allocated, free, tcacheThreads,
                 tcacheCounts, shown, inconsistent>>

(* Source 2: count chunks of the bin's nominal size move from allocated to *)
(* free, whether there are that many or not.                               *)
MoveFastbin ==
  /\ MoreFastbins
  /\ arena.fastbins[i].count > 0
  /\ LET bin  == arena.fastbins[i]
         size == IndexToSize(bin.index)
     IN  /\ allocated' = RemoveN(allocated, size, bin.count)
         /\ free' = AddN(free, size, bin.count)
         /\ shown' = Append(shown, BinTally(bin.index, bin.count))
         /\ inconsistent' = IF Underflows(allocated, size, bin.count)
                            THEN inconsistent \cup {size} ELSE inconsistent
  /\ i' = i + 1
  /\ UNCHANGED <<arena, membership, pc, tcacheThreads, tcacheCounts>>

FastbinsDone ==
  /\ pc = "fastbins"
  /\ i > Len(arena.fastbins)
  /\ pc' = "done"
  /\ UNCHANGED <<arena, membership, i, allocated, free, tcacheThreads,
                 tcacheCounts, shown, inconsistent>>

Next ==
  \/ CountParked
  \/ CountAllocated
  \/ CountFree
  \/ EventsDone
  \/ SkipEmptyFastbin
  \/ MoveFastbin
  \/ FastbinsDone

Spec == Init /\ [][Next]_vars

(* Every walked chunk carries one header.                                  *)
OverheadCount == Len(arena.events)

OverheadBytes == SatMul(OverheadCount, HeaderSize)

-----------------------------------------------------------------------------
(* Properties.                                                             *)

(* Whether allocated.bytes saturated cannot be told from its value, since  *)
(* remove_n may have taken from it: the walked chunks have to fit.         *)
WalkedBytes == SumFunction([e \in DOMAIN arena.events |-> arena.events[e].user_size])

(* The three totals of a tally tell one story: its count is the sum of its *)
(* histogram and its bytes the sum of size times count.  For free always   *)
(* (as long as nothing saturates), for allocated as long as no fastbin was *)
(* reported: remove_n clamps each of the three on its own.  As long as     *)
(* none was, allocated and free also count every chunk seen exactly once.  *)
Agrees(t) ==
  /\ t.count = SumFunction(t.histogram)
  /\ t.bytes = SumFunction([s \in Sizes |-> s * t.histogram[s]])

TotalsAgree ==
  /\ free.bytes < MaxU64 => Agrees(free)
  /\ inconsistent = {} /\ WalkedBytes <= MaxU64 => Agrees(allocated)
  /\ inconsistent = {} =>
       allocated.count + free.count =
         IF pc = "events" THEN i - 1 ELSE OverheadCount

(* What the report should say, chunk by chunk, where the fastbins' members *)
(* are known.  A healthy arena: every fastbin member is one walked chunk,  *)
(* of the bin's size, in no tcache and in no other bin.                    *)
Members == UNION {arena.fastbins[b].members : b \in DOMAIN arena.fastbins}

ChunksAt(p) == {e \in DOMAIN arena.events : arena.events[e].user_addr = p}

IsHealthy ==
  /\ \A b \in DOMAIN arena.fastbins :
       LET bin == arena.fastbins[b]
       IN  /\ bin.count = Cardinality(bin.members)
           /\ \A p \in bin.members :
                /\ p \notin DOMAIN membership
                /\ \E e \in DOMAIN arena.events :
                     /\ ChunksAt(p) = {e}
                     /\ arena.events[e].in_use
                     /\ arena.events[e].user_size = IndexToSize(bin.index)
           /\ \A c \in DOMAIN arena.fastbins :
                b # c => bin.members \cap arena.fastbins[c].members = {}

LiveChunks(size) ==
  {e \in DOMAIN arena.events :
     /\ arena.events[e].in_use
     /\ arena.events[e].user_size = size
     /\ arena.events[e].user_addr \notin DOMAIN membership \cup Members}

ChunksOf(size) == {e \in DOMAIN arena.events : arena.events[e].user_size = size}

(* What the fastbins looked at so far have added to the free chunks of a   *)
(* size, if no counter was at its cap.                                     *)
Moved(size) ==
  LET bins == {b \in 1 .. i - 1 : IndexToSize(arena.fastbins[b].index) = size}
  IN  SumFunction([b \in bins |-> arena.fastbins[b].count])

(* On a healthy arena nothing is reported, and the two histograms are      *)
(* exact: chunks handed out and not given back on one side, all the others *)
(* on the other.                                                           *)
HealthyArenaIsCountedRight ==
  pc = "done" /\ IsHealthy =>
    /\ inconsistent = {}
    /\ \A s \in Sizes :
         /\ allocated.histogram[s] = Cardinality(LiveChunks(s))
         /\ free.histogram[s] = Cardinality(ChunksOf(s)) - Cardinality(LiveChunks(s))
=============================================================================
