----------------------------- MODULE ReportModel -----------------------------
(***************************************************************************)
(* report::model: the entry of arenas[] the report shows for an arena that *)
(* was walked, made from what accumulate (Stats) counted, the heaps that   *)
(* were listed and the threads attached to the arena.                      *)
(***************************************************************************)
EXTENDS Stats, SequencesExt

(* A BTreeMap gives its keys in order.                                     *)
Ascending(S) ==
  CHOOSE f \in [1 .. Cardinality(S) -> S] : \A k, m \in DOMAIN f : k < m => f[k] < f[m]

(* The rows of a histogram, ascending by size.                             *)
Buckets(histogram) ==
  LET sizes == Ascending({s \in DOMAIN histogram : histogram[s] > 0})
  IN  [r \in DOMAIN sizes |->
         [size  |-> sizes[r],
          count |-> histogram[sizes[r]],
          bytes |-> SatMul(sizes[r], histogram[sizes[r]])]]

TallySummary(t) ==
  [count |-> t.count, bytes |-> t.bytes, size_histogram |-> Buckets(t.histogram)]

TcacheSummary ==
  LET indexes == Ascending(DOMAIN tcacheCounts)
  IN  [tcache_threads |-> tcacheThreads,
       bins |-> [r \in DOMAIN indexes |->
                   BinTally(indexes[r], tcacheCounts[indexes[r]])]]

FreeSummary ==
  [tcache |-> TcacheSummary, fastbins |-> shown,
   count |-> free.count, bytes |-> free.bytes, size_histogram |-> Buckets(free.histogram)]

HeapsSummary(heaps) ==
  [count           |-> Len(heaps),
   total_bytes     |-> FoldLeft(LAMBDA sum, h : SatAdd(sum, h.size), 0, heaps),
   committed_bytes |-> FoldLeft(LAMBDA sum, h : SatAdd(sum, h.mprotect_size), 0, heaps)]

(* ArenaReport::build.                                                     *)
ArenaReport(attached, heaps) ==
  [attached_threads |-> attached,
   heaps            |-> HeapsSummary(heaps),
   allocated        |-> TallySummary(allocated),
   free             |-> FreeSummary,
   overhead         |-> [count |-> OverheadCount, bytes |-> OverheadBytes]]

-----------------------------------------------------------------------------
(* Properties of an entry r.                                               *)

SumOf(rows, value(_)) == SumFunction([k \in DOMAIN rows |-> value(rows[k])])

Count(row) == row.count

Bytes(row) == row.bytes

(* The rows of a summary ascend, none is empty, and they add up to the     *)
(* totals above them.                                                      *)
RowsAreWellFormed(rows) ==
  /\ \A k \in DOMAIN rows : rows[k].count > 0
  /\ \A k, m \in DOMAIN rows : k < m => rows[k].size < rows[m].size

RowsAddUp(summary) ==
  /\ SumOf(summary.size_histogram, Count) = summary.count
  /\ SumOf(summary.size_histogram, Bytes) = summary.bytes

(* A reader of the report can add it up: the histograms have one row per   *)
(* size, in order and never an empty one, and sum to their totals (where   *)
(* no counter saturated and, for allocated, no underflow was reported);    *)
(* what is not allocated is free; and the bins are a part of free.         *)
EntryAddsUp(r) ==
  /\ RowsAreWellFormed(r.allocated.size_histogram)
  /\ RowsAreWellFormed(r.free.size_histogram)
  /\ r.free.bytes < MaxU64 =>
       /\ RowsAddUp(r.free)
       /\ SumOf(r.free.tcache.bins, Count) + SumOf(r.free.fastbins, Count)
            <= r.free.count
  /\ inconsistent = {} =>
       /\ r.allocated.count + r.free.count = r.overhead.count
       /\ WalkedBytes <= MaxU64 => RowsAddUp(r.allocated)

(* No total is less than one of its parts.                                 *)
HeapTotalsCover(r, heaps) ==
  \A k \in DOMAIN heaps :
    /\ heaps[k].size <= r.heaps.total_bytes
    /\ heaps[k].mprotect_size <= r.heaps.committed_bytes
=============================================================================
