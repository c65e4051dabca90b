---------------------------- MODULE Accounting ------------------------------
(***************************************************************************)
(* From the threads to the report: the TLS pass (TlsResolve) fills the     *)
(* tcache membership of the process, accumulate (Stats) reads it while it  *)
(* counts the chunks of an arena, and the entry of the arena is made of    *)
(* the two (ReportModel).  analyze_core_with_debug calls one after the     *)
(* other, and nothing writes the membership in between.                    *)
(*                                                                         *)
(* The two agree on nothing but user addresses: the first reads them out   *)
(* of the tcache bins of the threads, the second meets them as chunk       *)
(* events of the walk, with the in-use bit of the next chunk.              *)
(***************************************************************************)
EXTENDS TlsResolve

CONSTANTS Sizes, MinPayload, Alignment, HeaderSize, MaxU64, \* see Stats
          Arenas, \* the arenas accumulate may be called with
          Inputs  \* the processes with an arena of theirs

VARIABLES arena, pc, i, allocated, free, tcacheThreads, tcacheCounts, shown,
          inconsistent

S == INSTANCE ReportModel

ASSUME AccountingAssumption ==
  /\ S!InputsOK
  /\ \A a \in Arenas :
       /\ a.addr \in ArenaAddr
       /\ a.heaps \in Seq([size : 0 .. MaxU64, mprotect_size : 0 .. MaxU64])

statsVars == <<arena, pc, i, allocated, free, tcacheThreads, tcacheCounts,
               shown, inconsistent>>

accountingVars == <<vars, statsVars>>

(* attached_threads goes by the address of the malloc_state.               *)
Attached == {t \in DOMAIN arenaOf : arenaOf[t] = arena.addr}

(* What arenas[] of the report shows for the arena.                        *)
Entry == S!ArenaReport(Attached, arena.heaps)

AccountingInit ==
  /\ \E input \in Inputs : proc = input.proc /\ arena = input.arena
  /\ Init
  /\ S!Init

ResolveTls == Next /\ UNCHANGED statsVars

(* accumulate starts when resolve_tls has returned.                        *)
Accumulate ==
  /\ Done
  /\ S!Next
  /\ UNCHANGED <<proc, thread, step, bin, failed, arenaOf, problems>>

AccountingNext == ResolveTls \/ Accumulate

AccountingSpec == AccountingInit /\ [][AccountingNext]_accountingVars

-----------------------------------------------------------------------------
(* Properties.                                                             *)

(* The state of both parts has its type.                                   *)
TypesOK == TypeOK /\ S!TypeOK

(* The tallies tell one story while they are counted (Stats), and the      *)
(* finished entry adds up (ReportModel), whatever the core said.           *)
ReportAddsUp ==
  /\ S!TotalsAgree
  /\ pc = "done" => S!EntryAddsUp(Entry) /\ S!HeapTotalsCover(Entry, arena.heaps)

(* The chunks a bin of some readable tcache lists and the walk saw in use. *)
ParkedChunks ==
  {k \in DOMAIN arena.events :
     arena.events[k].in_use /\ OwnersOf(arena.events[k].user_addr) # {}}

FirstOwner(k) ==
  LET owners == OwnersOf(arena.events[k].user_addr)
  IN  CHOOSE o \in owners : \A q \in owners : o = q \/ Before(o, q)

(* The chunks of a size the events make free: by the bit, or parked.       *)
FreeByEvents(size) ==
  {k \in S!ChunksOf(size) : ~ arena.events[k].in_use \/ k \in ParkedChunks}

(* Each parked chunk is counted in the bin and the thread of its first     *)
(* owner and nowhere else in the tcache, and once among the free chunks of *)
(* its size, however many bins list it and whatever the arena of their     *)
(* thread: up to the cap of a counter, what is free of a size are the      *)
(* chunks free by their bit, the parked ones, each of them once, and what  *)
(* the fastbins of that size say they hold; all the others are allocated,  *)
(* as long as no fastbin was reported.  The last part is by number: a      *)
(* parked chunk that a fastbin holds as well is in both of the others'     *)
(* counts, and costs an allocated chunk of its size (stats.rs:110, 136).   *)
TcacheCountedOnce ==
  pc # "events" =>
    /\ \A b \in 0 .. MaxBins - 1 :
         (IF b \in DOMAIN tcacheCounts THEN tcacheCounts[b] ELSE 0)
           = Cardinality({k \in ParkedChunks : FirstOwner(k).bin = b})
    /\ tcacheThreads = {FirstOwner(k).thread : k \in ParkedChunks}
    /\ \A s \in Sizes :
         /\ free.histogram[s]
              = S!SatAdd(Cardinality(FreeByEvents(s)), S!Moved(s))
         /\ inconsistent = {} =>
              allocated.histogram[s] + S!Moved(s)
                = Cardinality(S!ChunksOf(s) \ FreeByEvents(s))

(* On a healthy arena nothing is reported, and the two histograms are      *)
(* exact: a chunk is allocated if it is in use, in no tcache bin of any    *)
(* thread and in no fastbin, and free otherwise (Stats).                   *)
HealthyArenaIsCountedRight ==
  S!HealthyArenaIsCountedRight
=============================================================================
