------------------------------ MODULE Analyze -------------------------------
(***************************************************************************)
(* analyze_core_with_debug, the report command and main: the order of the  *)
(* analysis, what ends it, what only degrades it, and what reaches stdout. *)
(*                                                                         *)
(* Each component has a module of its own; here it is the outcome that the *)
(* orchestration tells apart.  run, chosen in Init, holds the outcomes:    *)
(* the hard errors (broken), the problems of detection, the arena ring     *)
(* with one record per arena, the arena each thread is bound to, and       *)
(* whether stdout can be written.                                          *)
(***************************************************************************)
EXTENDS Naturals, SequencesExt

CONSTANT Runs \* the outcomes the analysis may meet

(* Hard failures in the order they are met.                                *)
Stages == <<"core", "arch", "threads", "reference", "debug", "detect", "identity",
            "locate", "ring", "tls", "arena", "regions", "bins", "render">>

Recoverable == {"MissingRelocation", "UnknownGlibcVersion", "DuplicateSymbol",
                "DwarfLayoutFallback"}

ArenaOutcomes ==
  [start : BOOLEAN, cut : BOOLEAN, unbalanced : BOOLEAN,
   heaps : Seq(BOOLEAN), bins : Seq({"ok", "head", "chain"})]

IsRun(r) ==
  /\ r.broken \subseteq Range(Stages)
  /\ r.detected \subseteq Recoverable
  /\ {r.buildId, r.ringCut} \subseteq BOOLEAN
  /\ r.arenas \in Seq(ArenaOutcomes) /\ r.arenas # <<>>
  /\ r.threads \in Seq(0 .. Len(r.arenas) + 1)
  /\ r.write \in {"ok", "document", "newline"}

ASSUME AnalyzeAssumption == \A r \in Runs : IsRun(r)

VARIABLES run,      \* the input
          pc,       \* the stage, or "exited"
          problems, \* the problem list, as [kind, of]
          bound,    \* thread_arena_map: threads to arenas
          arena,    \* the arena being walked, from 1
          cursor,   \* heaps or bins of it done
          fastbins, \* the bins of it with a result
          reports,  \* arena_reports
          stdout,   \* "empty", "partial" or "complete"
          code      \* the exit code, Running before

vars == <<run, pc, problems, bound, arena, cursor, fastbins, reports, stdout, code>>

walk == <<bound, arena, cursor, fastbins, reports>>

Running == 256

Nowhere == 0 \* of for a Problem that names no arena, bound for no thread_arena

(* Arena k of the model has index k - 1 in the report.                     *)
Problem(kind, k) == [kind |-> kind, of |-> k]

ProblemKinds ==
  Recoverable \cup {"MissingBuildId", "ThreadTlsResolutionFailed", "HeapWalkTruncated",
                    "ChunkReadFailed", "FastbinChunkReadFailed", "StatsInconsistent"}

Threads == DOMAIN run.threads

TypeOK ==
  /\ IsRun(run)
  /\ pc \in Range(Stages) \cup {"exited"}
  /\ problems \in Seq([kind : ProblemKinds, of : 0 .. Len(run.arenas) + 1])
  /\ DOMAIN bound \subseteq Threads
  /\ arena \in 1 .. Len(run.arenas) + 1
  /\ cursor \in Nat
  /\ fastbins \subseteq Nat
  /\ reports \in Seq([of : DOMAIN run.arenas, stub : BOOLEAN,
                      attached : SUBSET Threads, heaps : Nat, fastbins : SUBSET Nat])
  /\ stdout \in {"empty", "partial", "complete"}
  /\ code \in {0, 1, 101, Running}

Init ==
  /\ run \in Runs
  /\ pc = "core"
  /\ problems = <<>>
  /\ bound = <<>>
  /\ arena = 1
  /\ cursor = 0
  /\ fastbins = {}
  /\ reports = <<>>
  /\ stdout = "empty"
  /\ code = Running

At(stage) == pc = stage /\ stage \notin run.broken

Following == [k \in 1 .. Len(Stages) - 1 |-> Stages[k + 1]]

Exit(c) == pc' = "exited" /\ code' = c

(* Any `?` on the way: main prints the error to stderr and exits with 1.   *)
(* A fatal Problem of detection is turned into one too (analyze.rs:87).    *)
HardError ==
  /\ pc \in run.broken
  /\ Exit(1)
  /\ UNCHANGED <<run, problems, walk, stdout>>

Prepare ==
  /\ \E k \in 1 .. 5 : At(Stages[k]) /\ pc' = Stages[k + 1]
  /\ UNCHANGED <<run, problems, walk, stdout, code>>

Report(ps) == problems' = problems \o ps

Detect ==
  /\ At("detect")
  /\ Report(SetToSeq({Problem(d, Nowhere) : d \in run.detected}))
  /\ pc' = "identity"
  /\ UNCHANGED <<run, walk, stdout, code>>

Identify ==
  /\ At("identity")
  /\ Report(IF run.buildId THEN <<>> ELSE <<Problem("MissingBuildId", Nowhere)>>)
  /\ pc' = "locate"
  /\ UNCHANGED <<run, walk, stdout, code>>

LocateLibc ==
  /\ At("locate")
  /\ pc' = "ring"
  /\ UNCHANGED <<run, problems, walk, stdout, code>>

(* arena::list names the arena it could not reach: the next index.         *)
ListArenas ==
  /\ At("ring")
  /\ Report(IF run.ringCut
            THEN <<Problem("HeapWalkTruncated", Len(run.arenas) + 1)>> ELSE <<>>)
  /\ pc' = "tls"
  /\ UNCHANGED <<run, walk, stdout, code>>

Relocated == "MissingRelocation" \notin run.detected

Unresolved == {t \in Threads : run.threads[t] = Nowhere}

ResolveTls ==
  /\ At("tls")
  /\ bound' = IF Relocated THEN [t \in Threads \ Unresolved |-> run.threads[t]] ELSE <<>>
  /\ Report(IF Relocated
            THEN [k \in 1 .. Cardinality(Unresolved) |->
                    Problem("ThreadTlsResolutionFailed", Nowhere)]
            ELSE <<>>)
  /\ pc' = "arena"
  /\ UNCHANGED <<run, arena, cursor, fastbins, reports, stdout, code>>

(* Wrong variant: every bound thread counts for an arena without heaps.    *)
Attached_Any == DOMAIN bound

(* attached_threads: by the address of the malloc_state.                   *)
Attached == {t \in DOMAIN bound : bound[t] = arena}

Outcome == run.arenas[arena]

(* ArenaReport::build and ::stub.                                          *)
Built == [of |-> arena, stub |-> FALSE, attached |-> Attached,
          heaps |-> Len(Outcome.heaps), fastbins |-> fastbins]

Stub == [of |-> arena, stub |-> TRUE, attached |-> Attached, heaps |-> 0, fastbins |-> {}]

AtArena == At("arena") /\ arena <= Len(run.arenas)

(* Wrong variant: any arena that cannot be walked ends the run.            *)
MainStartFails_AnyArena ==
  /\ AtArena
  /\ ~ Outcome.start
  /\ Exit(1)
  /\ UNCHANGED <<run, problems, walk, stdout>>

MainStartFails ==
  /\ AtArena
  /\ ~ Outcome.start
  /\ arena = 1
  /\ Exit(1)
  /\ UNCHANGED <<run, problems, walk, stdout>>

StubArena ==
  /\ AtArena
  /\ ~ Outcome.start
  /\ arena > 1
  /\ Report(<<Problem("HeapWalkTruncated", arena)>>)
  /\ reports' = Append(reports, Stub)
  /\ arena' = arena + 1
  /\ UNCHANGED <<run, pc, bound, cursor, fastbins, stdout, code>>

ListHeaps ==
  /\ AtArena
  /\ Outcome.start
  /\ Report(IF Outcome.cut THEN <<Problem("HeapWalkTruncated", arena)>> ELSE <<>>)
  /\ cursor' = 0
  /\ pc' = "regions"
  /\ UNCHANGED <<run, bound, arena, fastbins, reports, stdout, code>>

WalkRegion ==
  /\ At("regions")
  /\ cursor < Len(Outcome.heaps)
  /\ Report(IF Outcome.heaps[cursor + 1] THEN <<>>
            ELSE <<Problem("ChunkReadFailed", arena)>>)
  /\ cursor' = cursor + 1
  /\ UNCHANGED <<run, pc, bound, arena, fastbins, reports, stdout, code>>

StartFastbins ==
  /\ At("regions")
  /\ cursor = Len(Outcome.heaps)
  /\ cursor' = 0
  /\ fastbins' = {}
  /\ pc' = "bins"
  /\ UNCHANGED <<run, problems, bound, arena, reports, stdout, code>>

Bin == Outcome.bins[cursor + 1]

(* Wrong variant: an unreadable head ends the arena's fastbins.            *)
WalkFastbin_HeadEnds ==
  /\ At("bins")
  /\ cursor < Len(Outcome.bins)
  /\ Report(IF Bin = "ok" THEN <<>> ELSE <<Problem("FastbinChunkReadFailed", arena)>>)
  /\ fastbins' = IF Bin = "head" THEN fastbins ELSE fastbins \cup {cursor}
  /\ cursor' = IF Bin = "head" THEN Len(Outcome.bins) ELSE cursor + 1
  /\ UNCHANGED <<run, pc, bound, arena, reports, stdout, code>>

(* A bin with an unreadable head has no result, one that breaks has one.   *)
WalkFastbin ==
  /\ At("bins")
  /\ cursor < Len(Outcome.bins)
  /\ Report(IF Bin = "ok" THEN <<>> ELSE <<Problem("FastbinChunkReadFailed", arena)>>)
  /\ fastbins' = IF Bin = "head" THEN fastbins ELSE fastbins \cup {cursor}
  /\ cursor' = cursor + 1
  /\ UNCHANGED <<run, pc, bound, arena, reports, stdout, code>>

Accumulate ==
  /\ At("bins")
  /\ cursor = Len(Outcome.bins)
  /\ Report(IF Outcome.unbalanced THEN <<Problem("StatsInconsistent", arena)>> ELSE <<>>)
  /\ reports' = Append(reports, Built)
  /\ arena' = arena + 1
  /\ pc' = "arena"
  /\ UNCHANGED <<run, bound, cursor, fastbins, stdout, code>>

ReportBuilt ==
  /\ At("arena")
  /\ arena > Len(run.arenas)
  /\ pc' = "render"
  /\ UNCHANGED <<run, problems, walk, stdout, code>>

Render ==
  /\ At("render")
  /\ run.write = "ok"
  /\ stdout' = "complete"
  /\ Exit(0)
  /\ UNCHANGED <<run, problems, walk>>

(* to_writer_pretty streams to stdout; a write that fails part of the way  *)
(* is an Error like any other.                                             *)
RenderFails ==
  /\ At("render")
  /\ run.write = "document"
  /\ stdout' = "partial"
  /\ Exit(1)
  /\ UNCHANGED <<run, problems, walk>>

(* The last line of the document waits in the line buffer for the newline: *)
(* println! panics when that write fails, with or without it written.      *)
NewlineFails ==
  /\ At("render")
  /\ run.write = "newline"
  /\ stdout' \in {"partial", "complete"}
  /\ Exit(101)
  /\ UNCHANGED <<run, problems, walk>>

Next ==
  \/ HardError
  \/ Prepare
  \/ Detect
  \/ Identify
  \/ LocateLibc
  \/ ListArenas
  \/ ResolveTls
  \/ MainStartFails
  \/ StubArena
  \/ ListHeaps
  \/ WalkRegion
  \/ StartFastbins
  \/ WalkFastbin
  \/ Accumulate
  \/ ReportBuilt
  \/ Render
  \/ RenderFails
  \/ NewlineFails

Spec == Init /\ [][Next]_vars

-----------------------------------------------------------------------------
(* Properties.                                                             *)

Delivered == stdout = "complete"

(* The two-tier rule.  Whatever can be walked around never ends the run;   *)
(* what cannot ends it before a byte of the report is written, with exit   *)
(* code 1.                                                                 *)
TwoTiers ==
  pc = "exited" =>
    IF run.broken # {} \/ ~ run.arenas[1].start
    THEN code = 1 /\ stdout = "empty"
    ELSE /\ run.write = "ok" => code = 0 /\ Delivered
         /\ code = 0 => run.write = "ok"

(* A delivered report has one entry per arena of the ring, in ring order,  *)
(* so arenas[i].index = i; only a secondary arena is a stub, and exactly   *)
(* when its heaps could not be started.  Stub or not, the threads attached *)
(* to it are the ones bound to it; a thread bound to an arena outside the  *)
(* list is attached to none.                                               *)
ArenasComplete ==
  Delivered =>
    /\ Len(reports) = Len(run.arenas)
    /\ \A k \in DOMAIN reports :
         /\ reports[k].of = k
         /\ reports[k].stub <=> ~ run.arenas[k].start
         /\ reports[k].stub => k > 1
         /\ \A t \in Threads :
              t \in reports[k].attached <=> (Relocated /\ run.threads[t] = k)

Kinds(k) == {p.kind : p \in {q \in Range(problems) : q.of = k}}

Mentions(p) == {j \in DOMAIN problems : problems[j] = p}

(* A fastbin that is not in the report is one whose head is unreadable,    *)
(* and that is reported, bin by bin.                                       *)
FastbinsComplete(k) ==
  LET bins == run.arenas[k].bins
  IN  /\ reports[k].fastbins = {b - 1 : b \in {c \in DOMAIN bins : bins[c] # "head"}}
      /\ Cardinality(Mentions(Problem("FastbinChunkReadFailed", k)))
           = Cardinality({b \in DOMAIN bins : bins[b] # "ok"})

(* What is missing of an arena.                                            *)
ArenaIsReported(k) ==
  LET a == run.arenas[k]
  IN  /\ reports[k].stub \/ a.cut => "HeapWalkTruncated" \in Kinds(k)
      /\ ~ reports[k].stub =>
           /\ FALSE \in Range(a.heaps) => "ChunkReadFailed" \in Kinds(k)
           /\ a.unbalanced => "StatsInconsistent" \in Kinds(k)
           /\ FastbinsComplete(k)

(* Nothing missing from a delivered report goes without a problem: what    *)
(* detection could not find, the identity fallback, the rest of a broken   *)
(* ring, an arena's heaps, chunks, fastbins and books, a thread.           *)
DegradedIsReported ==
  Delivered =>
    /\ run.detected \subseteq Kinds(Nowhere)
    /\ ~ run.buildId => "MissingBuildId" \in Kinds(Nowhere)
    /\ run.ringCut => "HeapWalkTruncated" \in Kinds(Len(run.arenas) + 1)
    /\ Threads # DOMAIN bound =>
         Kinds(Nowhere) \cap {"ThreadTlsResolutionFailed", "MissingRelocation"} # {}
    /\ \A k \in DOMAIN reports : ArenaIsReported(k)
=============================================================================
