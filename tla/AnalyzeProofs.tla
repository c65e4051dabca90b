---------------------------- MODULE AnalyzeProofs ----------------------------
(***************************************************************************)
(* The orchestration keeps its two tiers and its report complete, for      *)
(* every outcome of its parts: any number of arenas, heaps, fastbins and   *)
(* threads, any set of hard errors.                                        *)
(***************************************************************************)
EXTENDS Analyze, FiniteSetTheorems, TLAPS

(* No hard error lies at a stage that the run has passed.                  *)
Passed ==
  \A m, n \in 1 .. Len(Stages) :
    m < n /\ pc = Stages[n] => Stages[m] \notin run.broken

Phases ==
  /\ Passed
  /\ pc # "exited" => code = Running /\ stdout = "empty"
  /\ arena > 1 /\ pc # "exited" =>
       run.arenas[1].start /\ {"regions", "bins"} \cap run.broken = {}
  /\ pc \in {"regions", "bins"} => arena <= Len(run.arenas) /\ Outcome.start
  /\ pc = "render" => arena > Len(run.arenas)
  /\ Delivered => pc = "exited" /\ arena > Len(run.arenas)

InLoop == arena > 1 \/ pc \in {"arena", "regions", "bins", "render"}

EntryIsRight(k) ==
  /\ reports[k].of = k
  /\ reports[k].stub <=> ~ run.arenas[k].start
  /\ reports[k].stub => k > 1
  /\ reports[k].attached = {t \in DOMAIN bound : bound[t] = k}

Entries ==
  /\ Len(reports) = arena - 1
  /\ \A k \in DOMAIN reports : EntryIsRight(k)
  /\ pc \in {"core", "arch", "threads", "reference", "debug", "detect", "identity",
             "locate", "ring", "tls"} => reports = <<>>
  /\ InLoop =>
       bound = IF Relocated THEN [t \in Threads \ Unresolved |-> run.threads[t]] ELSE <<>>

(* What the stages before the loop have left in the problem list.          *)
Told ==
  /\ InLoop \/ pc \in {"identity", "locate", "ring", "tls"} =>
       run.detected \subseteq Kinds(Nowhere)
  /\ InLoop \/ pc \in {"locate", "ring", "tls"} =>
       (~ run.buildId => "MissingBuildId" \in Kinds(Nowhere))
  /\ InLoop \/ pc = "tls" =>
       (run.ringCut => "HeapWalkTruncated" \in Kinds(Len(run.arenas) + 1))
  /\ InLoop =>
       (Threads # DOMAIN bound =>
          Kinds(Nowhere) \cap {"ThreadTlsResolutionFailed", "MissingRelocation"} # {})

BadBins(k) == Mentions(Problem("FastbinChunkReadFailed", k))

(* The arena under way: its heaps and bins up to cursor are accounted for, *)
(* and of later arenas no fastbin has been reported.                       *)
HeapsTold(n) ==
  /\ Outcome.cut => "HeapWalkTruncated" \in Kinds(arena)
  /\ \A h \in 1 .. n : ~ Outcome.heaps[h] => "ChunkReadFailed" \in Kinds(arena)

BinsTold ==
  /\ cursor <= Len(Outcome.bins)
  /\ fastbins = {b - 1 : b \in {c \in 1 .. cursor : Outcome.bins[c] # "head"}}
  /\ Cardinality(BadBins(arena))
       = Cardinality({b \in 1 .. cursor : Outcome.bins[b] # "ok"})

Underway ==
  /\ pc = "regions" => cursor <= Len(Outcome.heaps) /\ HeapsTold(cursor)
  /\ pc = "bins" => HeapsTold(Len(Outcome.heaps)) /\ BinsTold
  /\ pc # "exited" =>
       \A k \in arena .. Len(run.arenas) :
         pc # "bins" \/ k # arena => BadBins(k) = {}

Reported == \A k \in DOMAIN reports : ArenaIsReported(k)

IInv ==
  /\ TypeOK
  /\ Phases
  /\ TwoTiers
  /\ Entries
  /\ Told
  /\ Underway
  /\ Reported

-----------------------------------------------------------------------------
(* The stages, and the input.                                              *)

LEMMA StagesAre ==
  /\ Len(Stages) = 14
  /\ Stages[1] = "core" /\ Stages[2] = "arch" /\ Stages[3] = "threads"
  /\ Stages[4] = "reference" /\ Stages[5] = "debug" /\ Stages[6] = "detect"
  /\ Stages[7] = "identity" /\ Stages[8] = "locate" /\ Stages[9] = "ring"
  /\ Stages[10] = "tls" /\ Stages[11] = "arena" /\ Stages[12] = "regions"
  /\ Stages[13] = "bins" /\ Stages[14] = "render"
  BY DEF Stages

LEMMA StagesDiffer ==
  ASSUME NEW m \in 1 .. 14, NEW n \in 1 .. 14, Stages[m] = Stages[n]
  PROVE  m = n
  <1>1. m \in {1, 2, 3, 4, 5, 6, 7, 8, 9, 10, 11, 12, 13, 14}
    OBVIOUS
  <1>2. n \in {1, 2, 3, 4, 5, 6, 7, 8, 9, 10, 11, 12, 13, 14}
    OBVIOUS
  <1> QED
    BY <1>1, <1>2, StagesAre

LEMMA StageRange ==
  Range(Stages) = {"core", "arch", "threads", "reference", "debug", "detect",
                   "identity", "locate", "ring", "tls", "arena", "regions",
                   "bins", "render"}
  <1>1. DOMAIN Stages = {1, 2, 3, 4, 5, 6, 7, 8, 9, 10, 11, 12, 13, 14}
    BY DEF Stages
  <1> QED
    BY <1>1, StagesAre DEF Range

LEMMA RunTyped ==
  ASSUME IsRun(run)
  PROVE  /\ run.broken \subseteq Range(Stages)
         /\ run.detected \subseteq Recoverable
         /\ run.buildId \in BOOLEAN /\ run.ringCut \in BOOLEAN
         /\ run.arenas \in Seq(ArenaOutcomes) /\ Len(run.arenas) \in Nat \ {0}
         /\ DOMAIN run.arenas = 1 .. Len(run.arenas)
         /\ run.threads \in Seq(0 .. Len(run.arenas) + 1)
         /\ DOMAIN run.threads = 1 .. Len(run.threads)
         /\ Len(run.threads) \in Nat
         /\ run.write \in {"ok", "document", "newline"}
  BY DEF IsRun

LEMMA OutcomeTyped ==
  ASSUME IsRun(run), arena \in 1 .. Len(run.arenas)
  PROVE  /\ Outcome.start \in BOOLEAN /\ Outcome.cut \in BOOLEAN
         /\ Outcome.unbalanced \in BOOLEAN
         /\ Outcome.heaps \in Seq(BOOLEAN)
         /\ Outcome.bins \in Seq({"ok", "head", "chain"})
  <1>1. Outcome \in ArenaOutcomes
    BY RunTyped DEF Outcome
  <1> QED
    BY <1>1 DEF ArenaOutcomes

LEMMA SeqMono ==
  ASSUME NEW S, NEW T, S \subseteq T, NEW s \in Seq(S)
  PROVE  s \in Seq(T)
  OBVIOUS

(* Every element of a finite set is in its sequence, and nothing else.     *)
LEMMA SetToSeqProperties ==
  ASSUME NEW S, IsFiniteSet(S)
  PROVE  SetToSeq(S) \in Seq(S) /\ Range(SetToSeq(S)) = S
  <1> DEFINE n == Cardinality(S)
             Good(f) == f \in [1 .. n -> S] /\ IsInjective(f)
  <1>1. n \in Nat /\ ExistsBijection(1 .. n, S)
    BY FS_CardinalityType
  <1>2. PICK g : g \in Bijection(1 .. n, S)
    BY <1>1 DEF ExistsBijection
  <1>3. Good(g)
    BY <1>2 DEF Bijection, Injection, IsInjective
  <1>4. Good(SetToSeq(S))
    BY <1>3 DEF SetToSeq
  <1> DEFINE h == SetToSeq(S)
  <1>5. h \in Injection(1 .. n, S)
    BY <1>4 DEF Injection, IsInjective
  <1>6. Cardinality(1 .. n) = n /\ IsFiniteSet(1 .. n)
    BY <1>1, FS_Interval
  <1>7. h \in Surjection(1 .. n, S)
    BY <1>5, <1>6, FS_Injection
  <1> QED
    BY <1>1, <1>4, <1>7 DEF Surjection, Range
-----------------------------------------------------------------------------
(* The problem list only grows.                                            *)

ProblemRecords == [kind : ProblemKinds, of : 0 .. Len(run.arenas) + 1]

LEMMA ReportGrows ==
  ASSUME TypeOK, run' = run,
         NEW ps \in Seq(ProblemRecords), Report(ps)
  PROVE  /\ problems' \in Seq(ProblemRecords)
         /\ \A k : Kinds(k) \subseteq Kinds(k)'
         /\ \A j \in DOMAIN ps : \A n : n = ps[j].of => ps[j].kind \in Kinds(n)'
         /\ \A p : (\A j \in DOMAIN ps : ps[j] # p) => Mentions(p)' = Mentions(p)
  <1>1. problems \in Seq(ProblemRecords) /\ problems' = problems \o ps
    BY DEF TypeOK, ProblemRecords, Report
  <1>2. /\ problems' \in Seq(ProblemRecords)
        /\ \A j \in DOMAIN problems : j \in DOMAIN problems' /\ problems'[j] = problems[j]
        /\ \A j \in DOMAIN ps :
             /\ j + Len(problems) \in DOMAIN problems'
             /\ problems'[j + Len(problems)] = ps[j]
        /\ \A j \in DOMAIN problems' :
             j \in DOMAIN problems \/ \E h \in DOMAIN ps : problems'[j] = ps[h]
    <2>1. /\ Len(problems') = Len(problems) + Len(ps)
          /\ \A j \in 1 .. Len(problems') :
               problems'[j] = IF j <= Len(problems) THEN problems[j]
                              ELSE ps[j - Len(problems)]
      BY <1>1
    <2>2. /\ DOMAIN problems = 1 .. Len(problems) /\ Len(problems) \in Nat
          /\ DOMAIN ps = 1 .. Len(ps) /\ Len(ps) \in Nat
          /\ problems' \in Seq(ProblemRecords) /\ DOMAIN problems' = 1 .. Len(problems')
      BY <1>1
    <2>3. ASSUME NEW j \in DOMAIN problems', j \notin DOMAIN problems
          PROVE  \E h \in DOMAIN ps : problems'[j] = ps[h]
      <3>1. j - Len(problems) \in DOMAIN ps /\ problems'[j] = ps[j - Len(problems)]
        BY <2>1, <2>2, <2>3
      <3> QED
        BY <3>1
    <2> QED
      BY <2>1, <2>2, <2>3
  <1>3. \A k : Kinds(k) \subseteq Kinds(k)'
    BY <1>2 DEF Kinds, Range
  <1>4. \A j \in DOMAIN ps : \A n : n = ps[j].of => ps[j].kind \in Kinds(n)'
    BY <1>2 DEF Kinds, Range
  <1>5. ASSUME NEW p, \A j \in DOMAIN ps : ps[j] # p
        PROVE  Mentions(p)' = Mentions(p)
    BY <1>2, <1>5 DEF Mentions
  <1> QED
    BY <1>2, <1>3, <1>4, <1>5

(* A step that reports nothing, and one that reports one problem or none.  *)
LEMMA ReportNothing ==
  ASSUME TypeOK, Report(<<>>)
  PROVE  problems' = problems
  BY DEF TypeOK, Report

LEMMA SameProblems ==
  ASSUME problems' = problems
  PROVE  /\ \A k : Kinds(k)' = Kinds(k)
         /\ \A p : Mentions(p)' = Mentions(p)
  BY DEF Kinds, Mentions

LEMMA ReportOne ==
  ASSUME TypeOK, run' = run, NEW kind \in ProblemKinds, NEW k \in 0 .. Len(run.arenas) + 1,
         Report(<<Problem(kind, k)>>)
  PROVE  /\ problems' \in Seq(ProblemRecords)
         /\ \A n : Kinds(n) \subseteq Kinds(n)'
         /\ kind \in Kinds(k)'
         /\ \A p : p # Problem(kind, k) => Mentions(p)' = Mentions(p)
         /\ Mentions(Problem(kind, k))'
              = Mentions(Problem(kind, k)) \cup {Len(problems) + 1}
  <1> DEFINE ps == <<Problem(kind, k)>>
  <1>1. /\ ps \in Seq(ProblemRecords) /\ DOMAIN ps = {1} /\ ps[1] = Problem(kind, k)
        /\ Problem(kind, k).kind = kind /\ Problem(kind, k).of = k
        /\ Problem(kind, k) \in ProblemRecords
    BY DEF ProblemRecords, Problem
  <1>2. problems \in Seq(ProblemRecords) /\ problems' = Append(problems, Problem(kind, k))
    BY <1>1 DEF TypeOK, ProblemRecords, Report
  <1>3. Mentions(Problem(kind, k))'
              = Mentions(Problem(kind, k)) \cup {Len(problems) + 1}
    BY <1>1, <1>2 DEF Mentions
  <1> HIDE DEF ps
  <1>4. /\ problems' \in Seq(ProblemRecords)
        /\ \A n : Kinds(n) \subseteq Kinds(n)'
        /\ \A j \in DOMAIN ps : \A n : n = ps[j].of => ps[j].kind \in Kinds(n)'
        /\ \A p : (\A j \in DOMAIN ps : ps[j] # p) => Mentions(p)' = Mentions(p)
    BY <1>1, ReportGrows DEF ps
  <1> QED
    BY <1>1, <1>3, <1>4

(* The problem list of detection and of the unresolved threads.            *)
LEMMA DetectedRecords ==
  ASSUME TypeOK
  PROVE  LET ps == SetToSeq({Problem(d, Nowhere) : d \in run.detected})
         IN  /\ ps \in Seq(ProblemRecords)
             /\ Range(ps) = {Problem(d, Nowhere) : d \in run.detected}
  <1> DEFINE S == {Problem(d, Nowhere) : d \in run.detected}
  <1>1. IsFiniteSet(Recoverable)
    <2>1. IsFiniteSet({"MissingRelocation"})
      BY FS_Singleton
    <2>2. IsFiniteSet({"MissingRelocation"} \cup {"UnknownGlibcVersion"})
      BY <2>1, FS_AddElement
    <2>3. IsFiniteSet(({"MissingRelocation"} \cup {"UnknownGlibcVersion"})
                        \cup {"DuplicateSymbol"})
      BY <2>2, FS_AddElement
    <2>4. IsFiniteSet((({"MissingRelocation"} \cup {"UnknownGlibcVersion"})
                         \cup {"DuplicateSymbol"}) \cup {"DwarfLayoutFallback"})
      BY <2>3, FS_AddElement
    <2>5. Recoverable = (({"MissingRelocation"} \cup {"UnknownGlibcVersion"})
                         \cup {"DuplicateSymbol"}) \cup {"DwarfLayoutFallback"}
      BY DEF Recoverable
    <2> QED
      BY <2>4, <2>5
  <1>2. run.detected \subseteq Recoverable /\ Len(run.arenas) \in Nat
    BY RunTyped DEF TypeOK
  <1>3. IsFiniteSet(run.detected)
    BY <1>1, <1>2, FS_Subset
  <1>4. IsFiniteSet(S)
    <2> DEFINE f == [d \in run.detected |-> Problem(d, Nowhere)]
    <2>1. f \in Surjection(run.detected, S)
      BY DEF Surjection
    <2> QED
      BY <1>3, <2>1, FS_Surjection
  <1>5. S \subseteq ProblemRecords
    BY <1>2 DEF ProblemRecords, Problem, Nowhere, ProblemKinds
  <1> HIDE DEF S
  <1>6. SetToSeq(S) \in Seq(S) /\ Range(SetToSeq(S)) = S
    BY <1>4, SetToSeqProperties
  <1>7. SetToSeq(S) \in Seq(ProblemRecords)
    BY <1>5, <1>6, SeqMono
  <1> QED
    BY <1>6, <1>7 DEF S
(* A step leaves the input alone, and what it does to the problem list.    *)
LEMMA StepReports ==
  ASSUME TypeOK, Phases, Next
  PROVE  /\ run' = run
         /\ problems' \in Seq(ProblemRecords)
         /\ \A k : Kinds(k) \subseteq Kinds(k)'
         /\ \A k \in 1 .. Len(run.arenas) :
              ~ (WalkFastbin /\ k = arena) => BadBins(k)' = BadBins(k)
  <1> DEFINE Goal == /\ run' = run
                     /\ problems' \in Seq(ProblemRecords)
                     /\ \A k : Kinds(k) \subseteq Kinds(k)'
                     /\ \A k \in 1 .. Len(run.arenas) :
                          ~ (WalkFastbin /\ k = arena) => BadBins(k)' = BadBins(k)
  <1>1. ASSUME run' = run, problems' = problems
        PROVE  Goal
    BY <1>1, SameProblems DEF TypeOK, ProblemRecords, BadBins
  <1>2. ASSUME run' = run, NEW kind \in ProblemKinds, NEW n \in 0 .. Len(run.arenas) + 1,
               Report(<<Problem(kind, n)>>),
               kind # "FastbinChunkReadFailed"
        PROVE  Goal
    <2>1. \A k : Problem("FastbinChunkReadFailed", k) # Problem(kind, n)
      BY <1>2 DEF Problem
    <2> QED
      BY <1>2, <2>1, ReportOne DEF BadBins
  <1>3. /\ Nowhere \in 0 .. Len(run.arenas) + 1
        /\ Len(run.arenas) + 1 \in 0 .. Len(run.arenas) + 1
        /\ arena \in 0 .. Len(run.arenas) + 1
    BY RunTyped DEF TypeOK, Nowhere
  <1>4. ASSUME NEW kind \in {"MissingBuildId", "ThreadTlsResolutionFailed",
                             "HeapWalkTruncated", "ChunkReadFailed",
                             "FastbinChunkReadFailed", "StatsInconsistent"}
        PROVE  kind \in ProblemKinds
    BY <1>4 DEF ProblemKinds
  <1> SUFFICES Goal
    OBVIOUS
  <1> HIDE DEF Goal
  <1>5. ASSUME run' = run, Report(<<>>) PROVE Goal
    BY <1>1, <1>5, ReportNothing
  <1>6. CASE HardError \/ Prepare \/ LocateLibc \/ MainStartFails \/ StartFastbins
               \/ ReportBuilt \/ Render \/ RenderFails \/ NewlineFails
    BY <1>1, <1>6 DEF HardError, Prepare, LocateLibc, MainStartFails, StartFastbins,
                      ReportBuilt, Render, RenderFails, NewlineFails, walk
  <1>7. CASE Detect
    <2> DEFINE ps == SetToSeq({Problem(d, Nowhere) : d \in run.detected})
    <2>1. ps \in Seq(ProblemRecords) /\ Range(ps) = {Problem(d, Nowhere) : d \in run.detected}
      BY DetectedRecords
    <2>2. run' = run /\ Report(ps)
      BY <1>7 DEF Detect
    <2> HIDE DEF ps
    <2>3. \A j \in DOMAIN ps : ps[j].of = Nowhere
      BY <2>1 DEF Range, Problem
    <2>4. \A k \in 1 .. Len(run.arenas) : Problem("FastbinChunkReadFailed", k).of # Nowhere
      BY DEF Problem, Nowhere
    <2>5. /\ problems' \in Seq(ProblemRecords)
          /\ \A k : Kinds(k) \subseteq Kinds(k)'
          /\ \A p : (\A j \in DOMAIN ps : ps[j] # p) => Mentions(p)' = Mentions(p)
      BY <2>1, <2>2, ReportGrows
    <2> QED
      BY <2>2, <2>3, <2>4, <2>5 DEF Goal, BadBins
  <1>8. CASE Identify
    BY <1>2, <1>3, <1>4, <1>5, <1>8 DEF Identify, Report
  <1>9. CASE ListArenas
    BY <1>2, <1>3, <1>4, <1>5, <1>9 DEF ListArenas, Report
  <1>10. CASE ResolveTls
    <2>1. CASE ~ Relocated
      BY <1>5, <1>10, <2>1 DEF ResolveTls, Report
    <2>2. CASE Relocated
      <3> DEFINE P == Problem("ThreadTlsResolutionFailed", Nowhere)
                 ps == [k \in 1 .. Cardinality(Unresolved) |-> P]
      <3>1. P \in ProblemRecords /\ \A k : Problem("FastbinChunkReadFailed", k) # P
        BY <1>3, <1>4 DEF Problem, ProblemRecords
      <3>2. Cardinality(Unresolved) \in Nat
        <4>1. Threads = 1 .. Len(run.threads) /\ Len(run.threads) \in Nat
          BY RunTyped DEF Threads, TypeOK
        <4>2. Unresolved \subseteq Threads
          BY DEF Unresolved
        <4>3. IsFiniteSet(Threads)
          BY <4>1, FS_Interval
        <4>4. IsFiniteSet(Unresolved)
          BY <4>2, <4>3, FS_Subset
        <4> QED
          BY <4>4, FS_CardinalityType
      <3> HIDE DEF P
      <3>3. ps \in Seq(ProblemRecords)
        BY <3>1, <3>2
      <3>4. \A j \in DOMAIN ps : ps[j] = P
        OBVIOUS
      <3>5. run' = run /\ Report(ps)
        BY <1>10, <2>2 DEF ResolveTls, P, Report
      <3> HIDE DEF ps
      <3>6. /\ problems' \in Seq(ProblemRecords)
            /\ \A k : Kinds(k) \subseteq Kinds(k)'
            /\ \A p : (\A j \in DOMAIN ps : ps[j] # p) => Mentions(p)' = Mentions(p)
        BY <3>3, <3>5, ReportGrows
      <3> QED
        BY <3>1, <3>4, <3>5, <3>6 DEF Goal, BadBins
    <2> QED
      BY <2>1, <2>2
  <1>11. CASE StubArena \/ ListHeaps \/ WalkRegion \/ Accumulate
    <2>1. CASE StubArena
      BY <1>2, <1>3, <1>4, <2>1 DEF StubArena
    <2>2. CASE ListHeaps
      BY <1>2, <1>3, <1>4, <1>5, <2>2 DEF ListHeaps, Report
    <2>3. CASE WalkRegion
      BY <1>2, <1>3, <1>4, <1>5, <2>3 DEF WalkRegion, Report
    <2>4. CASE Accumulate
      BY <1>2, <1>3, <1>4, <1>5, <2>4 DEF Accumulate, Report
    <2> QED
      BY <1>11, <2>1, <2>2, <2>3, <2>4
  <1>12. CASE WalkFastbin
    <2>1. CASE Bin = "ok"
      BY <1>5, <1>12, <2>1 DEF WalkFastbin, Report
    <2>2. CASE Bin # "ok"
      <3>1. run' = run /\ Report(<<Problem("FastbinChunkReadFailed", arena)>>)
        BY <1>12, <2>2 DEF WalkFastbin, Report
      <3>2. \A k : k # arena => Problem("FastbinChunkReadFailed", k)
                                 # Problem("FastbinChunkReadFailed", arena)
        BY DEF Problem
      <3> QED
        BY <1>3, <1>4, <1>12, <3>1, <3>2, ReportOne DEF Goal, BadBins
    <2> QED
      BY <2>1, <2>2
  <1> QED
    BY <1>6, <1>7, <1>8, <1>9, <1>10, <1>11, <1>12 DEF Next, Goal

-----------------------------------------------------------------------------
(* Each step keeps the invariant, part by part.                            *)

LEMMA InitIInv == Init => IInv
  <1> SUFFICES ASSUME Init PROVE IInv
    OBVIOUS
  <1>1. IsRun(run)
    BY AnalyzeAssumption DEF Init
  <1>2. TypeOK
    BY <1>1, RunTyped, StageRange DEF Init, TypeOK
  <1>3. Phases
    <2>1. Passed
      BY StagesAre, StagesDiffer DEF Init, Passed
    <2> QED
      BY <2>1 DEF Init, Phases, Delivered
  <1>4. Entries /\ Told /\ TwoTiers
    BY DEF Init, Entries, Told, TwoTiers, InLoop
  <1>5. Underway
    BY DEF Init, Underway, BadBins, Mentions
  <1> QED
    BY <1>2, <1>3, <1>4, <1>5 DEF Init, IInv, Reported

LEMMA StepTypeOK ==
  ASSUME TypeOK, Phases, [Next]_vars
  PROVE  TypeOK'
  <1>1. CASE UNCHANGED vars
    BY <1>1 DEF vars, TypeOK, Threads
  <1>2. CASE Next
    <2>1. run' = run /\ problems' \in Seq(ProblemRecords)
      BY <1>2, StepReports
    <2> DEFINE Rest ==
          /\ pc' \in Range(Stages) \cup {"exited"}
          /\ DOMAIN bound' \subseteq Threads
          /\ arena' \in 1 .. Len(run.arenas) + 1
          /\ cursor' \in Nat
          /\ fastbins' \subseteq Nat
          /\ reports' \in Seq([of : DOMAIN run.arenas, stub : BOOLEAN,
                               attached : SUBSET Threads, heaps : Nat,
                               fastbins : SUBSET Nat])
          /\ stdout' \in {"empty", "partial", "complete"}
          /\ code' \in {0, 1, 101, Running}
    <2>2. /\ IsRun(run) /\ Len(run.arenas) \in Nat
          /\ DOMAIN run.arenas = 1 .. Len(run.arenas)
          /\ arena \in Nat /\ arena > 0
      BY RunTyped DEF TypeOK
    <2>3. CASE HardError \/ MainStartFails \/ Render \/ RenderFails \/ NewlineFails
      <3>1. Rest
        BY <2>3 DEF HardError, MainStartFails, Render, RenderFails, NewlineFails,
                    TypeOK, Exit, walk
      <3> QED
        BY <2>1, <2>2, <3>1 DEF TypeOK, ProblemRecords, Threads
    <2>4. CASE Prepare \/ Detect \/ Identify \/ LocateLibc \/ ListArenas
      <3>1. pc' \in Range(Stages)
        BY <2>4, StageRange, StagesAre
           DEF Prepare, Detect, Identify, LocateLibc, ListArenas, At
      <3>2. Rest
        BY <2>4, <3>1
           DEF Prepare, Detect, Identify, LocateLibc, ListArenas, TypeOK, walk
      <3> QED
        BY <2>1, <2>2, <3>2 DEF TypeOK, ProblemRecords, Threads
    <2>5. CASE ResolveTls
      <3>1. Rest
        BY <2>5, StageRange DEF ResolveTls, TypeOK, Threads
      <3> QED
        BY <2>1, <2>2, <3>1 DEF TypeOK, ProblemRecords, Threads
    <2>6. CASE StubArena
      <3>1. Stub \in [of : DOMAIN run.arenas, stub : BOOLEAN,
                      attached : SUBSET Threads, heaps : Nat, fastbins : SUBSET Nat]
        BY <2>2, <2>6 DEF StubArena, AtArena, Stub, Attached, TypeOK
      <3>2. Rest
        BY <2>2, <2>6, <3>1 DEF StubArena, AtArena, TypeOK
      <3> QED
        BY <2>1, <2>2, <2>6, <3>2 DEF TypeOK, ProblemRecords, Threads
    <2>7. CASE ListHeaps \/ WalkRegion \/ StartFastbins \/ ReportBuilt
      <3>1. Rest
        BY <2>7, StageRange DEF ListHeaps, WalkRegion, StartFastbins, ReportBuilt, TypeOK, walk
      <3> QED
        BY <2>1, <2>2, <3>1 DEF TypeOK, ProblemRecords, Threads
    <2>8. CASE WalkFastbin
      <3>1. Rest
        BY <2>8 DEF WalkFastbin, TypeOK
      <3> QED
        BY <2>1, <2>2, <3>1 DEF TypeOK, ProblemRecords, Threads
    <2>9. CASE Accumulate
      <3>1. arena \in 1 .. Len(run.arenas)
        BY <2>2, <2>9 DEF Accumulate, At, Phases
      <3>2. Len(Outcome.heaps) \in Nat
        BY <2>2, <3>1, OutcomeTyped
      <3>3. Built \in [of : DOMAIN run.arenas, stub : BOOLEAN,
                      attached : SUBSET Threads, heaps : Nat, fastbins : SUBSET Nat]
        BY <2>2, <3>1, <3>2 DEF Built, Attached, TypeOK
      <3>4. reports' \in Seq([of : DOMAIN run.arenas, stub : BOOLEAN,
                      attached : SUBSET Threads, heaps : Nat, fastbins : SUBSET Nat])
        BY <2>9, <3>3 DEF Accumulate, TypeOK
      <3>5. arena' \in 1 .. Len(run.arenas) + 1
        BY <2>2, <2>9, <3>1 DEF Accumulate
      <3>6. Rest
        BY <2>9, <3>4, <3>5, StageRange DEF Accumulate, TypeOK
      <3> QED
        BY <2>1, <2>2, <3>6 DEF TypeOK, ProblemRecords, Threads
    <2> QED
      BY <1>2, <2>3, <2>4, <2>5, <2>6, <2>7, <2>8, <2>9 DEF Next
  <1> QED
    BY <1>1, <1>2

LEMMA StepPassed ==
  ASSUME TypeOK, Phases, [Next]_vars
  PROVE  Passed'
  <1>1. CASE UNCHANGED vars
    BY <1>1 DEF vars, Phases, Passed
  <1>2. ASSUME NEW k \in 1 .. 13, At(Stages[k]), pc' = Stages[k + 1], run' = run
        PROVE  Passed'
    <2> SUFFICES ASSUME NEW m \in 1 .. 14, NEW n \in 1 .. 14, m < n, pc' = Stages[n]
                 PROVE  Stages[m] \notin run.broken
      BY <1>2, StagesAre DEF Passed
    <2>1. n = k + 1
      <3>1. k + 1 \in 1 .. 14 /\ Stages[k + 1] = Stages[n]
        BY <1>2
      <3> QED
        BY <3>1, StagesDiffer
    <2>2. CASE m = k
      BY <1>2, <2>2 DEF At
    <2>3. CASE m < k
      BY <1>2, <2>3, StagesAre DEF At, Phases, Passed
    <2> QED
      BY <2>1, <2>2, <2>3
  <1>3. ASSUME run' = run, pc' = pc PROVE Passed'
    BY <1>3 DEF Phases, Passed
  <1>4. ASSUME run' = run, pc' = "exited" PROVE Passed'
    BY <1>4, StageRange, StagesAre DEF Passed, Range
  <1>5. ASSUME run' = run, pc = "bins", pc' = "arena" PROVE Passed'
    BY <1>5, StagesAre, StagesDiffer DEF Phases, Passed
  <1>6. ASSUME run' = run, At("arena"), pc' = "render",
               arena > Len(run.arenas)
        PROVE  Passed'
    <2>1. arena > 1
      BY <1>6, RunTyped DEF TypeOK
    <2>2. {"regions", "bins", "arena"} \cap run.broken = {}
      BY <1>6, <2>1 DEF Phases, At
    <2>3. \A m \in 1 .. 10 : Stages[m] \notin run.broken
      BY <1>6, StagesAre DEF Phases, Passed, At
    <2>4. \A m \in 1 .. 13 : Stages[m] \notin run.broken
      BY <2>2, <2>3, StagesAre
    <2> QED
      BY <1>6, <2>4, StagesAre, StagesDiffer DEF Passed
  <1>7. CASE Next
    <2>1. CASE HardError \/ MainStartFails \/ Render \/ RenderFails \/ NewlineFails
      BY <1>4, <2>1 DEF HardError, MainStartFails, Render, RenderFails, NewlineFails, Exit
    <2>2. CASE Prepare
      BY <1>2, <2>2 DEF Prepare
    <2>3. CASE Detect \/ Identify \/ LocateLibc \/ ListArenas \/ ResolveTls
      BY <1>2, <2>3, StagesAre DEF Detect, Identify, LocateLibc, ListArenas, ResolveTls
    <2>4. CASE ListHeaps \/ StartFastbins
      BY <1>2, <2>4, StagesAre DEF ListHeaps, StartFastbins, AtArena
    <2>5. CASE StubArena \/ WalkRegion \/ WalkFastbin
      BY <1>3, <2>5 DEF StubArena, WalkRegion, WalkFastbin
    <2>6. CASE Accumulate
      BY <1>5, <2>6 DEF Accumulate, At
    <2>7. CASE ReportBuilt
      BY <1>6, <2>7 DEF ReportBuilt
    <2> QED
      BY <1>7, <2>1, <2>2, <2>3, <2>4, <2>5, <2>6, <2>7 DEF Next
  <1> QED
    BY <1>1, <1>7

LEMMA StepPhases ==
  ASSUME TypeOK, Phases, [Next]_vars
  PROVE  Phases'
  <1>1. Passed'
    BY StepPassed
  <1>2. CASE UNCHANGED vars
    BY <1>1, <1>2 DEF vars, Phases, Delivered, Outcome
  <1>3. CASE Next
    <2>1. /\ IsRun(run) /\ Len(run.arenas) \in Nat /\ Len(run.arenas) > 0
          /\ arena \in Nat /\ arena > 0
      BY RunTyped DEF TypeOK
    <2>2. CASE HardError \/ MainStartFails \/ RenderFails
      BY <1>1, <2>2 DEF HardError, MainStartFails, RenderFails, Exit, Phases,
                        Delivered, Outcome, walk, At, AtArena
    <2>3. CASE Prepare
      <3>1. /\ pc \in {"core", "arch", "threads", "reference", "debug"}
            /\ pc' \in {"arch", "threads", "reference", "debug", "detect"}
        BY <2>3, StagesAre DEF Prepare, At
      <3> QED
        BY <1>1, <2>3, <3>1 DEF Prepare, Phases, Delivered, Outcome, walk
    <2>4. CASE Detect \/ Identify \/ LocateLibc \/ ListArenas \/ ResolveTls
      BY <1>1, <2>4 DEF Detect, Identify, LocateLibc, ListArenas, ResolveTls,
                        Phases, Delivered, Outcome, walk, At
    <2>5. CASE StubArena
      BY <1>1, <2>1, <2>5 DEF StubArena, AtArena, At, Phases, Delivered, Outcome
    <2>6. CASE ListHeaps \/ StartFastbins \/ WalkRegion \/ WalkFastbin
      BY <1>1, <2>6 DEF ListHeaps, StartFastbins, WalkRegion, WalkFastbin, AtArena,
                        At, Phases, Delivered, Outcome
    <2>7. CASE Accumulate
      <3>1. "regions" \notin run.broken
        BY <2>7, StagesAre DEF Accumulate, At, Phases, Passed
      <3>2. run.arenas[1].start
        BY <2>1, <2>7 DEF Accumulate, At, Phases, Outcome
      <3> QED
        BY <1>1, <2>1, <2>7, <3>1, <3>2 DEF Accumulate, At, Phases, Delivered, Outcome
    <2>8. CASE ReportBuilt
      BY <1>1, <2>8 DEF ReportBuilt, At, Phases, Delivered, Outcome, walk
    <2>9. CASE Render \/ NewlineFails
      BY <1>1, <2>9 DEF Render, NewlineFails, At, Exit, Phases, Delivered, Outcome, walk
    <2> QED
      BY <1>3, <2>2, <2>3, <2>4, <2>5, <2>6, <2>7, <2>8, <2>9 DEF Next
  <1> QED
    BY <1>2, <1>3

(* At the rendering no hard error is left that the run could have met.     *)
LEMMA NothingBroken ==
  ASSUME TypeOK, Phases, At("render")
  PROVE  run.broken = {} /\ run.arenas[1].start
  <1>1. run.arenas[1].start
    BY RunTyped DEF TypeOK, Phases, At
  <1>2. \A m \in 1 .. 14 : Stages[m] \notin run.broken
    BY StagesAre DEF Phases, Passed, At
  <1>3. run.broken \subseteq Range(Stages)
    BY RunTyped DEF TypeOK
  <1>4. Range(Stages) = {Stages[m] : m \in 1 .. 14}
    BY DEF Stages, Range
  <1> QED
    BY <1>1, <1>2, <1>3, <1>4

LEMMA StepTiers ==
  ASSUME TypeOK, Phases, TwoTiers, [Next]_vars
  PROVE  TwoTiers'
  <1> SUFFICES ASSUME pc' = "exited" PROVE TwoTiers'
    BY DEF TwoTiers
  <1>1. CASE UNCHANGED vars
    BY <1>1 DEF vars, TwoTiers, Delivered
  <1>2. CASE HardError
    BY <1>2, StageRange DEF HardError, Exit, TwoTiers, Phases, IsRun, TypeOK
  <1>3. CASE MainStartFails
    BY <1>3 DEF MainStartFails, AtArena, At, Exit, Outcome, TwoTiers, Phases
  <1>4. CASE Render \/ RenderFails \/ NewlineFails
    BY <1>4, NothingBroken
       DEF Render, RenderFails, NewlineFails, Exit, TwoTiers, Delivered
  <1>5. CASE Prepare
    <2>1. pc' \in {"arch", "threads", "reference", "debug", "detect"}
      BY <1>5, StagesAre DEF Prepare, At
    <2> QED
      BY <2>1
  <1>6. CASE Detect \/ Identify \/ LocateLibc \/ ListArenas \/ ResolveTls \/ StubArena
               \/ ListHeaps \/ WalkRegion \/ StartFastbins \/ WalkFastbin
               \/ Accumulate \/ ReportBuilt
    BY <1>6 DEF Detect, Identify, LocateLibc, ListArenas, ResolveTls, StubArena,
                ListHeaps, WalkRegion, StartFastbins, WalkFastbin, Accumulate,
                ReportBuilt, At, AtArena
  <1> QED
    BY <1>1, <1>2, <1>3, <1>4, <1>5, <1>6 DEF Next

LEMMA StepEntries ==
  ASSUME TypeOK, Phases, Entries, [Next]_vars
  PROVE  Entries'
  <1>1. CASE UNCHANGED vars
    BY <1>1 DEF vars, Entries, InLoop, EntryIsRight, Relocated, Unresolved, Threads
  <1>2. CASE Next
    <2>1. /\ IsRun(run) /\ Len(run.arenas) \in Nat /\ Len(run.arenas) > 0
          /\ DOMAIN run.arenas = 1 .. Len(run.arenas)
          /\ arena \in Nat /\ arena > 0 /\ arena <= Len(run.arenas) + 1
          /\ DOMAIN reports = 1 .. Len(reports)
      BY RunTyped DEF TypeOK
    <2>2. ASSUME run' = run, bound' = bound, reports' = reports, arena' = arena,
                 InLoop' => InLoop,
                 pc' \in {"core", "arch", "threads", "reference", "debug", "detect",
                          "identity", "locate", "ring", "tls"} => reports = <<>>
          PROVE  Entries'
      BY <2>2 DEF Entries, EntryIsRight, Relocated, Unresolved, Threads
    <2>3. CASE HardError \/ MainStartFails \/ Render \/ RenderFails \/ NewlineFails
      BY <2>2, <2>3 DEF HardError, MainStartFails, Render, RenderFails, NewlineFails,
                        Exit, InLoop, walk
    <2>4. CASE Prepare
      <3>1. /\ pc \in {"core", "arch", "threads", "reference", "debug"}
            /\ pc' \in {"arch", "threads", "reference", "debug", "detect"}
        BY <2>4, StagesAre DEF Prepare, At
      <3> QED
        BY <2>2, <2>4, <3>1 DEF Prepare, Entries, InLoop, walk
    <2>5. CASE Detect \/ Identify \/ LocateLibc \/ ListArenas
      BY <2>2, <2>5 DEF Detect, Identify, LocateLibc, ListArenas, At, Entries, InLoop, walk
    <2>6. CASE ResolveTls
      <3>1. reports = <<>> /\ reports' = <<>> /\ arena' = arena /\ run' = run
            /\ pc' = "arena"
        BY <2>6 DEF ResolveTls, At, Entries
      <3>2. bound' = IF Relocated THEN [t \in Threads \ Unresolved |-> run.threads[t]]
                     ELSE <<>>
        BY <2>6 DEF ResolveTls
      <3> QED
        BY <3>1, <3>2 DEF Entries, Relocated, Unresolved, Threads
    <2>7. CASE ListHeaps \/ WalkRegion \/ StartFastbins \/ WalkFastbin \/ ReportBuilt
      BY <2>2, <2>7 DEF ListHeaps, WalkRegion, StartFastbins, WalkFastbin, ReportBuilt,
                        AtArena, At, InLoop, walk
    <2>8. ASSUME run' = run, bound' = bound, arena' = arena + 1, arena <= Len(run.arenas),
                 InLoop, pc' = "arena",
                 NEW e, reports' = Append(reports, e),
                 e.of = arena, e.stub <=> ~ run.arenas[arena].start,
                 e.stub => arena > 1, e.attached = Attached
          PROVE  Entries'
      <3>1. /\ Len(reports') = Len(reports) + 1
            /\ DOMAIN reports' = 1 .. Len(reports) + 1
            /\ reports'[Len(reports) + 1] = e
            /\ \A k \in 1 .. Len(reports) : reports'[k] = reports[k]
        BY <2>8 DEF TypeOK
      <3>2. Len(reports) + 1 = arena
        BY <2>1 DEF Entries, TypeOK
      <3>3. ASSUME NEW k \in DOMAIN reports'
            PROVE  EntryIsRight(k)'
        <4>1. CASE k = arena
          BY <2>8, <3>1, <3>2, <4>1 DEF EntryIsRight, Attached
        <4>2. CASE k # arena
          <5>1. k \in DOMAIN reports /\ reports'[k] = reports[k]
            BY <2>1, <3>1, <3>2, <4>2
          <5> QED
            BY <2>8, <5>1 DEF Entries, EntryIsRight
        <4> QED
          BY <4>1, <4>2
      <3> QED
        BY <2>8, <3>1, <3>2, <3>3 DEF Entries, Relocated, Unresolved, Threads
    <2>9. CASE StubArena
      BY <2>8, <2>9 DEF StubArena, AtArena, At, Stub, InLoop, Outcome
    <2>10. CASE Accumulate
      BY <2>8, <2>10 DEF Accumulate, At, Built, InLoop, Phases, Outcome
    <2> QED
      BY <1>2, <2>3, <2>4, <2>5, <2>6, <2>7, <2>9, <2>10 DEF Next
  <1> QED
    BY <1>1, <1>2

LEMMA StepTold ==
  ASSUME TypeOK, Phases, Entries, Told, [Next]_vars
  PROVE  Told'
  <1>1. CASE UNCHANGED vars
    BY <1>1, SameProblems DEF vars, Told, InLoop, Threads
  <1>2. CASE Next
    <2>1. run' = run /\ \A k : Kinds(k) \subseteq Kinds(k)'
      BY <1>2, StepReports
    <2>2. /\ IsRun(run) /\ Len(run.arenas) \in Nat
          /\ Nowhere \in 0 .. Len(run.arenas) + 1
          /\ arena \in Nat /\ arena > 0
      BY RunTyped DEF TypeOK, Nowhere
    <2>3. CASE HardError \/ MainStartFails \/ Render \/ RenderFails \/ NewlineFails
      BY <2>1, <2>3 DEF HardError, MainStartFails, Render, RenderFails, NewlineFails,
                        Exit, Told, InLoop, Threads, walk
    <2>4. CASE Prepare
      <3>1. /\ pc \in {"core", "arch", "threads", "reference", "debug"}
            /\ pc' \in {"arch", "threads", "reference", "debug", "detect"}
        BY <2>4, StagesAre DEF Prepare, At
      <3> QED
        BY <2>1, <2>4, <3>1 DEF Prepare, Told, InLoop, Threads, walk
    <2>5. CASE Detect
      <3> DEFINE ps == SetToSeq({Problem(d, Nowhere) : d \in run.detected})
      <3>1. /\ ps \in Seq(ProblemRecords)
            /\ Range(ps) = {Problem(d, Nowhere) : d \in run.detected}
        BY DetectedRecords
      <3>2. Report(ps)
        BY <2>5 DEF Detect
      <3> HIDE DEF ps
      <3>3. \A j \in DOMAIN ps : \A n : n = ps[j].of => ps[j].kind \in Kinds(n)'
        BY <2>1, <3>1, <3>2, ReportGrows
      <3>4. ASSUME NEW d \in run.detected
            PROVE  d \in Kinds(Nowhere)'
        <4>1. PICK j \in DOMAIN ps : ps[j] = Problem(d, Nowhere)
          BY <3>1 DEF Range
        <4> QED
          BY <3>3, <4>1 DEF Problem, Nowhere
      <3>5. arena' = arena /\ bound' = bound /\ pc = "detect" /\ pc' = "identity"
        BY <2>5 DEF Detect, At, walk
      <3>6. run.detected \subseteq Kinds(Nowhere)'
        BY <3>4
      <3>7. InLoop' => InLoop
        BY <3>5 DEF InLoop
      <3> QED
        BY <2>1, <3>5, <3>6, <3>7 DEF Told, Threads
    <2>6. CASE Identify
      <3>1. ~ run.buildId => "MissingBuildId" \in Kinds(Nowhere)'
        <4>1. ASSUME ~ run.buildId PROVE Report(<<Problem("MissingBuildId", Nowhere)>>)
          BY <2>6, <4>1 DEF Identify, Report
        <4>2. "MissingBuildId" \in ProblemKinds
          BY DEF ProblemKinds
        <4> QED
          BY <2>1, <2>2, <4>1, <4>2, ReportOne
      <3> QED
        BY <2>1, <2>6, <3>1 DEF Identify, At, Told, InLoop, Threads, walk
    <2>7. CASE LocateLibc
      BY <2>1, <2>7 DEF LocateLibc, At, Told, InLoop, Threads, walk
    <2>8. CASE ListArenas
      <3>1. run.ringCut => "HeapWalkTruncated" \in Kinds(Len(run.arenas) + 1)'
        <4>1. ASSUME run.ringCut
              PROVE  Report(<<Problem("HeapWalkTruncated", Len(run.arenas) + 1)>>)
          BY <2>8, <4>1 DEF ListArenas, Report
        <4>2. "HeapWalkTruncated" \in ProblemKinds
          BY DEF ProblemKinds
        <4> QED
          BY <2>1, <2>2, <4>1, <4>2, ReportOne
      <3> QED
        BY <2>1, <2>8, <3>1 DEF ListArenas, At, Told, InLoop, Threads, walk
    <2>9. CASE ResolveTls
      <3>1. pc = "tls" /\ pc' = "arena" /\ arena' = arena
        BY <2>9 DEF ResolveTls, At
      <3>2. /\ run.detected \subseteq Kinds(Nowhere)'
            /\ ~ run.buildId => "MissingBuildId" \in Kinds(Nowhere)'
            /\ run.ringCut => "HeapWalkTruncated" \in Kinds(Len(run.arenas) + 1)'
        BY <2>1, <3>1 DEF Told
      <3>3. Threads # DOMAIN bound' =>
              Kinds(Nowhere)' \cap {"ThreadTlsResolutionFailed", "MissingRelocation"} # {}
        <4>1. CASE ~ Relocated
          BY <3>2, <4>1 DEF Relocated
        <4>2. CASE Relocated /\ Unresolved = {}
          BY <2>9, <4>2 DEF ResolveTls
        <4>3. CASE Relocated /\ Unresolved # {}
          <5> DEFINE P == Problem("ThreadTlsResolutionFailed", Nowhere)
                     n == Cardinality(Unresolved)
                     ps == [k \in 1 .. n |-> P]
          <5>1. P \in ProblemRecords
            BY <2>2 DEF Problem, ProblemRecords, ProblemKinds
          <5>2. n \in Nat /\ n > 0
            <6>1. Threads = 1 .. Len(run.threads) /\ Len(run.threads) \in Nat
              BY <2>2, RunTyped DEF Threads
            <6>2. IsFiniteSet(Threads)
              BY <6>1, FS_Interval
            <6>3. Unresolved \subseteq Threads
              BY DEF Unresolved
            <6>4. IsFiniteSet(Unresolved)
              BY <6>2, <6>3, FS_Subset
            <6>5. n \in Nat /\ n # 0
              BY <4>3, <6>4, FS_CardinalityType, FS_EmptySet
            <6> QED
              BY <6>5
          <5>3. Report(ps)
            BY <2>9, <4>3 DEF ResolveTls, Report
          <5> HIDE DEF P, n
          <5>4. ps \in Seq(ProblemRecords) /\ 1 \in DOMAIN ps /\ ps[1] = P
            BY <5>1, <5>2
          <5> HIDE DEF ps
          <5>5. \A k : k = P.of => P.kind \in Kinds(k)'
            BY <2>1, <5>3, <5>4, ReportGrows
          <5>6. "ThreadTlsResolutionFailed" \in Kinds(Nowhere)'
            BY <5>5 DEF P, Problem, Nowhere
          <5> QED
            BY <5>6
        <4> QED
          BY <4>1, <4>2, <4>3
      <3> QED
        BY <2>1, <3>1, <3>2, <3>3 DEF Told, Threads
    <2>10. CASE StubArena \/ ListHeaps \/ WalkRegion \/ StartFastbins \/ WalkFastbin
                  \/ Accumulate \/ ReportBuilt
      <3>1. InLoop /\ bound' = bound
        BY <2>10 DEF StubArena, ListHeaps, WalkRegion, StartFastbins, WalkFastbin,
                     Accumulate, ReportBuilt, AtArena, At, InLoop, walk
      <3> QED
        BY <2>1, <3>1 DEF Told, Threads
    <2> QED
      BY <1>2, <2>3, <2>4, <2>5, <2>6, <2>7, <2>8, <2>9, <2>10 DEF Next
  <1> QED
    BY <1>1, <1>2

(* The heaps and fastbins of the arena under way.                          *)
LEMMA StepUnderway ==
  ASSUME TypeOK, Phases, Underway, [Next]_vars
  PROVE  Underway'
  <1>1. CASE UNCHANGED vars
    BY <1>1, SameProblems DEF vars, Underway, HeapsTold, BinsTold, BadBins, Outcome
  <1>2. CASE Next
    <2>1. /\ run' = run
          /\ \A k : Kinds(k) \subseteq Kinds(k)'
          /\ \A k \in 1 .. Len(run.arenas) :
              ~ (WalkFastbin /\ k = arena) => BadBins(k)' = BadBins(k)
      BY <1>2, StepReports
    <2>2. /\ IsRun(run) /\ Len(run.arenas) \in Nat
          /\ arena \in Nat /\ arena > 0 /\ arena <= Len(run.arenas) + 1
          /\ cursor \in Nat
      BY RunTyped DEF TypeOK
    <2>3. CASE HardError \/ MainStartFails \/ Render \/ RenderFails \/ NewlineFails
      BY <2>3 DEF HardError, MainStartFails, Render, RenderFails, NewlineFails,
                  Exit, Underway
    <2>4. ASSUME pc \notin {"bins", "exited"}, pc' \notin {"regions", "bins"},
                 arena' \in arena .. arena + 1,
                 ~ WalkFastbin
          PROVE  Underway'
      BY <2>1, <2>2, <2>4 DEF Underway
    <2>5. CASE Prepare
      <3>1. /\ pc \in {"core", "arch", "threads", "reference", "debug"}
            /\ pc' \in {"arch", "threads", "reference", "debug", "detect"}
        BY <2>5, StagesAre DEF Prepare, At
      <3>2. ~ WalkFastbin
        BY <3>1 DEF WalkFastbin, At
      <3> QED
        BY <2>2, <2>4, <2>5, <3>1, <3>2 DEF Prepare, walk
    <2>6. CASE Detect \/ Identify \/ LocateLibc \/ ListArenas \/ ResolveTls
               \/ StubArena \/ ReportBuilt
      <3>1. pc \notin {"bins", "exited"} /\ pc' \notin {"regions", "bins"} /\ ~ WalkFastbin
        BY <2>6 DEF Detect, Identify, LocateLibc, ListArenas, ResolveTls, StubArena,
                    ReportBuilt, WalkFastbin, AtArena, At
      <3> QED
        BY <2>2, <2>4, <2>6, <3>1
           DEF Detect, Identify, LocateLibc, ListArenas, ResolveTls, StubArena,
               ReportBuilt, walk
    <2>7. CASE ListHeaps
      <3>1. /\ pc = "arena" /\ pc' = "regions" /\ arena' = arena /\ cursor' = 0
            /\ ~ WalkFastbin /\ arena \in 1 .. Len(run.arenas)
        BY <2>2, <2>7 DEF ListHeaps, AtArena, At, WalkFastbin
      <3>2. Len(Outcome.heaps) \in Nat /\ Outcome.cut \in BOOLEAN
        BY <2>2, <3>1, OutcomeTyped
      <3>3. Outcome.cut => "HeapWalkTruncated" \in Kinds(arena)'
        <4>1. ASSUME Outcome.cut PROVE Report(<<Problem("HeapWalkTruncated", arena)>>)
          BY <2>7, <4>1 DEF ListHeaps, Report
        <4>2. "HeapWalkTruncated" \in ProblemKinds /\ arena \in 0 .. Len(run.arenas) + 1
          BY <2>2 DEF ProblemKinds
        <4>3. \A n : n = arena => \A ks : Problem(ks, n) = Problem(ks, arena)
          OBVIOUS
        <4> QED
          BY <2>1, <3>1, <4>1, <4>2, ReportOne
      <3>4. HeapsTold(0)'
        BY <2>1, <3>1, <3>3 DEF HeapsTold, Outcome
      <3> QED
        BY <2>1, <2>2, <3>1, <3>2, <3>4 DEF Underway, HeapsTold, Outcome
    <2>8. CASE WalkRegion
      <3>1. /\ pc = "regions" /\ pc' = "regions" /\ arena' = arena /\ cursor' = cursor + 1
            /\ ~ WalkFastbin /\ arena \in 1 .. Len(run.arenas)
            /\ cursor < Len(Outcome.heaps)
        BY <2>2, <2>8 DEF WalkRegion, At, WalkFastbin, Phases
      <3>2. Outcome.heaps \in Seq(BOOLEAN) /\ Len(Outcome.heaps) \in Nat
        BY <2>2, <3>1, OutcomeTyped
      <3>3. ~ Outcome.heaps[cursor + 1] => "ChunkReadFailed" \in Kinds(arena)'
        <4>1. ASSUME ~ Outcome.heaps[cursor + 1]
              PROVE  Report(<<Problem("ChunkReadFailed", arena)>>)
          BY <2>8, <4>1 DEF WalkRegion, Report
        <4>2. "ChunkReadFailed" \in ProblemKinds /\ arena \in 0 .. Len(run.arenas) + 1
          BY <2>2 DEF ProblemKinds
        <4> QED
          BY <2>1, <3>1, <4>1, <4>2, ReportOne
      <3>4. HeapsTold(cursor)
        BY <3>1 DEF Underway
      <3>5. HeapsTold(cursor)'
        BY <2>1, <2>2, <3>1, <3>3, <3>4 DEF HeapsTold, Outcome
      <3> QED
        BY <2>1, <2>2, <3>1, <3>2, <3>5 DEF Underway, HeapsTold, Outcome
    <2>9. CASE StartFastbins
      <3>1. /\ pc = "regions" /\ pc' = "bins" /\ arena' = arena /\ cursor' = 0
            /\ fastbins' = {} /\ cursor = Len(Outcome.heaps)
            /\ ~ WalkFastbin /\ arena \in 1 .. Len(run.arenas)
        BY <2>2, <2>9 DEF StartFastbins, At, WalkFastbin, Phases
      <3>2. HeapsTold(Len(Outcome.heaps))'
        BY <2>1, <3>1 DEF Underway, HeapsTold, Outcome
      <3>3. BinsTold'
        <4>1. BadBins(arena)' = {}
          BY <2>1, <2>2, <3>1 DEF Underway
        <4>2. Len(Outcome.bins) \in Nat
          BY <2>2, <3>1, OutcomeTyped
        <4>3. Outcome' = Outcome
          BY <2>1, <3>1 DEF Outcome
        <4>4. /\ {b \in 1 .. cursor' : Outcome'.bins[b] # "ok"} = {}
              /\ {b - 1 : b \in {c \in 1 .. cursor' : Outcome'.bins[c] # "head"}} = {}
          BY <3>1
        <4>5. Cardinality(BadBins(arena)') = Cardinality({})
          BY <4>1
        <4> QED
          BY <3>1, <4>1, <4>2, <4>3, <4>4, <4>5 DEF BinsTold
      <3> QED
        BY <2>1, <2>2, <3>1, <3>2, <3>3 DEF Underway, HeapsTold, Outcome
    <2>10. CASE WalkFastbin
      <3>1. /\ pc = "bins" /\ pc' = "bins" /\ arena' = arena /\ cursor' = cursor + 1
            /\ fastbins' = IF Bin = "head" THEN fastbins ELSE fastbins \cup {cursor}
            /\ arena \in 1 .. Len(run.arenas)
            /\ cursor < Len(Outcome.bins)
        BY <2>2, <2>10 DEF WalkFastbin, At, Phases
      <3>2. Outcome.bins \in Seq({"ok", "head", "chain"}) /\ Len(Outcome.bins) \in Nat
        BY <2>2, <3>1, OutcomeTyped
      <3>3. HeapsTold(Len(Outcome.heaps))'
        BY <2>1, <3>1 DEF Underway, HeapsTold, Outcome
      <3> DEFINE Bad(n) == {b \in 1 .. n : Outcome.bins[b] # "ok"}
      <3>4. /\ fastbins = {b - 1 : b \in {c \in 1 .. cursor : Outcome.bins[c] # "head"}}
            /\ Cardinality(BadBins(arena)) = Cardinality(Bad(cursor))
        BY <3>1 DEF Underway, BinsTold
      <3>5. fastbins' = {b - 1 : b \in {c \in 1 .. cursor + 1 : Outcome.bins[c] # "head"}}
        <4>1. 1 .. cursor + 1 = (1 .. cursor) \cup {cursor + 1} /\ (cursor + 1) - 1 = cursor
          BY <2>2
        <4> QED
          BY <3>1, <3>4, <4>1 DEF Bin
      <3>6. Cardinality(BadBins(arena)') = Cardinality(Bad(cursor + 1))
        <4>1. 1 .. cursor + 1 = (1 .. cursor) \cup {cursor + 1} /\ cursor + 1 \notin 1 .. cursor
          BY <2>2
        <4>2. CASE Bin = "ok"
          <5>1. Bad(cursor + 1) = Bad(cursor)
            BY <4>1, <4>2 DEF Bin
          <5>2. Report(<<>>)
            BY <2>10, <4>2 DEF WalkFastbin, Report
          <5>3. problems' = problems
            BY <5>2, ReportNothing
          <5> QED
            BY <3>1, <3>4, <5>1, <5>3 DEF BadBins, Mentions
        <4>3. CASE Bin # "ok"
          <5> DEFINE P == Problem("FastbinChunkReadFailed", arena)
          <5>1. Bad(cursor + 1) = Bad(cursor) \cup {cursor + 1} /\ cursor + 1 \notin Bad(cursor)
            BY <4>1, <4>3 DEF Bin
          <5>2. Report(<<P>>)
            BY <2>10, <4>3 DEF WalkFastbin, Report
          <5>3. "FastbinChunkReadFailed" \in ProblemKinds /\ arena \in 0 .. Len(run.arenas) + 1
            BY <2>2 DEF ProblemKinds
          <5>4. BadBins(arena)' = BadBins(arena) \cup {Len(problems) + 1}
            <6>1. /\ problems' = Append(problems, P) /\ DOMAIN problems = 1 .. Len(problems)
                  /\ problems \in Seq(ProblemRecords)
              BY <5>2 DEF Report, TypeOK, ProblemRecords
            <6>2. DOMAIN problems' = DOMAIN problems \cup {Len(problems) + 1}
              BY <6>1
            <6>3. \A j \in DOMAIN problems : problems'[j] = problems[j]
              BY <6>1
            <6>4. problems'[Len(problems) + 1] = P
              BY <6>1
            <6> HIDE DEF P
            <6>5. {j \in DOMAIN problems' : problems'[j] = P}
                    = {j \in DOMAIN problems : problems[j] = P} \cup {Len(problems) + 1}
              BY <6>2, <6>3, <6>4
            <6> QED
              BY <3>1, <6>5 DEF P, BadBins, Mentions, Problem
          <5>5. Len(problems) + 1 \notin BadBins(arena) /\ IsFiniteSet(BadBins(arena))
            <6>1. DOMAIN problems = 1 .. Len(problems) /\ Len(problems) \in Nat
              BY DEF TypeOK
            <6>2. BadBins(arena) \subseteq 1 .. Len(problems)
              BY <6>1 DEF BadBins, Mentions
            <6>3. IsFiniteSet(1 .. Len(problems))
              BY <6>1, FS_Interval
            <6>4. IsFiniteSet(BadBins(arena))
              BY <6>2, <6>3, FS_Subset
            <6> QED
              BY <6>1, <6>2, <6>4
          <5>6. IsFiniteSet(Bad(cursor))
            <6>1. IsFiniteSet(1 .. cursor)
              BY <2>2, FS_Interval
            <6>2. Bad(cursor) \subseteq 1 .. cursor
              OBVIOUS
            <6> QED
              BY <6>1, <6>2, FS_Subset
          <5> HIDE DEF Bad
          <5>7. Cardinality(BadBins(arena)') = Cardinality(BadBins(arena)) + 1
            BY <5>4, <5>5, FS_AddElement
          <5>8. Cardinality(Bad(cursor + 1)) = Cardinality(Bad(cursor)) + 1
            BY <5>1, <5>6, FS_AddElement
          <5> QED
            BY <3>4, <5>7, <5>8
        <4> QED
          BY <4>2, <4>3
      <3>7. BinsTold'
        <4>1. Outcome' = Outcome
          BY <2>1, <3>1 DEF Outcome
        <4>2. /\ {b \in 1 .. cursor' : Outcome'.bins[b] # "ok"} = Bad(cursor + 1)
              /\ {b - 1 : b \in {c \in 1 .. cursor' : Outcome'.bins[c] # "head"}} = fastbins'
          BY <3>1, <3>5, <4>1
        <4>3. cursor' <= Len(Outcome'.bins)
          BY <2>2, <3>1, <3>2, <4>1
        <4> HIDE DEF Bad
        <4> QED
          BY <3>6, <4>2, <4>3 DEF BinsTold
      <3> QED
        BY <2>1, <2>2, <3>1, <3>3, <3>7 DEF Underway, HeapsTold, Outcome
    <2>11. CASE Accumulate
      <3>1. /\ pc = "bins" /\ pc' = "arena" /\ arena' = arena + 1 /\ ~ WalkFastbin
        BY <2>11 DEF Accumulate, At, WalkFastbin
      <3> QED
        BY <2>1, <2>2, <3>1 DEF Underway
    <2> QED
      BY <1>2, <2>3, <2>5, <2>6, <2>7, <2>8, <2>9, <2>10, <2>11 DEF Next
  <1> QED
    BY <1>1, <1>2

LEMMA StepReported ==
  ASSUME TypeOK, Phases, Entries, Underway, Reported, [Next]_vars
  PROVE  Reported'
  <1>1. CASE UNCHANGED vars
    BY <1>1, SameProblems DEF vars, Reported, ArenaIsReported, FastbinsComplete
  <1>2. CASE Next
    <2>1. /\ run' = run
          /\ \A k : Kinds(k) \subseteq Kinds(k)'
          /\ \A k \in 1 .. Len(run.arenas) :
              ~ (WalkFastbin /\ k = arena) => BadBins(k)' = BadBins(k)
      BY <1>2, StepReports
    <2>2. /\ IsRun(run) /\ Len(run.arenas) \in Nat
          /\ arena \in Nat /\ arena > 0 /\ arena <= Len(run.arenas) + 1
          /\ DOMAIN reports = 1 .. Len(reports)
          /\ Len(reports) = arena - 1
      BY RunTyped DEF TypeOK, Entries
    <2>3. ASSUME NEW k \in DOMAIN reports, reports'[k] = reports[k]
          PROVE  ArenaIsReported(k)'
      <3>1. k \in 1 .. Len(run.arenas) /\ k # arena
        BY <2>2
      <3>2. BadBins(k)' = BadBins(k) /\ Kinds(k) \subseteq Kinds(k)'
        BY <2>1, <3>1
      <3>3. ArenaIsReported(k)
        BY DEF Reported
      <3> QED
        BY <2>1, <2>3, <3>2, <3>3 DEF ArenaIsReported, FastbinsComplete, BadBins
    <2>4. ASSUME reports' = reports PROVE Reported'
      BY <2>3, <2>4 DEF Reported
    <2>5. ASSUME NEW e, reports' = Append(reports, e),
                 \A n : n = arena => ArenaIsReported(n)'
          PROVE  Reported'
      <3>1. /\ DOMAIN reports' = 1 .. arena
            /\ \A k \in DOMAIN reports : reports'[k] = reports[k]
        BY <2>2, <2>5 DEF TypeOK
      <3> SUFFICES ASSUME NEW k \in 1 .. arena PROVE ArenaIsReported(k)'
        BY <3>1 DEF Reported
      <3>2. CASE k = arena
        BY <2>5, <3>2
      <3>3. CASE k # arena
        BY <2>2, <2>3, <3>1, <3>3
      <3> QED
        BY <3>2, <3>3
    <2>6. CASE StubArena
      <3>1. /\ Report(<<Problem("HeapWalkTruncated", arena)>>)
            /\ reports' = Append(reports, Stub)
        BY <2>6 DEF StubArena
      <3>2. "HeapWalkTruncated" \in ProblemKinds /\ arena \in 0 .. Len(run.arenas) + 1
        BY <2>2 DEF ProblemKinds
      <3>3. \A n : n = arena => "HeapWalkTruncated" \in Kinds(n)'
        BY <2>1, <3>1, <3>2, ReportOne
      <3>4. reports'[arena] = Stub
        BY <2>2, <3>1 DEF TypeOK
      <3>5. Stub.stub
        BY DEF Stub
      <3> QED
        <4>1. \A n : n = arena => ArenaIsReported(n)'
          BY <2>1, <3>3, <3>4, <3>5 DEF ArenaIsReported
        <4> QED
          BY <2>5, <3>1, <4>1
    <2>7. CASE Accumulate
      <3>1. /\ pc = "bins" /\ reports' = Append(reports, Built) /\ ~ WalkFastbin
            /\ arena \in 1 .. Len(run.arenas) /\ cursor = Len(Outcome.bins)
        BY <2>2, <2>7 DEF Accumulate, At, WalkFastbin, Phases
      <3>2. /\ Outcome.heaps \in Seq(BOOLEAN)
            /\ Outcome.bins \in Seq({"ok", "head", "chain"})
        BY <2>2, <3>1, OutcomeTyped
      <3>3. reports'[arena] = Built
        BY <2>2, <3>1 DEF TypeOK
      <3>4. \A n : n = arena /\ Outcome.unbalanced => "StatsInconsistent" \in Kinds(n)'
        <4>1. ASSUME Outcome.unbalanced
              PROVE  Report(<<Problem("StatsInconsistent", arena)>>)
          BY <2>7, <4>1 DEF Accumulate, Report
        <4>2. "StatsInconsistent" \in ProblemKinds /\ arena \in 0 .. Len(run.arenas) + 1
          BY <2>2 DEF ProblemKinds
        <4> QED
          BY <2>1, <4>1, <4>2, ReportOne
      <3>5. HeapsTold(Len(Outcome.heaps)) /\ BinsTold
        BY <3>1 DEF Underway
      <3>6. FALSE \in Range(Outcome.heaps) => "ChunkReadFailed" \in Kinds(arena)
        <4>1. ASSUME FALSE \in Range(Outcome.heaps)
              PROVE  \E h \in 1 .. Len(Outcome.heaps) : ~ Outcome.heaps[h]
          <5>1. PICK h \in DOMAIN Outcome.heaps : Outcome.heaps[h] = FALSE
            BY <4>1 DEF Range
          <5>2. DOMAIN Outcome.heaps = 1 .. Len(Outcome.heaps)
            BY <3>2
          <5> QED
            BY <5>1, <5>2
        <4> QED
          BY <3>5, <4>1 DEF HeapsTold
      <3>7. DOMAIN Outcome.bins = 1 .. cursor
        BY <3>1, <3>2
      <3>8. /\ Built.fastbins
                 = {b - 1 : b \in {c \in DOMAIN Outcome.bins : Outcome.bins[c] # "head"}}
            /\ Cardinality(BadBins(arena))
                 = Cardinality({b \in DOMAIN Outcome.bins : Outcome.bins[b] # "ok"})
            /\ ~ Built.stub
        BY <3>5, <3>7 DEF BinsTold, Built
      <3>9. \A n : n = arena => FastbinsComplete(n)'
        BY <2>1, <3>1, <3>3, <3>8 DEF FastbinsComplete, BadBins, Outcome
      <3>10. \A n : n = arena => ArenaIsReported(n)'
        BY <2>1, <3>3, <3>4, <3>5, <3>6, <3>8, <3>9
           DEF ArenaIsReported, Outcome, HeapsTold
      <3> QED
        BY <2>5, <3>1, <3>10
    <2>8. CASE HardError \/ MainStartFails \/ Render \/ RenderFails \/ NewlineFails
               \/ Prepare \/ Detect \/ Identify \/ LocateLibc \/ ListArenas \/ ResolveTls
               \/ ListHeaps \/ WalkRegion \/ StartFastbins \/ WalkFastbin \/ ReportBuilt
      BY <2>4, <2>8
         DEF HardError, MainStartFails, Render, RenderFails, NewlineFails, Prepare,
             Detect, Identify, LocateLibc, ListArenas, ResolveTls, ListHeaps,
             WalkRegion, StartFastbins, WalkFastbin, ReportBuilt, walk
    <2> QED
      BY <1>2, <2>6, <2>7, <2>8 DEF Next
  <1> QED
    BY <1>1, <1>2

LEMMA StepIInv == IInv /\ [Next]_vars => IInv'
  BY StepTypeOK, StepPhases, StepTiers, StepEntries, StepTold, StepUnderway,
     StepReported
     DEF IInv

LEMMA InductiveInvariant == Spec => []IInv
  BY InitIInv, StepIInv, PTL DEF Spec

-----------------------------------------------------------------------------
(* Types: no index of an arena leaves the list, and every problem names an *)
(* arena of the list, the end of the ring or nothing.                      *)
THEOREM TypeCorrect == Spec => []TypeOK
  BY InductiveInvariant, PTL DEF IInv

(* A hard error, whichever and wherever, ends the run with exit code 1 and *)
(* nothing on stdout; no recoverable problem ever ends it.                 *)
THEOREM TwoTiersAlways == Spec => []TwoTiers
  BY InductiveInvariant, PTL DEF IInv

(* A delivered report has every arena of the ring, in order, each with the *)
(* threads that are bound to it.                                           *)
THEOREM ArenasAlwaysComplete == Spec => []ArenasComplete
  <1>1. IInv => ArenasComplete
    <2> SUFFICES ASSUME IInv, Delivered PROVE ArenasComplete
      BY DEF ArenasComplete
    <2>1. Len(run.arenas) \in Nat /\ Len(run.arenas) > 0 /\ arena = Len(run.arenas) + 1
      BY RunTyped DEF IInv, TypeOK, Phases
    <2>2. /\ Len(reports) = Len(run.arenas)
          /\ DOMAIN reports = 1 .. Len(run.arenas)
      BY <2>1 DEF IInv, TypeOK, Entries
    <2>3. bound = IF Relocated THEN [t \in Threads \ Unresolved |-> run.threads[t]]
                  ELSE <<>>
      BY <2>1 DEF IInv, Entries, InLoop
    <2>4. ASSUME NEW k \in DOMAIN reports, NEW t \in Threads
          PROVE  t \in DOMAIN bound /\ bound[t] = k <=> (Relocated /\ run.threads[t] = k)
      <3>1. k # Nowhere
        BY <2>1, <2>2 DEF Nowhere
      <3>2. CASE Relocated
        BY <2>3, <3>1, <3>2 DEF Unresolved
      <3>3. CASE ~ Relocated
        BY <2>3, <3>3
      <3> QED
        BY <3>2, <3>3
    <2>5. ASSUME NEW k \in DOMAIN reports
          PROVE  /\ reports[k].of = k
                 /\ reports[k].stub <=> ~ run.arenas[k].start
                 /\ reports[k].stub => k > 1
                 /\ \A t \in Threads :
                      t \in reports[k].attached <=> (Relocated /\ run.threads[t] = k)
      <3>1. EntryIsRight(k)
        BY DEF IInv, Entries
      <3> QED
        BY <2>4, <3>1 DEF EntryIsRight
    <2> QED
      BY <2>2, <2>5 DEF ArenasComplete
  <1> QED
    BY <1>1, InductiveInvariant, PTL

(* Whatever is missing from a delivered report is in its problem list: a   *)
(* fastbin with an unreadable head, a thread without an arena, a broken    *)
(* ring, each bad region.                                                  *)
THEOREM DegradedAlwaysReported == Spec => []DegradedIsReported
  <1>1. IInv => DegradedIsReported
    <2> SUFFICES ASSUME IInv, Delivered PROVE DegradedIsReported
      BY DEF DegradedIsReported
    <2>1. InLoop
      BY RunTyped DEF IInv, TypeOK, Phases, InLoop
    <2> QED
      BY <2>1 DEF IInv, Told, Reported, DegradedIsReported
  <1> QED
    BY <1>1, InductiveInvariant, PTL
=============================================================================
