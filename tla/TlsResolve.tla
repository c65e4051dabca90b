----------------------------- MODULE TlsResolve -----------------------------
(***************************************************************************)
(* resolve_tls and collect_tcache of analyze.rs with the TLS reads of      *)
(* heap::tcache: one pass over the threads that binds each one to its      *)
(* arena and gives every chunk of every tcache list an owner.              *)
(*                                                                         *)
(* The input is what the core answers: proc.tpOffset is the read at the    *)
(* TP-offset relocation, a thread's arena and tcache are the reads of the  *)
(* two TLS variables, heads the entries[] of a tcache structure and link   *)
(* the next pointers already revealed (FreeListWalk walks one list).       *)
(***************************************************************************)
EXTENDS Naturals, FiniteSets, SequencesExt

CONSTANTS Node,       \* user addresses of chunks in tcache lists
          Unreadable, \* the answer of a read that fails
          MaxBins,    \* DetectedLayout.tcache_max_bins
          MaxChain,   \* MAX_CHAIN
          Bases,      \* addresses of tcache_perthread_structs
          ArenaAddr,  \* addresses of malloc_states
          Procs       \* the processes the pass may meet

Value(S) == S \cup {0, Unreadable}

IsProc(p) ==
  /\ {p.reloc, p.arenaVar, p.hasTcache} \subseteq BOOLEAN
  /\ p.main \in ArenaAddr
  /\ p.tpOffset \in Value({})
  /\ p.threads \in Seq([tp : BOOLEAN, arena : Value(ArenaAddr), tcache : Value(Bases)])
  /\ p.heads \in [Bases -> [0 .. MaxBins - 1 -> Value(Node)]]
  /\ p.link \in [Node -> Value(Node)]

ASSUME TlsResolveAssumption ==
  /\ MaxBins \in Nat \ {0}
  /\ MaxChain \in Nat \ {0}
  /\ IsFiniteSet(Node)
  /\ 0 \notin Node \cup Bases \cup ArenaAddr \cup {Unreadable}
  /\ Unreadable \notin Node \cup Bases \cup ArenaAddr
  /\ \A p \in Procs : IsProc(p)

VARIABLES proc,       \* the input
          thread,     \* the thread being resolved; thread_id is its number
          step,       \* "tp", "arena", "tcache", "bins" or "end" of a thread
          bin,        \* the tcache bin to read next
          failed,     \* tls_failed of the current thread
          membership, \* tcache_membership: user address -> its first owner
          arenaOf,    \* thread_arena_map: thread -> malloc_state address
          problems    \* the Problems pushed, as <<kind, thread, bin, address>>

vars == <<proc, thread, step, bin, failed, membership, arenaOf, problems>>

NoBin == MaxBins \* bin of a Problem that names a thread only

(* TcacheOwner: the thread and the bin that list a chunk.                  *)
Owner == [thread : DOMAIN proc.threads, bin : 0 .. MaxBins - 1]

TypeOK ==
  /\ IsProc(proc)
  /\ thread \in 1 .. Len(proc.threads) + 1
  /\ step \in {"tp", "arena", "tcache", "bins", "end"}
  /\ bin \in 0 .. MaxBins
  /\ failed \in BOOLEAN
  /\ DOMAIN membership \subseteq Node
  /\ \A a \in DOMAIN membership :
       membership[a] \in Owner
  /\ DOMAIN arenaOf \subseteq DOMAIN proc.threads
  /\ \A i \in DOMAIN arenaOf : arenaOf[i] \in ArenaAddr

Init ==
  /\ proc \in Procs
  /\ thread = IF proc.reloc THEN 1 ELSE Len(proc.threads) + 1
  /\ step = "tp"
  /\ bin = 0
  /\ failed = FALSE
  /\ membership = <<>>
  /\ arenaOf = <<>>
  /\ problems = <<>>

Busy(s) == thread <= Len(proc.threads) /\ step = s

ThreadIn == proc.threads[thread]

TlsFailure == <<"ThreadTlsResolutionFailed", thread, NoBin, 0>>

NullTp ==
  /\ Busy("tp")
  /\ ~ ThreadIn.tp
  /\ problems' = Append(problems, TlsFailure)
  /\ thread' = thread + 1
  /\ UNCHANGED <<proc, step, bin, failed, membership, arenaOf>>

(* Wrong variant: tls_failed is never cleared.                             *)
HasTp_FlagKept ==
  /\ Busy("tp")
  /\ ThreadIn.tp
  /\ step' = "arena"
  /\ UNCHANGED <<proc, thread, bin, failed, membership, arenaOf, problems>>

HasTp ==
  /\ Busy("tp")
  /\ ThreadIn.tp
  /\ step' = "arena"
  /\ failed' = FALSE
  /\ UNCHANGED <<proc, thread, bin, membership, arenaOf, problems>>

(* read_tls_var reads the TP offset first, then the variable.              *)
ReadTlsVar(value) == IF proc.tpOffset = Unreadable THEN Unreadable ELSE value

ThreadArena == ReadTlsVar(ThreadIn.arena)

(* A null thread_arena is glibc's "this thread uses main".                 *)
Resolved(addr) == IF addr = 0 THEN proc.main ELSE addr

BindArena ==
  /\ Busy("arena")
  /\ IF ~ proc.arenaVar THEN UNCHANGED <<arenaOf, failed>>
     ELSE IF ThreadArena = Unreadable
     THEN failed' = TRUE /\ UNCHANGED arenaOf
     ELSE /\ arenaOf' = [i \in DOMAIN arenaOf \cup {thread} |->
                           IF i = thread THEN Resolved(ThreadArena) ELSE arenaOf[i]]
          /\ UNCHANGED failed
  /\ step' = "tcache"
  /\ UNCHANGED <<proc, thread, bin, membership, problems>>

Tcache == ReadTlsVar(ThreadIn.tcache)

(* Wrong variant: a thread whose arena could not be read loses its tcache. *)
SkipTcache_AfterFailure ==
  \/ ~ proc.hasTcache
  \/ Tcache = 0
  \/ failed

SkipTcache == ~ proc.hasTcache \/ Tcache = 0

ReadTcache ==
  /\ Busy("tcache")
  /\ failed' = (failed \/ (~ SkipTcache /\ Tcache = Unreadable))
  /\ step' = IF SkipTcache \/ Tcache = Unreadable THEN "end" ELSE "bins"
  /\ bin' = 0
  /\ UNCHANGED <<proc, thread, membership, arenaOf, problems>>

HeadRead == proc.heads[Tcache][bin]

BinDone ==
  /\ bin' = bin + 1
  /\ step' = IF bin + 1 = MaxBins THEN "end" ELSE "bins"
  /\ UNCHANGED <<proc, thread, failed, arenaOf>>

HeadUnreadable ==
  /\ Busy("bins")
  /\ HeadRead = Unreadable
  /\ problems' = Append(problems, <<"TcacheChunkReadFailed", thread, bin, 0>>)
  /\ UNCHANGED membership
  /\ BinDone

(* The nodes of a list in order, up to its end, its break, its first       *)
(* repeat or the cap: result.user_addrs of walk_tcache_bin.                *)
Chain(head) ==
  LET nth[k \in 1 .. Cardinality(Node) + 1] ==
        IF k = 1 THEN head
        ELSE IF nth[k - 1] \in Node THEN proc.link[nth[k - 1]] ELSE 0
      isPrefix(n) == /\ n <= MaxChain
                     /\ \A k \in 1 .. n : nth[k] \in Node
                     /\ \A j, k \in 1 .. n : nth[j] = nth[k] => j = k
      length == CHOOSE n \in 0 .. Cardinality(Node) :
                  isPrefix(n) /\ ~ isPrefix(n + 1)
  IN  [k \in 1 .. length |-> nth[k]]

(* The Problem of walk_tcache_bin, if the list breaks, loops or goes on    *)
(* behind the cap.                                                         *)
ChainProblems(head) ==
  LET c == Chain(head)
  IN  IF c = <<>> \/ proc.link[Last(c)] = 0 THEN <<>>
      ELSE IF proc.link[Last(c)] = Unreadable
      THEN <<<<"TcacheChunkReadFailed", thread, bin, Last(c)>>>>
      ELSE <<<<"TcacheCycleDetected", thread, bin, 0>>>>

(* The Vacant arm of membership.entry: the first owner keeps the chunk.    *)
Claim(addrs) ==
  [a \in DOMAIN membership \cup Range(addrs) |->
     IF a \in DOMAIN membership THEN membership[a]
     ELSE [thread |-> thread, bin |-> bin]]

(* The Occupied arm.                                                       *)
IsTaken(a) == a \in DOMAIN membership

Duplicate(a) == <<"DuplicateTcacheEntry", thread, bin, a>>

Duplicates(addrs) ==
  FlattenSeq([k \in DOMAIN addrs |->
                IF IsTaken(addrs[k]) THEN <<Duplicate(addrs[k])>> ELSE <<>>])

WalkBin ==
  /\ Busy("bins")
  /\ HeadRead # Unreadable
  /\ membership' = Claim(Chain(HeadRead))
  /\ problems' = problems \o ChainProblems(HeadRead) \o Duplicates(Chain(HeadRead))
  /\ BinDone

EndThread ==
  /\ Busy("end")
  /\ problems' = IF failed THEN Append(problems, TlsFailure) ELSE problems
  /\ thread' = thread + 1
  /\ step' = "tp"
  /\ UNCHANGED <<proc, bin, failed, membership, arenaOf>>

Next ==
  \/ NullTp
  \/ HasTp
  \/ BindArena
  \/ ReadTcache
  \/ HeadUnreadable
  \/ WalkBin
  \/ EndThread

Spec == Init /\ [][Next]_vars

-----------------------------------------------------------------------------
(* Properties.                                                             *)

Done == thread > Len(proc.threads)

(* The tcache structures the pass should have reached, by thread: those of *)
(* the threads with a TP, whatever became of their thread_arena.           *)
TcacheOf ==
  LET reached == {i \in DOMAIN proc.threads :
                    /\ proc.reloc
                    /\ proc.hasTcache
                    /\ proc.threads[i].tp
                    /\ proc.tpOffset # Unreadable
                    /\ proc.threads[i].tcache \in Bases}
  IN  [i \in reached |-> proc.threads[i].tcache]

(* The bins that list a chunk among the first MaxChain of theirs.          *)
OwnersOf(a) ==
  {o \in Owner :
     /\ o.thread \in DOMAIN TcacheOf
     /\ a \in Range(Chain(proc.heads[TcacheOf[o.thread]][o.bin]))}

Before(o, q) == o.thread < q.thread \/ (o.thread = q.thread /\ o.bin < q.bin)

(* Every chunk some readable tcache bin lists is in the membership, and    *)
(* its owner is the first bin that lists it, in thread and bin order;      *)
(* nothing else is.  The free bytes of a chunk are counted under that bin  *)
(* ("First owner wins", analyze.rs:280).  What a list holds behind the     *)
(* MAX_CHAIN-th node has no owner.                                         *)
FirstOwnerWins ==
  Done =>
    \A a \in Node :
      /\ a \in DOMAIN membership <=> OwnersOf(a) # {}
      /\ a \in DOMAIN membership =>
           /\ membership[a] \in OwnersOf(a)
           /\ \A o \in OwnersOf(a) : o = membership[a] \/ Before(membership[a], o)

(* Every further bin that lists the chunk, in the same thread or in        *)
(* another, is reported once as a DuplicateTcacheEntry, and nothing else   *)
(* is: the double free is neither missed nor invented.                     *)
DuplicatesReported ==
  Done =>
    \A a \in Node, o \in Owner :
      Cardinality({k \in DOMAIN problems :
                     problems[k] = <<"DuplicateTcacheEntry", o.thread, o.bin, a>>})
        = IF o \in OwnersOf(a) /\ o # membership[a] THEN 1 ELSE 0

(* A chunk in several tcache bins is counted once, and told every time.    *)
OneOwnerPerChunk == FirstOwnerWins /\ DuplicatesReported

(* A thread is reported as unresolved once, and exactly when its TP is     *)
(* null or one of the TLS reads its libc calls for failed; a thread with   *)
(* no arena binding after the pass is one of these, or thread_arena is not *)
(* in the libc at all.  A bound thread is in the arena its own             *)
(* thread_arena names, main when that is null.                             *)
UnresolvedReportedOnce ==
  Done /\ proc.reloc =>
    \A i \in DOMAIN proc.threads :
      LET t == proc.threads[i]
          reads == (IF proc.arenaVar THEN {t.arena} ELSE {})
                     \cup (IF proc.hasTcache THEN {t.tcache} ELSE {})
          lost == \/ ~ t.tp
                  \/ Unreadable \in reads
                  \/ reads # {} /\ proc.tpOffset = Unreadable
          reports == {k \in DOMAIN problems :
                        problems[k] = <<"ThreadTlsResolutionFailed", i, NoBin, 0>>}
      IN  /\ Cardinality(reports) = IF lost THEN 1 ELSE 0
          /\ proc.arenaVar /\ i \notin DOMAIN arenaOf => lost
          /\ i \in DOMAIN arenaOf =>
               arenaOf[i] = IF t.arena = 0 THEN proc.main ELSE t.arena
=============================================================================
