--------------------------- MODULE MCAccounting -----------------------------
(***************************************************************************)
(* Two threads over two tcache structures of two bins each, lists of up to *)
(* two of three chunks (21, 22, 23).  Inputs joins three families:         *)
(*   - every combination of TLS reads, and every linking of the chunks     *)
(*     with the bins of two processes' worth of heads, each with one       *)
(*     arena;                                                              *)
(*   - lists of all three chunks, one more than the cap, open, broken or   *)
(*     circular, entered at any of the three by one thread or by both;     *)
(*   - every arena of one or two chunks of the two sizes of fastbins 0 and *)
(*     1, in use or not, fastbin 0 holding any subset of the chunks and of *)
(*     an address (29) outside the arena, fastbin 1 none, one or both of   *)
(*     the chunks, each with processes that put a chunk in no tcache, in   *)
(*     either bin of thread 1, in bin 0 of thread 2, or in several.        *)
(* Healthy arenas are among them, and so are chunks in a bin of another    *)
(* size, in a tcache and a fastbin at once, and bins with more chunks than *)
(* the walk has seen.  The heaps only go into the sums of the entry: none  *)
(* to three, the last of them saturate both.                               *)
(***************************************************************************)
EXTENDS Accounting

Pair == {21, 22}

MCNode == Pair \cup {23}

MCBases == {11, 12}

MCArenaAddr == {1, 2}

MCUnreadable == 99

Thread == [tp : BOOLEAN, arena : {0, 2, MCUnreadable}, tcache : {0, 11, MCUnreadable}]

SomeLink == [n \in MCNode |-> 0]

Links == {[SomeLink EXCEPT ![21] = m, ![22] = n] : m \in Value(Pair), n \in Value(Pair)}

ChainLink == [SomeLink EXCEPT ![21] = 22]

(* The two bins of both tcache structures.                                 *)
HeadsOf(h, g) == [b \in MCBases |-> IF b = 11 THEN h ELSE g]

Bins(first, second) == [k \in 0 .. 1 |-> IF k = 0 THEN first ELSE second]

SomeHeads == HeadsOf(Bins(21, 22), Bins(21, 22))

(* Every combination of TLS reads, with one set of lists.                  *)
ReadProcs ==
  [reloc : {TRUE}, arenaVar : BOOLEAN, hasTcache : BOOLEAN, main : {1},
   tpOffset : {0, MCUnreadable}, threads : [1 .. 2 -> Thread],
   heads : {SomeHeads}, link : {SomeLink}]

(* A libc without the TP-offset relocation.                                *)
UnrelocatedProcs ==
  [reloc : {FALSE}, arenaVar : {TRUE}, hasTcache : {TRUE}, main : {1},
   tpOffset : {0}, threads : [1 .. 2 -> Thread],
   heads : {SomeHeads}, link : {SomeLink}]

ReadableThreads(first, second) ==
  <<[tp |-> TRUE, arena |-> 2, tcache |-> first],
    [tp |-> TRUE, arena |-> 0, tcache |-> second]>>

ReadableProcs(threads, heads, links) ==
  [reloc : {TRUE}, arenaVar : {TRUE}, hasTcache : {TRUE}, main : {1},
   tpOffset : {0}, threads : threads, heads : heads, link : links]

(* Threads with a shared tcache or one each, and all lists of a pair.      *)
ListProcs ==
  ReadableProcs({ReadableThreads(11, b) : b \in MCBases},
                {HeadsOf(h, g) : h \in [0 .. 1 -> Value(Pair)],
                                 g \in [0 .. 1 -> Pair]},
                Links)

(* Lists longer than the cap.                                              *)
LongProcs ==
  ReadableProcs({ReadableThreads(11, b) : b \in MCBases},
                {HeadsOf(Bins(m, n), Bins(k, 0)) : m \in MCNode,
                   n \in {0} \cup MCNode, k \in {0} \cup MCNode},
                {[ChainLink EXCEPT ![22] = 23, ![23] = n] : n \in {0, 21, MCUnreadable}})

(* Short and whole lists, in one bin of a thread, in both or in two        *)
(* threads'.                                                               *)
ParkingProcs ==
  LET two == {ReadableThreads(11, 12)}
      inFirst  == {HeadsOf(Bins(m, n), Bins(0, 0)) : m \in {0, 21}, n \in {0} \cup Pair}
      inSecond == {HeadsOf(Bins(0, 0), Bins(21, 0))}
      inBoth   == {HeadsOf(Bins(21, 0), Bins(22, 0)), HeadsOf(Bins(0, 21), Bins(22, 0))}
  IN  ReadableProcs(two, inFirst \cup inSecond \cup inBoth, {SomeLink})
        \cup ReadableProcs(two, inSecond \cup {HeadsOf(Bins(21, 0), Bins(0, 0)),
                                               HeadsOf(Bins(0, 21), Bins(0, 0))},
                           {ChainLink})

TlsProcs == ReadProcs \cup UnrelocatedProcs \cup ListProcs

MCProcs == ParkingProcs \cup TlsProcs \cup LongProcs

Chunks(n) == [1 .. n -> [size : {24, 40}, in_use : BOOLEAN]]

EventsOf(c) ==
  [k \in DOMAIN c |-> [user_addr |-> 20 + k, user_size |-> c[k].size,
                       in_use |-> c[k].in_use]]

FastBin(index, members) ==
  [index |-> index, count |-> Cardinality(members), members |-> members]

ArenaOf(c, f, g) ==
  [addr |-> 2, events |-> EventsOf(c), fastbins |-> <<FastBin(0, f), FastBin(1, g)>>,
   heaps |-> [k \in 1 .. Cardinality(f) |-> [size |-> 20 * k, mprotect_size |-> 50]]]

MCArenas ==
  {ArenaOf(c, f, g) : c \in Chunks(1) \cup Chunks(2),
                      f \in SUBSET {21, 22, 29}, g \in {{}, {21}, Pair}}

SomeArena == ArenaOf([k \in 1 .. 2 |-> [size |-> 24, in_use |-> TRUE]], {}, {})

LongArena == ArenaOf([k \in 1 .. 3 |-> [size |-> 24, in_use |-> k # 2]], {}, {22})

MCInputs ==
  [proc : TlsProcs, arena : {SomeArena}]
    \cup [proc : LongProcs, arena : {LongArena}]
    \cup [proc : ParkingProcs, arena : MCArenas]
=============================================================================
