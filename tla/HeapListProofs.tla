--------------------------- MODULE HeapListProofs ---------------------------
(***************************************************************************)
(* heap_list::list implements PointerChase on every arena, explains every  *)
(* empty list and yields sound regions, whatever memory holds, and keeps   *)
(* all of it as a part of the walk over the arena (ArenaWalk).             *)
(*                                                                         *)
(* Listings is the strengthening for the regions: a heap of a secondary    *)
(* arena is listed as memory describes it, and it is the oldest one, which *)
(* embeds the malloc_state, exactly when its prev is null.                 *)
(*                                                                         *)
(* ArenaIInv is the one for the chunks: those collected lie in the regions *)
(* of the heaps walked so far, and the walk under way keeps the invariant  *)
(* of ChunkWalkProofs.  Regions of different heaps share no byte.          *)
(*                                                                         *)
(* HealthyInv is the one for an arena as malloc builds it: heaps, walk and *)
(* chunks are, as far as they have come, those that were built.            *)
(***************************************************************************)
EXTENDS ArenaWalk, WellFoundedInduction, TLAPS

-----------------------------------------------------------------------------
(* Arithmetic.                                                             *)

LEMMA MinOfNats ==
  ASSUME NEW S, S \subseteq Nat, S # {}
  PROVE  Min(S) \in S /\ \A y \in S : Min(S) <= y
  <1> DEFINE R == OpToRel(<, Nat)
  <1>1. PICK x \in S : \A y \in S : <<y, x>> \notin R
    <2> HIDE DEF R
    <2>1. IsWellFoundedOn(R, Nat)
      BY NatLessThanWellFounded DEF R
    <2> QED
      BY <2>1, WFMin
  <1>2. \A y \in S : <<y, x>> \in R <=> y < x
    BY DEF OpToRel
  <1> HIDE DEF R
  <1>3. ASSUME NEW y \in S PROVE x <= y
    <2>1. x \in Nat /\ y \in Nat
      OBVIOUS
    <2>2. ~ (y < x)
      BY <1>1, <1>2, Zenon
    <2> QED
      BY <2>1, <2>2
  <1> QED
    BY <1>3 DEF Min

LEMMA Division ==
  ASSUME NEW n \in Nat, NEW w \in Nat \ {0}
  PROVE  /\ n \div w \in Nat
         /\ n % w \in 0 .. w - 1
         /\ n = ((n \div w) * w) + (n % w)
  OBVIOUS

LEMMA Multiple ==
  ASSUME NEW n \in Nat, NEW w \in Nat \ {0}, n % w = 0
  PROVE  n \div w \in Nat /\ n = (n \div w) * w
  BY Division

LEMMA RoundedDown ==
  ASSUME NEW n \in Nat, NEW w \in Nat \ {0}
  PROVE  n - (n % w) \in 0 .. n
  <1>1. n % w \in Nat /\ n = ((n \div w) * w) + (n % w) /\ n \div w \in Nat
    BY Division
  <1>2. (n \div w) * w \in Nat
    BY <1>1
  <1> QED
    BY <1>1, <1>2

LEMMA Modulo ==
  ASSUME NEW n \in Nat, NEW w \in Nat \ {0}
  PROVE  n % w <= n
  <1>1. n % w \in Nat /\ n = ((n \div w) * w) + (n % w) /\ n \div w \in Nat
    BY Division
  <1>2. (n \div w) * w \in Nat
    BY <1>1
  <1> QED
    BY <1>1, <1>2

LEMMA FewerMultiples ==
  ASSUME NEW j \in Nat, NEW k \in Nat, NEW w \in Nat \ {0}, j * w < k * w
  PROVE  j < k
  <1> SUFFICES ASSUME j >= k PROVE FALSE
    OBVIOUS
  <1>1. j - k \in Nat /\ (j - k) * w \in Nat
    OBVIOUS
  <1>2. j * w = ((j - k) * w) + (k * w)
    OBVIOUS
  <1> QED
    BY <1>1, <1>2

LEMMA Wrap ==
  ASSUME NEW x \in Nat, x < AddrLimit
  PROVE  x % AddrLimit = x /\ (x + AddrLimit) % AddrLimit = x
  BY AddrLimitAssumption

LEMMA WrapTyped ==
  ASSUME NEW a \in Nat, NEW b \in Nat
  PROVE  WrappingAdd(a, b) \in Addr
  BY AddrLimitAssumption, Division DEF WrappingAdd, Addr

LEMMA NoWrap ==
  ASSUME NEW a \in Nat, NEW b \in Nat, a + b < AddrLimit
  PROVE  WrappingAdd(a, b) = a + b
  BY Wrap DEF WrappingAdd

-----------------------------------------------------------------------------
(* What is read.                                                           *)

LEMMA Constants ==
  /\ Word \in Nat \ {0} /\ HeapMaxSize \in Nat \ {0} /\ MaxHeaps \in Nat \ {0}
  /\ AddrLimit \in Nat \ {0}
  /\ SizeOffset \in Addr /\ PrevOffset \in Addr /\ MprotectOffset \in Addr
  /\ HeapInfoSize \in Addr /\ MallocStateSize \in Addr
  /\ Word <= HeapInfoSize /\ AddrLimit % Word = 0
  BY HeapListAssumption, AddrLimitAssumption

LEMMA ReadTyped ==
  ASSUME IsArena(arena), NEW a, Readable(mem, a)
  PROVE  mem[a] \in Addr
  BY DEF IsArena, IsMemory, Readable, mem

LEMMA TopHeapTyped ==
  ASSUME IsArena(arena), Readable(mem, TopField)
  PROVE  Top \in Addr /\ TopHeap \in Addr
  <1>1. Top \in Addr /\ Top \in Nat
    BY ReadTyped, Constants DEF Top, Addr
  <1>2. TopHeap \in 0 .. Top
    BY <1>1, Constants, RoundedDown DEF TopHeap, ToHeapStart
  <1> QED
    BY <1>1, <1>2, Constants DEF Addr

LEMMA InfoTyped ==
  ASSUME IsArena(arena), NEW a, InfoReadable(a)
  PROVE  Size(a) \in Addr /\ Prev(a) \in Addr
  BY ReadTyped DEF InfoReadable, Size, Prev

(* A _heap_info whose size can be read is a candidate of the chain.        *)
LEMMA IsCandidate ==
  ASSUME NEW a \in Addr, Readable(mem, WrappingAdd(a, SizeOffset))
  PROVE  a \in Candidates
  <1> DEFINE x == WrappingAdd(a, SizeOffset)
  <1>1. /\ a \in Nat /\ a < AddrLimit /\ SizeOffset \in Nat
        /\ SizeOffset < AddrLimit /\ AddrLimit \in Nat
    BY Constants DEF Addr
  <1>2. (x + (AddrLimit - SizeOffset)) % AddrLimit = a
    <2>1. CASE a + SizeOffset < AddrLimit
      <3>1. x = a + SizeOffset
        BY <1>1, <2>1, NoWrap
      <3>2. x + (AddrLimit - SizeOffset) = a + AddrLimit
        BY <1>1, <3>1
      <3> QED
        BY <1>1, <3>2, Wrap
    <2>2. CASE a + SizeOffset >= AddrLimit
      <3> DEFINE y == (a + SizeOffset) - AddrLimit
      <3>1. y \in Nat /\ y < AddrLimit /\ y + AddrLimit = a + SizeOffset
        BY <1>1, <2>2
      <3> HIDE DEF y
      <3>2. x = y
        BY <3>1, Wrap DEF WrappingAdd
      <3>3. x + (AddrLimit - SizeOffset) = a
        BY <1>1, <3>1, <3>2
      <3> QED
        BY <1>1, <3>3, Wrap
    <2> QED
      BY <1>1, <2>1, <2>2
  <1>3. x \in DOMAIN mem
    BY DEF Readable
  <1> HIDE DEF x
  <1>4. (x + (AddrLimit - SizeOffset)) % AddrLimit \in Candidates
    BY <1>3, Zenon DEF Candidates
  <1> QED
    BY <1>2, <1>4

(* Going round the address space word by word ends at the unreadable one.  *)
LEMMA SomeStop ==
  ASSUME IsArena(arena), NEW start \in Addr
  PROVE  \E k \in 0 .. AddrLimit \div Word :
           ~ Readable(mem, WrappingAdd(start, k * Word))
  <1> DEFINE q == AddrLimit \div Word
             r == start % Word
             s == start \div Word
  <1>1. /\ q \in Nat /\ AddrLimit = q * Word
        /\ Word \in Nat \ {0} /\ start \in Nat /\ start < AddrLimit
    BY Constants, Multiple DEF Addr
  <1>2. r \in 0 .. Word - 1 /\ s \in Nat /\ start = (s * Word) + r
    BY <1>1, Division
  <1>3. PICK b \in Addr : b % Word = r /\ ~ Readable(mem, b)
    BY <1>2 DEF IsArena, mem
  <1> DEFINE n == b \div Word
  <1>4. n \in Nat /\ b = (n * Word) + r /\ b \in Nat /\ b < AddrLimit
    <2>1. b \in Nat /\ b < AddrLimit
      BY <1>1 DEF Addr
    <2>2. b \div Word \in Nat /\ b = ((b \div Word) * Word) + (b % Word)
      BY <1>1, <2>1, Division
    <2> QED
      BY <1>3, <2>1, <2>2
  <1> HIDE DEF q, r, s, n
  <1>5. n < q /\ s < q
    <2>1. n * Word < q * Word /\ s * Word < q * Word
      <3>1. n * Word \in Nat /\ s * Word \in Nat /\ q * Word \in Nat /\ r \in Nat
        BY <1>1, <1>2, <1>4
      <3> QED
        BY <1>1, <1>2, <1>4, <3>1
    <2> QED
      BY <1>1, <1>2, <1>4, <2>1, FewerMultiples
  <1>6. CASE n >= s
    <2>1. n - s \in 0 .. q
      BY <1>1, <1>2, <1>4, <1>5, <1>6
    <2>2. start + ((n - s) * Word) = b
      <3>1. (n - s) * Word = (n * Word) - (s * Word)
        BY <1>1, <1>2, <1>4
      <3>2. n * Word \in Nat /\ s * Word \in Nat /\ r \in Nat
        BY <1>1, <1>2, <1>4
      <3> QED
        BY <1>2, <1>4, <3>1, <3>2
    <2>3. WrappingAdd(start, (n - s) * Word) = b
      BY <1>4, <2>2, Wrap DEF WrappingAdd
    <2> QED
      BY <1>3, <2>1, <2>3 DEF q
  <1>7. CASE ~ (n >= s)
    <2>1. (n - s) + q \in 0 .. q
      BY <1>1, <1>2, <1>4, <1>5, <1>7
    <2>2. start + (((n - s) + q) * Word) = b + AddrLimit
      <3>1. ((n - s) + q) * Word = ((n * Word) - (s * Word)) + (q * Word)
        BY <1>1, <1>2, <1>4
      <3>2. n * Word \in Nat /\ s * Word \in Nat /\ r \in Nat /\ q * Word \in Nat
        BY <1>1, <1>2, <1>4
      <3> QED
        BY <1>1, <1>2, <1>4, <3>1, <3>2
    <2>3. WrappingAdd(start, ((n - s) + q) * Word) = b
      BY <1>4, <2>2, Wrap DEF WrappingAdd
    <2> QED
      BY <1>3, <2>1, <2>3 DEF q
  <1> QED
    BY <1>6, <1>7

(* The scan for the first chunk stays in the address space; and unless the *)
(* region reaches its end, it goes forward and skips readable zeros only.  *)
LEMMA PaddingIsZero ==
  ASSUME IsArena(arena), NEW start \in Addr, NEW end \in Addr
  PROVE  /\ SkipZeroPadding(start, end) \in Addr
         /\ end + Word <= AddrLimit =>
              /\ SkipZeroPadding(start, end) >= start
              /\ \A a \in start .. SkipZeroPadding(start, end) - 1 :
                   (a - start) % Word = 0 => Readable(mem, a) /\ mem[a] = 0
  <1> DEFINE q == AddrLimit \div Word
             word(k) == WrappingAdd(start, k * Word)
             Stop(k) == word(k) >= end \/ ~ Readable(mem, word(k)) \/ mem[word(k)] # 0
             stops == {k \in 0 .. q : Stop(k)}
             m == Min(stops)
  <1>1. /\ Word \in Nat \ {0} /\ AddrLimit \in Nat /\ start \in Nat
        /\ start < AddrLimit /\ end \in Nat /\ end < AddrLimit /\ q \in Nat
    BY Constants, Division DEF Addr
  <1>2. stops \subseteq Nat /\ stops # {}
    <2>1. PICK k \in 0 .. q : ~ Readable(mem, word(k))
      BY SomeStop
    <2>2. k \in stops
      BY <2>1
    <2>3. stops \subseteq 0 .. q
      OBVIOUS
    <2> HIDE DEF stops
    <2> QED
      BY <1>1, <2>2, <2>3
  <1>3. SkipZeroPadding(start, end) = word(m)
    BY DEF SkipZeroPadding
  <1>4. m \in stops /\ \A k \in stops : m <= k
    <2> HIDE DEF stops
    <2> QED
      BY <1>2, MinOfNats
  <1>5. m \in Nat /\ m <= q /\ m * Word \in Nat
    <2>1. m \in 0 .. q
      BY <1>4
    <2> HIDE DEF m, q
    <2> QED
      BY <1>1, <2>1
  <1>6. word(m) \in Addr
    BY <1>1, <1>5, WrapTyped
  <1> HIDE DEF m, q
  <1>7. ASSUME NEW k \in 0 .. m - 1
        PROVE  ~ Stop(k)
    <2>1. k \in 0 .. q /\ ~ (m <= k)
      BY <1>1, <1>5, q \in Nat
    <2>2. k \notin stops
      <3> HIDE DEF stops
      <3> QED
        BY <1>4, <2>1
    <2> QED
      BY <2>1, <2>2
  <1>8. ASSUME end + Word <= AddrLimit
        PROVE  /\ word(m) = start + m * Word
               /\ \A k \in 0 .. m - 1 : word(k) = start + k * Word
    <2> DEFINE P(k) == k <= m => start + k * Word < AddrLimit
               bad == {k \in Nat : ~ P(k)}
    <2>1. ASSUME NEW k \in Nat, P(k)
          PROVE  P(k + 1)
      <3> SUFFICES ASSUME k + 1 <= m PROVE start + (k + 1) * Word < AddrLimit
        OBVIOUS
      <3>1. k \in 0 .. m - 1 /\ k * Word \in Nat /\ start + k * Word < AddrLimit
        BY <1>1, <1>5, <2>1
      <3>2. word(k) = start + k * Word
        BY <1>1, <3>1, NoWrap
      <3>3. word(k) < end
        BY <1>1, <1>7, <3>1, <3>2
      <3>4. (k + 1) * Word = (k * Word) + Word
        BY <1>1
      <3> QED
        BY <1>1, <1>8, <3>1, <3>2, <3>3, <3>4
    <2>2. P(0)
      BY <1>1
    <2> HIDE DEF P
    <2>3. \A k \in Nat : P(k)
      <3> SUFFICES ASSUME bad # {} PROVE FALSE
        OBVIOUS
      <3> DEFINE least == Min(bad)
      <3>1. bad \subseteq Nat
        OBVIOUS
      <3>2. least \in bad /\ \A k \in bad : least <= k
        <4> HIDE DEF bad
        <4> QED
          BY <3>1, MinOfNats
      <3> HIDE DEF least
      <3>3. least \in Nat /\ ~ P(least) /\ least # 0
        BY <2>2, <3>2
      <3>4. least - 1 \in Nat /\ ~ (least <= least - 1) /\ (least - 1) + 1 = least
        BY <3>3
      <3>5. P(least - 1)
        BY <3>2, <3>4
      <3> QED
        BY <2>1, <3>3, <3>4, <3>5
    <2>4. ASSUME NEW k \in 0 .. m PROVE word(k) = start + k * Word
      <3>1. k \in Nat /\ k * Word \in Nat /\ start + k * Word < AddrLimit
        BY <1>1, <1>5, <2>3 DEF P
      <3> QED
        BY <1>1, <3>1, NoWrap
    <2> QED
      BY <1>5, <2>4
  <1>9. ASSUME end + Word <= AddrLimit,
               NEW a \in start .. word(m) - 1, (a - start) % Word = 0
        PROVE  Readable(mem, a) /\ mem[a] = 0
    <2> DEFINE n == a - start
               j == n \div Word
    <2>1. n \in Nat /\ n < m * Word /\ n % Word = 0 /\ start + n = a
      BY <1>1, <1>5, <1>8, <1>9
    <2> HIDE DEF n
    <2>2. j \in Nat /\ n = j * Word
      BY <1>1, <2>1, Multiple
    <2> HIDE DEF j
    <2>3. j < m
      BY <1>1, <1>5, <2>1, <2>2, FewerMultiples
    <2>4. ~ Stop(j) /\ word(j) = a
      BY <1>5, <1>7, <1>8, <1>9, <2>1, <2>2, <2>3
    <2> QED
      BY <2>4
  <1> HIDE DEF stops, word
  <1> QED
    BY <1>1, <1>3, <1>5, <1>6, <1>8, <1>9

-----------------------------------------------------------------------------
(* The inductive invariant.                                                *)

HeapOf(a) ==
  [address      |-> a,
   size         |-> Size(a),
   region_start |-> SkipZeroPadding(HeapStart(a), RegionEnd(a)),
   region_end   |-> RegionEnd(a)]

Listings ==
  ~ arena.main =>
    \A i \in DOMAIN heaps :
      /\ InfoReadable(heaps[i].address)
      /\ ~ Overflows(heaps[i].address)
      /\ heaps[i] = HeapOf(heaps[i].address)
      /\ Prev(heaps[i].address) = 0 <=> IsOldest(i)

Phases ==
  /\ pc \in {"start", "failed"} => heaps = <<>> /\ problems = <<>>
  /\ pc = "walk" => HasChain /\ problems = <<>>
  /\ pc = "done" /\ heaps = <<>> /\ problems = <<>> => Unused
  /\ ~ arena.main /\ heaps # <<>> => HasChain

IInv == TypeOK /\ Phases /\ MainGuessIsBounded /\ Listings

(* What a step cannot change: it all hangs on the arena.                   *)
LEMMA SameArena ==
  ASSUME arena' = arena
  PROVE  /\ HasChain' <=> HasChain
         /\ Unused' <=> Unused
         /\ Top' = Top /\ TopHeap' = TopHeap
         /\ \A a : /\ HeapOf(a)' = HeapOf(a) /\ Prev(a)' = Prev(a)
                   /\ (InfoReadable(a)' <=> InfoReadable(a))
                   /\ (Overflows(a)' <=> Overflows(a))
  BY DEF HasChain, Unused, HeapOf, HeapStart, RegionEnd, Prev, Size, InfoReadable,
         Overflows, TopHeap, Top, SbrkBase, mem, SkipZeroPadding

LEMMA HeapOfTyped ==
  ASSUME IsArena(arena), Readable(mem, TopField),
         NEW a \in Addr, InfoReadable(a), ~ Overflows(a)
  PROVE  HeapOf(a) \in Heap /\ HeapStart(a) \in Addr /\ RegionEnd(a) \in Addr
  <1>1. Size(a) \in Addr /\ Top \in Addr
    BY InfoTyped, TopHeapTyped
  <1>2. \A x \in Addr : x \in Nat
    BY Constants DEF Addr
  <1>3. HeapStart(a) \in Addr
    <2>1. WrappingAdd(a, HeapInfoSize) \in Addr
      BY <1>2, Constants, WrapTyped
    <2>2. (IF Prev(a) = 0 THEN MallocStateSize ELSE 0) \in Nat
      BY <1>2, Constants
    <2> QED
      BY <1>2, <2>1, <2>2, WrapTyped DEF HeapStart
  <1>4. RegionEnd(a) \in Addr
    <2>1. CASE a = TopHeap
      BY <1>1, <1>2, <2>1, Constants, WrapTyped DEF RegionEnd
    <2>2. CASE a # TopHeap
      <3>1. ~ (a + Size(a) >= AddrLimit)
        BY <2>2 DEF Overflows, AddOverflows
      <3> QED
        BY <1>1, <2>2, <3>1, Constants DEF RegionEnd, Addr
    <2> QED
      BY <2>1, <2>2
  <1>5. SkipZeroPadding(HeapStart(a), RegionEnd(a)) \in Addr
    BY <1>2, <1>3, <1>4, PaddingIsZero
  <1> QED
    BY <1>1, <1>3, <1>4, <1>5 DEF HeapOf, Heap

LEMMA MaxOfTwo ==
  ASSUME NEW a \in Nat, NEW b \in Nat
  PROVE  Max({a, b}) \in {a, b} /\ Max({a, b}) >= a /\ Max({a, b}) >= b
  <1>1. \E x \in {a, b} : \A y \in {a, b} : x >= y
    <2>1. CASE a >= b
      BY <2>1
    <2>2. CASE ~ (a >= b)
      BY <2>2
    <2> QED
      BY <2>1, <2>2
  <1> QED
    BY <1>1 DEF Max

LEMMA SegmentHolds ==
  ASSUME IsArena(arena), NEW a, Mapped(a)
  PROVE  /\ SegmentStart(a) \in Addr
         /\ \E s \in arena.segments :
              /\ SegmentStart(a) = s.start /\ s.start <= a /\ a < s.end
              /\ s.start \in Addr /\ s.end \in Addr \cup {AddrLimit}
  <1>1. \E s \in arena.segments : s.start <= a /\ a < s.end
    BY DEF Mapped
  <1>2. \A s \in arena.segments : s.start \in Addr /\ s.end \in Addr \cup {AddrLimit}
    BY DEF IsArena
  <1> QED
    BY <1>1, <1>2 DEF SegmentStart

(* The one heap of the main arena, guessed or not.                         *)
LEMMA MainHeapSound ==
  ASSUME IInv, MainHeap
  PROVE  /\ heaps' \in Seq(Heap) /\ heaps' # <<>>
         /\ arena' = arena /\ pc' = "done"
         /\ problems' \in Seq({"HeapWalkTruncated"})
         /\ MainGuessIsBounded'
  <1> DEFINE start == MainHeapStart
             last  == WrappingAdd(Top, Word)
  <1>1. /\ IsArena(arena) /\ Readable(mem, TopField) /\ Readable(mem, SbrkField)
        /\ arena' = arena /\ pc' = "done"
        /\ problems \in Seq({"HeapWalkTruncated"})
    BY DEF MainHeap, StartRead, IInv, TypeOK
  <1>2. Top \in Addr /\ SbrkBase \in Addr
    BY <1>1, ReadTyped DEF Top, SbrkBase
  <1>3. \A x \in Addr : x \in Nat
    BY Constants DEF Addr
  <1>4. last \in Addr
    BY <1>2, <1>3, Constants, WrapTyped
  <1>5. /\ start \in Addr
        /\ ~ Mapped(SbrkBase) =>
             /\ start <= Top /\ Top - start <= 4 * HeapMaxSize
             /\ \E s \in arena.segments : {start, Top} \subseteq s.start .. s.end - 1
    <2>1. CASE Mapped(SbrkBase)
      BY <1>2, <2>1 DEF MainHeapStart
    <2>2. CASE ~ Mapped(SbrkBase)
      <3> DEFINE bound == SaturatingSub(Top, 4 * HeapMaxSize)
      <3>1. Mapped(Top)
        BY <2>2 DEF MainHeap
      <3>2. PICK s \in arena.segments :
              /\ SegmentStart(Top) = s.start /\ s.start <= Top /\ Top < s.end
              /\ s.start \in Addr /\ s.end \in Addr \cup {AddrLimit}
        BY <1>1, <3>1, SegmentHolds
      <3>3. bound \in Nat /\ bound <= Top /\ Top - bound <= 4 * HeapMaxSize
        BY <1>2, <1>3, Constants DEF SaturatingSub
      <3> HIDE DEF bound
      <3>4. start = Max({s.start, bound})
        BY <2>2, <3>2 DEF MainHeapStart, bound
      <3>5. start \in {s.start, bound} /\ start >= s.start /\ start >= bound
        BY <1>3, <3>2, <3>3, <3>4, MaxOfTwo
      <3> HIDE DEF start
      <3>6. start \in Nat /\ start <= Top /\ Top - start <= 4 * HeapMaxSize
        BY <1>2, <1>3, <3>2, <3>3, <3>5, Constants
      <3>7. start \in Addr /\ {start, Top} \subseteq s.start .. s.end - 1
        BY <1>2, <1>3, <3>2, <3>5, <3>6, Constants DEF Addr
      <3> QED
        BY <3>6, <3>7
    <2> QED
      BY <2>1, <2>2
  <1>6. heaps' = <<[address      |-> start,
                    size         |-> SaturatingSub(Top, start),
                    region_start |-> SkipZeroPadding(start, last),
                    region_end   |-> last]>>
    BY DEF MainHeap
  <1>7. problems' = IF Top < start THEN Append(problems, "HeapWalkTruncated") ELSE problems
    BY DEF MainHeap, Truncated
  <1> HIDE DEF start, last
  <1>8. /\ SaturatingSub(Top, start) \in Addr
        /\ SkipZeroPadding(start, last) \in Addr
    <2>1. SaturatingSub(Top, start) \in Addr
      BY <1>2, <1>5, Constants DEF SaturatingSub, Addr
    <2> QED
      BY <1>1, <1>3, <1>4, <1>5, <2>1, PaddingIsZero
  <1>9. heaps' \in Seq(Heap) /\ heaps' # <<>> /\ heaps'[1].address = start
    BY <1>4, <1>5, <1>6, <1>8 DEF Heap
  <1>10. problems' \in Seq({"HeapWalkTruncated"}) /\ (Top < start => problems' # <<>>)
    BY <1>1, <1>7
  <1>11. Top' = Top /\ SbrkBase' = SbrkBase /\ (Mapped(SbrkBase)' <=> Mapped(SbrkBase))
    BY <1>1 DEF Top, SbrkBase, Mapped, mem
  <1>12. start > Top => Top < start
    BY <1>2, <1>3, <1>5
  <1>13. MainGuessIsBounded'
    BY <1>1, <1>5, <1>9, <1>10, <1>11, <1>12 DEF MainGuessIsBounded
  <1> QED
    BY <1>1, <1>9, <1>10, <1>13

(* A heap listed behind the others keeps the listing.                      *)
LEMMA AddHeapSound ==
  ASSUME IInv, AddHeap,
         \/ Prev(current) = 0 /\ pc' = "done"
         \/ Prev(current) # 0 /\ pc' = "walk"
  PROVE  heaps' \in Seq(Heap) /\ heaps' # <<>> /\ Listings'
  <1> DEFINE n == Len(heaps)
  <1>1. /\ pc = "walk" /\ HasChain /\ problems = <<>> /\ problems' = <<>>
        /\ arena' = arena
        /\ InfoReadable(current) /\ ~ Overflows(current)
        /\ IsArena(arena) /\ current \in Addr /\ heaps \in Seq(Heap)
        /\ heaps' = Append(heaps, HeapOf(current))
    BY DEF AddHeap, InWalk, IInv, Phases, TypeOK, HeapOf
  <1>2. HeapOf(current) \in Heap /\ HeapOf(current).address = current
    BY <1>1, HeapOfTyped DEF HasChain, HeapOf
  <1>3. /\ heaps' \in Seq(Heap) /\ heaps' # <<>> /\ n \in Nat
        /\ DOMAIN heaps = 1 .. n /\ DOMAIN heaps' = 1 .. n + 1 /\ Len(heaps') = n + 1
        /\ heaps'[n + 1] = HeapOf(current)
        /\ \A i \in 1 .. n : heaps'[i] = heaps[i]
    BY <1>1, <1>2
  <1>4. \A a : /\ HeapOf(a)' = HeapOf(a) /\ Prev(a)' = Prev(a)
               /\ (InfoReadable(a)' <=> InfoReadable(a))
               /\ (Overflows(a)' <=> Overflows(a))
    BY <1>1, SameArena
  <1> HIDE DEF n
  <1>5. ASSUME NEW i \in DOMAIN heaps', ~ arena.main
        PROVE  /\ InfoReadable(heaps'[i].address)
               /\ ~ Overflows(heaps'[i].address)
               /\ heaps'[i] = HeapOf(heaps'[i].address)
               /\ Prev(heaps'[i].address) = 0 <=> IsOldest(i)'
    <2>1. CASE i = n + 1
      BY <1>1, <1>2, <1>3, <2>1 DEF IsOldest
    <2>2. CASE i # n + 1
      <3>1. i \in 1 .. n /\ heaps'[i] = heaps[i]
        BY <1>3, <2>2
      <3>2. ~ IsOldest(i) /\ ~ IsOldest(i)'
        BY <1>1, <1>3, <2>2 DEF IsOldest
      <3> QED
        BY <1>3, <1>5, <3>1, <3>2 DEF IInv, Listings
    <2> QED
      BY <2>1, <2>2
  <1> QED
    BY <1>1, <1>3, <1>4, <1>5 DEF Listings

(* The walk may be given up at any heap.                                   *)
LEMMA TruncatedSound ==
  ASSUME IInv, Truncated, UNCHANGED <<arena, current, heaps>>,
         \/ pc = "walk"
         \/ heaps = <<>>,
         pc' = "done"
  PROVE  IInv'
  <1>1. problems' \in Seq({"HeapWalkTruncated"}) /\ problems' # <<>>
    BY DEF Truncated, IInv, TypeOK
  <1>2. TypeOK'
    BY <1>1 DEF IInv, TypeOK
  <1>3. HasChain' <=> HasChain
    BY SameArena
  <1>4. Phases'
    BY <1>1, <1>3 DEF IInv, Phases
  <1>5. MainGuessIsBounded'
    BY DEF IInv, Phases, HasChain, MainGuessIsBounded
  <1>6. \A a : /\ HeapOf(a)' = HeapOf(a) /\ Prev(a)' = Prev(a)
               /\ (InfoReadable(a)' <=> InfoReadable(a))
               /\ (Overflows(a)' <=> Overflows(a))
    BY SameArena
  <1>7. Listings'
    <2>1. CASE heaps = <<>>
      BY <2>1 DEF Listings
    <2>2. CASE pc = "walk"
      <3>1. \A i : ~ IsOldest(i) /\ ~ IsOldest(i)'
        BY <1>1, <2>2 DEF IsOldest
      <3> QED
        BY <1>6, <3>1 DEF IInv, Listings
    <2> QED
      BY <2>1, <2>2
  <1> QED
    BY <1>2, <1>4, <1>5, <1>7 DEF IInv

LEMMA InitIInv == Init => IInv
  BY HeapListAssumption, Constants
     DEF Init, IInv, TypeOK, Phases, MainGuessIsBounded, Listings, Addr

LEMMA StepIInv == IInv /\ [Next]_vars => IInv'
  <1> SUFFICES ASSUME IInv, [Next]_vars PROVE IInv'
    OBVIOUS
  <1>1. CASE StartUnreadable
    BY <1>1 DEF StartUnreadable, IInv, TypeOK, Phases, MainGuessIsBounded, Listings
  <1>2. CASE EmptyArena
    <2>1. Unused' <=> Unused
      BY <1>2, SameArena DEF EmptyArena
    <2> QED
      BY <1>2, <2>1 DEF EmptyArena, StartRead, IInv, TypeOK, Phases,
                        MainGuessIsBounded, Listings
  <1>3. CASE MainUndeterminable
    BY <1>3, TruncatedSound DEF MainUndeterminable, StartRead, IInv, Phases
  <1>4. CASE MainHeap
    <2>1. arena.main /\ current' = current
      BY <1>4 DEF MainHeap
    <2> QED
      BY <1>4, <2>1, MainHeapSound DEF IInv, TypeOK, Phases, Listings
  <1>5. CASE StartChain
    <2>1. HasChain /\ TopHeap \in Addr
      BY <1>5, TopHeapTyped DEF StartChain, StartRead, Unused, HasChain, IInv, TypeOK
    <2>2. HasChain'
      BY <1>5, <2>1, SameArena DEF StartChain
    <2> QED
      BY <1>5, <2>1, <2>2 DEF StartChain, StartRead, IInv, TypeOK, Phases,
                              MainGuessIsBounded, Listings
  <1>6. CASE CapOrCycle \/ LaterInfoUnreadable \/ SizeOverflows
    BY <1>6, TruncatedSound DEF CapOrCycle, LaterInfoUnreadable, SizeOverflows, InWalk
  <1>7. CASE FirstInfoUnreadable
    BY <1>7 DEF FirstInfoUnreadable, InWalk, IInv, TypeOK, Phases,
                MainGuessIsBounded, Listings
  <1>8. CASE OldestHeap \/ OlderHeapFollows
    <2>1. /\ AddHeap
          /\ \/ Prev(current) = 0 /\ pc' = "done" /\ current' = current
             \/ Prev(current) # 0 /\ pc' = "walk" /\ current' = Prev(current)
      BY <1>8 DEF OldestHeap, OlderHeapFollows, AddHeap, InWalk
    <2>2. /\ pc = "walk" /\ HasChain /\ problems = <<>> /\ problems' = <<>>
          /\ arena' = arena /\ IsArena(arena) /\ InfoReadable(current)
      BY <2>1 DEF AddHeap, InWalk, IInv, Phases, TypeOK
    <2>3. heaps' \in Seq(Heap) /\ heaps' # <<>> /\ Listings'
      BY <2>1, AddHeapSound
    <2>4. Prev(current) \in Addr
      BY <2>2, InfoTyped
    <2>5. HasChain'
      BY <2>2, SameArena
    <2>6. ~ arena'.main
      BY <2>2 DEF HasChain
    <2> QED
      BY <2>1, <2>2, <2>3, <2>4, <2>5, <2>6
         DEF IInv, TypeOK, Phases, MainGuessIsBounded
  <1>9. CASE UNCHANGED vars
    <2>1. TypeOK'
      BY <1>9 DEF vars, IInv, TypeOK
    <2>2. Phases'
      BY <1>9, SameArena DEF vars, IInv, Phases
    <2>3. MainGuessIsBounded'
      BY <1>9 DEF vars, IInv, MainGuessIsBounded, Mapped, Top, SbrkBase, mem
    <2>4. Listings'
      BY <1>9, SameArena DEF vars, IInv, Listings, IsOldest
    <2> QED
      BY <2>1, <2>2, <2>3, <2>4 DEF IInv
  <1> QED
    BY <1>1, <1>2, <1>3, <1>4, <1>5, <1>6, <1>7, <1>8, <1>9 DEF Next

LEMMA InductiveInvariant == Spec => []IInv
  BY InitIInv, StepIInv, PTL DEF Spec

-----------------------------------------------------------------------------
(* What a caller of list may rely on.                                      *)

(* Types: sizes are words, and every region ends inside the address space. *)
THEOREM TypeCorrect == Spec => []TypeOK
  BY InductiveInvariant, PTL DEF IInv

(* No heaps and no problem means an arena that was never used, and a hard  *)
(* error is raised only while nothing has been found.                      *)
THEOREM NoHeapAlwaysExplained == Spec => []NoHeapIsExplained
  <1>1. IInv => NoHeapIsExplained
    BY DEF IInv, Phases, NoHeapIsExplained
  <1> QED
    BY <1>1, InductiveInvariant, PTL

LEMMA MetadataIsSkipped == IInv => RegionSkipsMetadataOnly
  <1> SUFFICES ASSUME IInv, ~ arena.main, NEW i \in DOMAIN heaps
               PROVE  LET heap     == heaps[i]
                          metadata == HeapInfoSize +
                                        (IF IsOldest(i) THEN MallocStateSize ELSE 0)
                      IN  /\ heap.region_end < AddrLimit
                          /\ /\ heap.address + metadata < AddrLimit
                             /\ heap.region_end + Word <= AddrLimit
                            =>
                            /\ heap.region_start >= heap.address + metadata
                            /\ \A a \in heap.address + metadata .. heap.region_start - 1 :
                                 (a - heap.address - metadata) % Word = 0 =>
                                   Readable(mem, a) /\ mem[a] = 0
    BY DEF RegionSkipsMetadataOnly
  <1> DEFINE heap == heaps[i]
             embedded == IF IsOldest(i) THEN MallocStateSize ELSE 0
             metadata == HeapInfoSize + embedded
             first == heap.address + metadata
  <1>1. /\ heap \in Heap /\ IsArena(arena) /\ HasChain
        /\ InfoReadable(heap.address) /\ ~ Overflows(heap.address)
        /\ heap = HeapOf(heap.address)
        /\ Prev(heap.address) = 0 <=> IsOldest(i)
    <2>1. heaps \in Seq(Heap) /\ heaps # <<>>
      BY DEF IInv, TypeOK
    <2> QED
      BY <2>1 DEF IInv, TypeOK, Phases, Listings
  <1>2. \A x \in Addr : x \in Nat /\ x < AddrLimit
    BY Constants DEF Addr
  <1>3. /\ heap.address \in Addr /\ heap.region_end \in Addr
        /\ HeapStart(heap.address) \in Addr /\ RegionEnd(heap.address) \in Addr
        /\ heap.region_end = RegionEnd(heap.address)
        /\ heap.region_start = SkipZeroPadding(HeapStart(heap.address), RegionEnd(heap.address))
    BY <1>1, HeapOfTyped DEF Heap, HeapOf, HasChain
  <1>4. embedded \in Nat /\ HeapInfoSize \in Nat /\ AddrLimit \in Nat
    BY <1>2, Constants
  <1>5. ASSUME first < AddrLimit PROVE HeapStart(heap.address) = first
    <2>1. HeapStart(heap.address)
            = WrappingAdd(WrappingAdd(heap.address, HeapInfoSize), embedded)
      BY <1>1 DEF HeapStart
    <2> DEFINE b == heap.address
    <2>a. b \in Nat
      BY <1>2, <1>3
    <2> HIDE DEF heap, embedded, b
    <2>2. first = b + (HeapInfoSize + embedded)
      BY DEF b
    <2>3. /\ b + HeapInfoSize \in Nat /\ b + HeapInfoSize < AddrLimit
          /\ (b + HeapInfoSize) + embedded = first
      BY <1>4, <1>5, <2>a, <2>2
    <2>4. WrappingAdd(WrappingAdd(b, HeapInfoSize), embedded) = first
      BY <1>4, <1>5, <2>a, <2>3, NoWrap
    <2> QED
      BY <2>1, <2>4 DEF b
  <1> HIDE DEF heap, embedded
  <1>6. ASSUME first < AddrLimit, heap.region_end + Word <= AddrLimit
        PROVE  /\ heap.region_start >= first
               /\ \A a \in first .. heap.region_start - 1 :
                    (a - heap.address - metadata) % Word = 0 =>
                      Readable(mem, a) /\ mem[a] = 0
    <2>1. first \in Nat /\ first \in Addr
      BY <1>2, <1>3, <1>4, <1>5, <1>6
    <2>2. heap.region_start = SkipZeroPadding(first, RegionEnd(heap.address))
      BY <1>3, <1>5, <1>6
    <2>3. /\ heap.region_start \in Nat /\ heap.region_start >= first
          /\ \A a \in first .. heap.region_start - 1 :
               (a - first) % Word = 0 => Readable(mem, a) /\ mem[a] = 0
      <3> DEFINE end == RegionEnd(heap.address)
      <3>1. end \in Addr /\ end + Word <= AddrLimit
        BY <1>3, <1>6
      <3> HIDE DEF end, first
      <3>2. /\ SkipZeroPadding(first, end) \in Addr
            /\ SkipZeroPadding(first, end) >= first
            /\ \A a \in first .. SkipZeroPadding(first, end) - 1 :
                 (a - first) % Word = 0 => Readable(mem, a) /\ mem[a] = 0
        BY <1>1, <2>1, <3>1, PaddingIsZero
      <3> QED
        BY <1>2, <2>2, <3>2 DEF end
    <2>4. \A a \in first .. heap.region_start - 1 : a - heap.address - metadata = a - first
      BY <1>2, <1>3, <1>4, <2>1, <2>3
    <2> QED
      BY <2>3, <2>4
  <1> QED
    BY <1>2, <1>3, <1>6 DEF heap, embedded

(* The regions handed to the chunk walk are sound: a guessed main heap is  *)
(* bounded, and of a secondary heap only metadata and zeros are left out.  *)
THEOREM RegionAlwaysSound == Spec => []RegionIsSound
  <1>1. IInv => RegionIsSound
    BY MetadataIsSkipped DEF IInv, RegionIsSound
  <1> QED
    BY <1>1, InductiveInvariant, PTL

-----------------------------------------------------------------------------
(* The refinement.  Without a chain the chase has nothing to follow and    *)
(* ends when the listing does; with one each step of the walk is a step of *)
(* the chase, and the start of it a stutter.                               *)

LEMMA ChainLinkTyped ==
  ASSUME IsArena(arena)
  PROVE  /\ DOMAIN ChainLink \subseteq Addr
         /\ \A a \in DOMAIN ChainLink :
              /\ ChainLink[a] = IF Prev(a) = 0 THEN AddrLimit ELSE Prev(a)
              /\ ChainLink[a] \in Addr \cup {AddrLimit}
         /\ \A a \in Addr : a \in DOMAIN ChainLink <=>
                              HasChain /\ InfoReadable(a) /\ ~ Overflows(a)
  <1>1. Candidates \subseteq Addr
    <2>1. ASSUME NEW a \in DOMAIN mem
          PROVE  (a + (AddrLimit - SizeOffset)) % AddrLimit \in Addr
      <3>1. a \in Addr
        BY DEF IsArena, IsMemory, mem
      <3>2. a \in Nat /\ AddrLimit - SizeOffset \in Nat
        BY <3>1, Constants DEF Addr
      <3> QED
        BY <3>2, WrapTyped DEF WrappingAdd
    <2> QED
      BY <2>1 DEF Candidates
  <1>2. DOMAIN ChainLink =
          {a \in Candidates : HasChain /\ InfoReadable(a) /\ ~ Overflows(a)}
    BY DEF ChainLink
  <1>3. \A a \in Addr : InfoReadable(a) => a \in Candidates
    BY IsCandidate DEF InfoReadable
  <1>4. \A a \in DOMAIN ChainLink :
          ChainLink[a] = IF Prev(a) = 0 THEN AddrLimit ELSE Prev(a)
    BY DEF ChainLink
  <1>5. \A a \in DOMAIN ChainLink : Prev(a) \in Addr
    BY <1>2, InfoTyped
  <1> QED
    BY <1>1, <1>2, <1>3, <1>4, <1>5

LEMMA InitRefines == Init => Chase!Init
  <1> SUFFICES ASSUME Init PROVE Chase!Init
    OBVIOUS
  <1>1. /\ IsArena(arena) /\ pc = "start" /\ heaps = <<>> /\ problems = <<>>
    BY HeapListAssumption DEF Init
  <1>2. ChainRoot \in Addr \cup {AddrLimit}
    BY <1>1, TopHeapTyped DEF ChainRoot, HasChain
  <1>3. ChainAt = ChainRoot /\ ChainPath = <<>> /\ ChainVerdict = "running"
    BY <1>1 DEF ChainAt, ChainRoot, ChainPath, ChainVerdict
  <1> QED
    BY <1>1, <1>2, <1>3, ChainLinkTyped DEF Chase!Init

(* A walk over a chain that goes on.                                       *)
LEMMA WalkFacts ==
  ASSUME IInv, pc = "walk"
  PROVE  /\ HasChain /\ problems = <<>> /\ current \in Addr
         /\ ChainAt = current /\ ChainVerdict = "running"
         /\ ChainPath = [i \in DOMAIN heaps |-> heaps[i].address]
         /\ Len(heaps) \in Nat /\ DOMAIN heaps = 1 .. Len(heaps)
         /\ Len(ChainPath) = Len(heaps)
         /\ Listed <=> current \in Chase!Range(ChainPath)
  <1>1. HasChain /\ problems = <<>> /\ current \in Addr /\ heaps \in Seq(Heap)
    BY DEF IInv, TypeOK, Phases
  <1>2. ChainAt = current /\ ChainVerdict = "running"
    BY <1>1 DEF ChainAt, ChainVerdict
  <1>3. ChainPath = [i \in DOMAIN heaps |-> heaps[i].address]
    BY <1>1 DEF ChainPath
  <1>4. Len(heaps) \in Nat /\ DOMAIN heaps = 1 .. Len(heaps)
    BY <1>1
  <1>5. Len(ChainPath) = Len(heaps)
    BY <1>3, <1>4
  <1>6. Listed <=> current \in Chase!Range(ChainPath)
    BY <1>3 DEF Listed, Chase!Range
  <1> QED
    BY <1>1, <1>2, <1>3, <1>4, <1>5, <1>6

LEMMA StepRefines ==
  ASSUME IInv, [Next]_vars
  PROVE  [Chase!Next]_(Chase!vars)
  <1>0. IsArena(arena) /\ arena' = arena
    BY DEF IInv, TypeOK, Next, vars, StartUnreadable, EmptyArena,
           MainUndeterminable, MainHeap, StartChain, CapOrCycle,
           FirstInfoUnreadable, LaterInfoUnreadable, SizeOverflows, OldestHeap,
           OlderHeapFollows, AddHeap
  <1>a. /\ ChainRoot' = ChainRoot /\ ChainLink' = ChainLink
        /\ HasChain' <=> HasChain
    <2>1. Candidates' = Candidates
      BY <1>0 DEF Candidates, mem
    <2> QED
      BY <1>0, <2>1, SameArena DEF ChainRoot, ChainLink
  <1>1. ASSUME pc = "start", Next, ~ HasChain
        PROVE  [Chase!Next]_(Chase!vars)
    <2>1. /\ ChainAt = AddrLimit /\ ChainAt' = AddrLimit
          /\ ChainPath = <<>> /\ ChainPath' = <<>> /\ ChainVerdict = "running"
      BY <1>1, <1>a DEF ChainAt, ChainPath, ChainVerdict
    <2>2. CASE pc' = "done"
      <3>1. ChainVerdict' = "clean"
        BY <1>1, <1>a, <2>2 DEF ChainVerdict
      <3>2. Chase!Finish
        BY <1>a, <2>1, <3>1 DEF Chase!Finish
      <3> QED
        BY <3>2 DEF Chase!Next
    <2>3. CASE pc' # "done"
      <3>1. ChainVerdict' = "running"
        BY <1>1, <1>a, <2>3 DEF ChainVerdict
      <3> QED
        BY <1>a, <2>1, <3>1 DEF Chase!vars
    <2> QED
      BY <2>2, <2>3
  <1>2. ASSUME pc = "start", Next, HasChain
        PROVE  [Chase!Next]_(Chase!vars)
    <2>1. StartChain
      BY <1>2 DEF Next, HasChain, StartUnreadable, EmptyArena, Unused,
                  MainUndeterminable, MainHeap, CapOrCycle, FirstInfoUnreadable,
                  LaterInfoUnreadable, SizeOverflows, OldestHeap,
                  OlderHeapFollows, AddHeap, InWalk
    <2>2. /\ problems = <<>> /\ problems' = <<>> /\ heaps' = heaps
          /\ pc' = "walk" /\ current' = TopHeap
      BY <1>2, <2>1 DEF StartChain, IInv, Phases
    <2>3. /\ ChainAt' = ChainAt /\ ChainPath' = ChainPath
          /\ ChainVerdict' = ChainVerdict
      BY <1>2, <1>a, <2>2 DEF ChainAt, ChainPath, ChainVerdict
    <2> QED
      BY <1>a, <2>3 DEF Chase!vars
  <1>3. ASSUME pc = "walk", pc' \in {"done", "failed"}, heaps' = heaps,
               current' = current, pc' = "done" => problems' # <<>>,
               \/ Len(heaps) >= MaxHeaps \/ Listed
               \/ current \notin DOMAIN ChainLink
        PROVE  [Chase!Next]_(Chase!vars)
    <2>1. /\ ChainAt' = ChainAt /\ ChainPath' = ChainPath
          /\ ChainVerdict = "running" /\ ChainVerdict' = "broken"
      BY <1>3, <1>a, WalkFacts DEF ChainAt, ChainPath, ChainVerdict
    <2>2. Chase!GiveUp
      BY <1>3, <1>a, <2>1, WalkFacts, Zenon DEF Chase!GiveUp
    <2> QED
      BY <2>2 DEF Chase!Next
  <1>4. ASSUME Truncated PROVE problems' # <<>>
    BY <1>4 DEF Truncated, IInv, TypeOK
  <1>5. ASSUME InWalk, ~ InfoReadable(current) \/ Overflows(current)
        PROVE  current \notin DOMAIN ChainLink
    BY <1>0, <1>5, ChainLinkTyped DEF InWalk, IInv, TypeOK
  <1>6. CASE CapOrCycle \/ FirstInfoUnreadable \/ LaterInfoUnreadable \/ SizeOverflows
    BY <1>3, <1>4, <1>5, <1>6
       DEF CapOrCycle, FirstInfoUnreadable, LaterInfoUnreadable, SizeOverflows, InWalk
  <1>7. CASE OldestHeap \/ OlderHeapFollows
    <2>1. /\ AddHeap /\ pc = "walk" /\ ~ Listed /\ Len(heaps) < MaxHeaps
          /\ InfoReadable(current) /\ ~ Overflows(current)
          /\ \/ Prev(current) = 0 /\ pc' = "done"
             \/ Prev(current) # 0 /\ pc' = "walk" /\ current' = Prev(current)
      BY <1>7 DEF OldestHeap, OlderHeapFollows, AddHeap, InWalk
    <2>2. /\ HasChain /\ problems = <<>> /\ problems' = <<>> /\ current \in Addr
          /\ ChainAt = current /\ ChainVerdict = "running"
      BY <2>1, WalkFacts DEF AddHeap
    <2>3. current \in DOMAIN ChainLink
      BY <1>0, <2>1, <2>2, ChainLinkTyped
    <2>4. /\ ChainAt' = ChainLink[current]
          /\ \/ ChainVerdict' = "running"
             \/ ChainAt' = AddrLimit /\ ChainVerdict' = "clean"
      <3>1. ChainLink[current] = IF Prev(current) = 0 THEN AddrLimit ELSE Prev(current)
        BY <1>0, <2>3, ChainLinkTyped
      <3> QED
        BY <1>a, <2>1, <2>2, <3>1 DEF ChainAt, ChainVerdict
    <2>5. ChainPath' = Append(ChainPath, current)
      <3> DEFINE n == Len(heaps)
      <3>1. /\ heaps \in Seq(Heap) /\ HeapOf(current) \in Heap
            /\ HeapOf(current).address = current
            /\ heaps' = Append(heaps, HeapOf(current))
        BY <1>0, <2>1, <2>2, HeapOfTyped
           DEF IInv, TypeOK, HasChain, HeapOf, AddHeap
      <3>2. /\ n \in Nat /\ DOMAIN heaps = 1 .. n /\ DOMAIN heaps' = 1 .. n + 1
            /\ heaps'[n + 1] = HeapOf(current)
            /\ \A i \in 1 .. n : heaps'[i] = heaps[i] /\ heaps[i] \in Heap
        BY <3>1
      <3>3. ChainPath = [i \in 1 .. n |-> heaps[i].address]
        BY <2>2, <3>2 DEF ChainPath
      <3>4. ChainPath' = [i \in 1 .. n + 1 |-> heaps'[i].address]
        BY <1>a, <2>2, <3>2 DEF ChainPath
      <3> HIDE DEF n
      <3>5. \A i \in 1 .. n : heaps[i].address \in Addr
        BY <3>1, <3>2 DEF Heap
      <3>6. ChainPath \in Seq(Addr) /\ Len(ChainPath) = n
        BY <3>2, <3>3, <3>5
      <3>7. /\ Append(ChainPath, current) \in Seq(Addr)
            /\ Len(Append(ChainPath, current)) = n + 1
            /\ \A i \in 1 .. n + 1 : Append(ChainPath, current)[i]
                                     = IF i = n + 1 THEN current ELSE ChainPath[i]
        BY <2>2, <3>2, <3>6
      <3>8. /\ ChainPath' \in Seq(Addr) /\ Len(ChainPath') = n + 1
            /\ \A i \in 1 .. n + 1 : ChainPath'[i]
                                     = IF i = n + 1 THEN current ELSE ChainPath[i]
        <4>1. \A i \in 1 .. n + 1 :
                heaps'[i].address = IF i = n + 1 THEN current ELSE ChainPath[i]
          BY <3>1, <3>2, <3>3
        <4>2. \A i \in 1 .. n + 1 : heaps'[i].address \in Addr
          BY <2>2, <3>2, <3>3, <3>5, <4>1
        <4> QED
          BY <3>2, <3>4, <4>1, <4>2
      <3> QED
        BY <3>2, <3>7, <3>8
    <2>6. Chase!Fresh
      BY <2>1, <2>2, WalkFacts DEF Chase!Fresh
    <2>7. Chase!Visit
      BY <1>a, <2>2, <2>3, <2>4, <2>5, <2>6 DEF Chase!Visit
    <2> QED
      BY <2>7 DEF Chase!Next
  <1>8. CASE UNCHANGED vars
    <2>1. ChainPath' = ChainPath
      BY <1>8, <1>a DEF vars, ChainPath
    <2>2. ChainAt' = ChainAt /\ ChainVerdict' = ChainVerdict
      <3>1. TopHeap' = TopHeap
        BY <1>0, SameArena
      <3> QED
        BY <1>8, <1>a, <3>1 DEF vars, ChainAt, ChainVerdict
    <2> QED
      BY <1>a, <2>1, <2>2 DEF Chase!vars
  <1>9. ASSUME Next PROVE pc \in {"start", "walk"}
    BY <1>9 DEF Next, StartUnreadable, EmptyArena, StartRead, MainUndeterminable,
                MainHeap, StartChain, CapOrCycle, FirstInfoUnreadable,
                LaterInfoUnreadable, SizeOverflows, OldestHeap, OlderHeapFollows,
                AddHeap, InWalk
  <1>10. ASSUME Next, pc = "walk"
         PROVE  \/ CapOrCycle \/ FirstInfoUnreadable \/ LaterInfoUnreadable
                \/ SizeOverflows \/ OldestHeap \/ OlderHeapFollows
    BY <1>10 DEF Next, StartUnreadable, EmptyArena, StartRead, MainUndeterminable,
                 MainHeap, StartChain
  <1> QED
    BY <1>1, <1>2, <1>6, <1>7, <1>8, <1>9, <1>10

(* Listing the heaps of an arena is a pointer chase from the heap that     *)
(* holds top along prev.                                                   *)
THEOREM HeapListIsChase == Spec => IsPointerChase
  BY InductiveInvariant, InitRefines, StepRefines, PTL
     DEF Spec, IsPointerChase, Chase!Spec

-----------------------------------------------------------------------------
(* The walk over the arena.                                                *)

(* The walks over the regions leave the list as it is: what is proved of   *)
(* the listing holds for the whole of the arena's walk.                    *)
THEOREM ArenaWalkListsHeaps == ArenaSpec => Spec
  <1>1. ArenaInit => Init
    BY DEF ArenaInit
  <1>2. [ArenaNext]_allVars => [Next]_vars
    BY DEF ArenaNext, allVars, List, WalkHeap, WalkStep, CollectHeap
  <1> QED
    BY <1>1, <1>2, PTL DEF ArenaSpec, Spec

(* The two above, of the walk as it is run.                                *)
COROLLARY ArenaRegionsSound == ArenaSpec => [](NoHeapIsExplained /\ RegionIsSound)
  BY ArenaWalkListsHeaps, NoHeapAlwaysExplained, RegionAlwaysSound, PTL

(* So is the chase.                                                        *)
COROLLARY ArenaListIsChase == ArenaSpec => IsPointerChase
  BY ArenaWalkListsHeaps, HeapListIsChase, PTL

-----------------------------------------------------------------------------
(* No byte twice.                                                          *)

WP == INSTANCE ChunkWalkProofs WITH
  Regions <- {}, pc <- at, problems <- damage

(* The walk proved about is the walk that is run.                          *)
LEMMA SameWalk == W!Next => WP!Next
  BY DEF W!Next, WP!Next, W!RejectRegion, WP!RejectRegion, W!EmptyRegion,
         WP!EmptyRegion, W!FirstUnreadable, WP!FirstUnreadable, W!ReadFirst,
         WP!ReadFirst, W!EndOfRegion, WP!EndOfRegion, W!TruncateAtChunk,
         WP!TruncateAtChunk, W!NextUnreadable, WP!NextUnreadable,
         W!StopAtBridge, WP!StopAtBridge, W!EmitChunk, WP!EmitChunk, W!Advance,
         WP!Advance, W!InLoop, WP!InLoop, W!BadChunk, WP!BadChunk, W!Report,
         WP!Report, W!Full, WP!Full, W!NextCursor, WP!NextCursor, W!IsBridge,
         WP!IsBridge, W!ChunkEvent, WP!ChunkEvent, W!Readable, WP!Readable,
         W!ChunkSize, WP!ChunkSize, W!AddOverflows, WP!AddOverflows,
         W!PrevInuse, WP!PrevInuse, W!NonMainArena, WP!NonMainArena,
         W!PREV_INUSE, WP!PREV_INUSE

LEMMA WalkAssumptions ==
  /\ AddrLimit \in Nat \ {0}
  /\ Word \in Nat \ {0}
  /\ Header \in 0 .. 2 * Word
  /\ Alignment \in Nat \ {0}
  /\ MaxChunks \in Nat
  /\ \A r \in {} : WP!IsRegion(r)
  BY AddrLimitAssumption, HeapListAssumption, ArenaWalkAssumption

LEMMA WalkStepKeeps ==
  ASSUME WP!IInv, WP!InOrder, W!Next \/ UNCHANGED WP!vars
  PROVE  WP!IInv' /\ WP!InOrder'
  <1>1. [WP!Next]_(WP!vars)
    BY SameWalk
  <1>2. WP!IInv'
    BY <1>1, WP!StepIInv, WalkAssumptions
  <1>3. WP!InOrder'
    BY <1>1, WP!StepInOrder, WalkAssumptions
  <1> QED
    BY <1>2, <1>3

(* No heap is listed twice, and a main arena has no more than one.         *)
Distinct ==
  /\ \A i, j \in DOMAIN heaps : heaps[i].address = heaps[j].address => i = j
  /\ arena.main => \A i, j \in DOMAIN heaps : i = j

LEMMA StepDistinct == IInv /\ Distinct /\ [Next]_vars => Distinct'
  <1> SUFFICES ASSUME IInv, Distinct, [Next]_vars PROVE Distinct'
    OBVIOUS
  <1>a. arena' = arena
    BY DEF Next, vars, StartUnreadable, EmptyArena, MainUndeterminable, MainHeap,
           StartChain, CapOrCycle, FirstInfoUnreadable, LaterInfoUnreadable,
           SizeOverflows, AddHeap, OldestHeap, OlderHeapFollows
  <1>1. CASE heaps' = heaps
    BY <1>a, <1>1 DEF Distinct
  <1>2. CASE MainHeap
    <2>1. DOMAIN heaps' = 1 .. 1
      BY <1>2 DEF MainHeap
    <2> QED
      BY <2>1 DEF Distinct
  <1>3. CASE AddHeap
    <2> DEFINE n == Len(heaps)
    <2>1. /\ heaps \in Seq(Heap) /\ ~ Listed
          /\ heaps' = Append(heaps, HeapOf(current))
          /\ HeapOf(current).address = current
      BY <1>3 DEF AddHeap, InWalk, IInv, TypeOK, HeapOf
    <2>2. /\ n \in Nat /\ DOMAIN heaps = 1 .. n /\ DOMAIN heaps' = 1 .. n + 1
          /\ heaps'[n + 1].address = current
          /\ \A i \in 1 .. n : heaps'[i] = heaps[i]
      <3>1. HeapOf(current) \in Heap
        BY <1>3, HeapOfTyped DEF AddHeap, InWalk, IInv, TypeOK, Phases, HasChain
      <3> QED
        BY <2>1, <3>1
    <2>3. ~ arena'.main
      BY <1>a, <1>3 DEF AddHeap, InWalk, IInv, Phases, HasChain
    <2> QED
      BY <2>1, <2>2, <2>3 DEF Distinct, Listed
  <1> QED
    BY <1>1, <1>2, <1>3
       DEF Next, vars, StartUnreadable, EmptyArena, MainUndeterminable, StartChain,
           CapOrCycle, FirstInfoUnreadable, LaterInfoUnreadable, SizeOverflows,
           OldestHeap, OlderHeapFollows

(* A region stays within heap_max_size of its heap, the header excluded.   *)
LEMMA RegionBounds ==
  ASSUME IInv, HeapsInPlace, ~ arena.main, NEW i \in DOMAIN heaps
  PROVE  /\ heaps[i] \in Heap
         /\ heaps[i].address + HeapInfoSize <= heaps[i].region_start
         /\ heaps[i].region_end <= heaps[i].address + HeapMaxSize + HeapInfoSize
  <1> DEFINE heap == heaps[i]
             a == heap.address
  <1>1. /\ heap \in Heap /\ IsArena(arena) /\ HasChain
        /\ InfoReadable(a) /\ ~ Overflows(a) /\ heap = HeapOf(a)
    BY DEF IInv, TypeOK, Listings, Phases, HeapsInPlace
  <1>2. \A x \in Addr : x \in Nat /\ x < AddrLimit
    BY Constants DEF Addr
  <1>3. /\ a \in Addr /\ HeapStart(a) \in Addr /\ RegionEnd(a) \in Addr
        /\ heap.region_end = RegionEnd(a) /\ heap.size = Size(a)
        /\ heap.region_start = SkipZeroPadding(HeapStart(a), RegionEnd(a))
        /\ heap.region_start \in Addr
    BY <1>1, HeapOfTyped DEF Heap, HeapOf, HasChain
  <1>4. /\ a + HeapInfoSize + MallocStateSize < AddrLimit
        /\ RegionEnd(a) + Word <= AddrLimit /\ Size(a) <= HeapMaxSize
    BY <1>3 DEF HeapsInPlace
  <1>5. /\ HeapInfoSize \in Nat /\ MallocStateSize \in Nat /\ Word \in Nat
        /\ Word <= HeapInfoSize /\ HeapMaxSize \in Nat \ {0}
    BY <1>2, Constants
  <1>6. Size(a) \in Addr /\ Top \in Addr
    BY <1>1, InfoTyped, TopHeapTyped DEF HasChain
  <1> HIDE DEF a
  <1>7. a + HeapInfoSize <= HeapStart(a)
    <2>a. /\ a \in Nat /\ a + HeapInfoSize \in Nat /\ AddrLimit \in Nat
          /\ a + HeapInfoSize < AddrLimit
      <3>1. a \in Nat /\ AddrLimit \in Nat
        BY <1>2, <1>3, Constants
      <3>2. /\ HeapInfoSize \in Nat /\ MallocStateSize \in Nat
            /\ a + HeapInfoSize + MallocStateSize < AddrLimit
        BY <1>4, <1>5
      <3> QED
        BY <3>1, <3>2
    <2>1. WrappingAdd(a, HeapInfoSize) = a + HeapInfoSize
      BY <1>5, <2>a, NoWrap
    <2> DEFINE embedded == IF Prev(a) = 0 THEN MallocStateSize ELSE 0
    <2>2. embedded \in Nat /\ (a + HeapInfoSize) + embedded < AddrLimit
      <3>1. CASE Prev(a) = 0
        BY <1>4, <1>5, <3>1
      <3>2. CASE Prev(a) # 0
        BY <2>a, <3>2
      <3> QED
        BY <3>1, <3>2
    <2>3. HeapStart(a) = WrappingAdd(a + HeapInfoSize, embedded)
      BY <2>1 DEF HeapStart
    <2> HIDE DEF embedded
    <2>4. HeapStart(a) = (a + HeapInfoSize) + embedded
      BY <2>a, <2>2, <2>3, NoWrap
    <2> QED
      BY <2>a, <2>2, <2>4
  <1>8. HeapStart(a) <= heap.region_start
    BY <1>1, <1>3, <1>4, PaddingIsZero
  <1>9. RegionEnd(a) <= a + HeapMaxSize + HeapInfoSize
    <2>1. CASE a = TopHeap
      <3>1. Top % HeapMaxSize \in 0 .. HeapMaxSize - 1
        BY <1>2, <1>5, <1>6, Division
      <3>2. Top < a + HeapMaxSize
        BY <1>2, <1>3, <1>5, <1>6, <2>1, <3>1 DEF TopHeap, ToHeapStart
      <3>3. WrappingAdd(Top, Word) <= Top + Word
        <4>1. Top + Word \in Nat /\ AddrLimit \in Nat \ {0}
          BY <1>2, <1>5, <1>6, Constants
        <4> QED
          BY <4>1, Modulo DEF WrappingAdd
      <3>4. RegionEnd(a) = WrappingAdd(Top, Word)
        BY <2>1 DEF RegionEnd
      <3> QED
        BY <1>2, <1>3, <1>5, <1>6, <3>2, <3>3, <3>4
    <2>2. CASE a # TopHeap
      BY <1>2, <1>3, <1>4, <1>5, <1>6, <2>2 DEF RegionEnd
    <2> QED
      BY <2>1, <2>2
  <1> QED
    BY <1>1, <1>2, <1>3, <1>5, <1>7, <1>8, <1>9 DEF a

(* A chunk of a heap.                                                      *)
Inside(e, heap) ==
  heap.region_start <= e.size_field_addr /\ W!EndOf(e) <= heap.region_end

LEMMA RegionsApart ==
  ASSUME IInv, Distinct, HeapsInPlace,
         NEW i \in DOMAIN heaps, NEW j \in DOMAIN heaps, i # j,
         NEW e \in W!Events, NEW f \in W!Events,
         Inside(e, heaps[i]), Inside(f, heaps[j])
  PROVE  Before(e, f) \/ Before(f, e)
  <1> DEFINE a == heaps[i].address
             b == heaps[j].address
             M == HeapMaxSize
             x == a \div M
             y == b \div M
  <1>1. /\ a + HeapInfoSize <= heaps[i].region_start
        /\ heaps[i].region_end <= a + M + HeapInfoSize
        /\ b + HeapInfoSize <= heaps[j].region_start
        /\ heaps[j].region_end <= b + M + HeapInfoSize
        /\ heaps[i] \in Heap /\ heaps[j] \in Heap /\ ~ arena.main
    <2>1. ~ arena.main
      BY DEF Distinct
    <2> QED
      BY <2>1, RegionBounds
  <1>2. \A n \in Addr : n \in Nat
    BY Constants DEF Addr
  <1>3. /\ a \in Nat /\ b \in Nat /\ HeapInfoSize \in Nat /\ M \in Nat \ {0}
        /\ heaps[i].region_start \in Nat /\ heaps[i].region_end \in Nat
        /\ heaps[j].region_start \in Nat /\ heaps[j].region_end \in Nat
        /\ a % M = 0 /\ b % M = 0 /\ a # b
    BY <1>1, <1>2, Constants DEF Heap, Distinct, HeapsInPlace
  <1>4. /\ W!EndOf(e) \in Nat /\ e.size_field_addr \in Nat
        /\ W!EndOf(f) \in Nat /\ f.size_field_addr \in Nat
    BY <1>2 DEF W!EndOf, W!Events, W!Addr, Addr
  <1>5. x \in Nat /\ a = x * M /\ y \in Nat /\ b = y * M
    BY <1>3, Multiple
  <1> HIDE DEF a, b, x, y
  <1>6. CASE x < y
    <2>1. a + M <= b
      <3>1. y = (x + 1) + (y - (x + 1)) /\ y - (x + 1) \in Nat
        BY <1>5, <1>6
      <3>2. y * M = ((x * M) + M) + ((y - (x + 1)) * M) /\ (y - (x + 1)) * M \in Nat
        BY <1>3, <1>5, <3>1
      <3> QED
        BY <1>3, <1>5, <3>2
    <2> QED
      BY <1>1, <1>3, <1>4, <2>1 DEF Inside, Before
  <1>7. CASE y < x
    <2>1. b + M <= a
      <3>1. x = (y + 1) + (x - (y + 1)) /\ x - (y + 1) \in Nat
        BY <1>5, <1>7
      <3>2. x * M = ((y * M) + M) + ((x - (y + 1)) * M) /\ (x - (y + 1)) * M \in Nat
        BY <1>3, <1>5, <3>1
      <3> QED
        BY <1>3, <1>5, <3>2
    <2> QED
      BY <1>1, <1>3, <1>4, <2>1 DEF Inside, Before
  <1> QED
    BY <1>3, <1>5, <1>6, <1>7

-----------------------------------------------------------------------------
(* The invariant of the walk over an arena: every chunk collected lies in  *)
(* the region of a heap whose walk is over, and a walk that is going on    *)
(* satisfies the invariant of ChunkWalk over the region of heap h.         *)

Over == IF at = "idle" THEN h ELSE h - 1

NoWalk == events = <<>> /\ damage = <<>> /\ header = 0 /\ seen = 0

WalkState ==
  /\ pc # "done" => h = 0 /\ at = "idle" /\ chunks = <<>>
  /\ at = "idle" => NoWalk
  /\ at # "idle" => h >= 1 /\ region = RegionOf(h) /\ WP!IInv /\ WP!InOrder

ChunksPlaced ==
  /\ \A i \in DOMAIN chunks : \E j \in 1 .. Over : Inside(chunks[i], heaps[j])
  /\ HeapsInPlace => Apart(chunks)

ArenaIInv == IInv /\ Distinct /\ ArenaTypeOK /\ WalkState /\ ChunksPlaced

(* Types of one walk, in the terms of the arena.                           *)
LEMMA WalkTyped ==
  ASSUME WP!TypeOK
  PROVE  /\ at \in {"start", "walk", "done"}
         /\ W!IsRegion(region)
         /\ cursor \in Addr /\ header \in Addr /\ seen \in 0 .. MaxChunks + 1
         /\ events \in Seq(W!Events) /\ damage \in Seq(W!ProblemKinds)
  BY DEF WP!TypeOK, WP!IsRegion, W!IsRegion, WP!IsMemory, W!IsMemory, WP!Addr,
         W!Addr, Addr, WP!Events, W!Events, WP!ProblemKinds, W!ProblemKinds

LEMMA WalkBegins ==
  ASSUME ArenaIInv, NEW i \in DOMAIN heaps
  PROVE  WP!IsRegion(RegionOf(i)) /\ RegionOf(i).start \in Addr
  <1>1. heaps[i] \in Heap /\ IsArena(arena)
    BY DEF ArenaIInv, IInv, TypeOK
  <1> QED
    BY <1>1 DEF WP!IsRegion, WP!IsMemory, WP!Addr, IsArena, IsMemory, Addr, RegionOf,
                mem, Heap

(* The events of the walk that is going on are inside heap h.              *)
LEMMA EventsPlaced ==
  ASSUME ArenaIInv
  PROVE  /\ chunks \in Seq(W!Events) /\ events \in Seq(W!Events)
         /\ \A i \in DOMAIN events :
              at # "idle" /\ h \in DOMAIN heaps /\ Inside(events[i], heaps[h])
         /\ \A i, j \in DOMAIN events : i < j => Before(events[i], events[j])
  <1>1. chunks \in Seq(W!Events) /\ events \in Seq(W!Events)
    BY DEF ArenaIInv, ArenaTypeOK
  <1>2. CASE at = "idle"
    BY <1>1, <1>2 DEF ArenaIInv, WalkState, NoWalk
  <1>3. CASE at # "idle"
    <2>1. /\ WP!InOrder /\ WP!IInv /\ region = RegionOf(h)
          /\ h \in DOMAIN heaps
      BY <1>3 DEF ArenaIInv, ArenaTypeOK, WalkState, IInv, TypeOK
    <2>2. ASSUME NEW i \in DOMAIN events PROVE Inside(events[i], heaps[h])
      <3> DEFINE e == events[i]
      <3>1. /\ region.start <= e.size_field_addr
            /\ e.size_field_addr + e.full_size <= WP!Covered
            /\ WP!Covered <= region.end
        BY <2>1 DEF WP!InOrder, WP!EndOf
      <3>2. e \in W!Events /\ e = events[i]
        BY <1>1
      <3> HIDE DEF e
      <3>3. /\ region.start \in Nat /\ region.end \in Nat
            /\ e.size_field_addr + e.full_size \in Nat
        <4>1. region.start \in Addr /\ region.end \in Addr
          BY <2>1, WalkTyped DEF WP!IInv, W!IsRegion, W!Addr, Addr
        <4>2. \A x \in W!Addr : x \in Nat
          BY Constants DEF W!Addr
        <4> QED
          BY <3>2, <4>1, <4>2 DEF W!Events, W!Addr, Addr
      <3>4. WP!Covered \in Nat
        <4>1. events # <<>> /\ Len(events) \in DOMAIN events
          BY <1>1, <2>2
        <4>2. events[Len(events)] \in W!Events
          BY <1>1, <4>1
        <4>3. \A x \in W!Addr : x \in Nat
          BY Constants DEF W!Addr
        <4> QED
          BY <4>1, <4>2, <4>3 DEF WP!Covered, WP!EndOf, W!Events
      <3>5. e.size_field_addr + e.full_size <= region.end
        BY <3>1, <3>3, <3>4
      <3> QED
        BY <2>1, <3>1, <3>2, <3>5 DEF Inside, W!EndOf, RegionOf
    <2>3. \A i, j \in DOMAIN events : i < j => Before(events[i], events[j])
      BY <2>1 DEF WP!InOrder, WP!EndOf, W!EndOf, Before
    <2> QED
      BY <1>1, <1>3, <2>1, <2>2, <2>3
  <1> QED
    BY <1>2, <1>3

LEMMA ApartTogether ==
  ASSUME ArenaIInv, HeapsInPlace
  PROVE  Apart(chunks \o events)
  <1> DEFINE n == Len(chunks)
             all == chunks \o events
  <1>1. /\ chunks \in Seq(W!Events) /\ events \in Seq(W!Events)
        /\ IInv /\ Distinct /\ ChunksPlaced /\ ArenaTypeOK
    BY EventsPlaced DEF ArenaIInv
  <1>2. /\ n \in Nat /\ DOMAIN chunks = 1 .. n
        /\ \A i \in DOMAIN all : \/ i \in 1 .. n /\ all[i] = chunks[i]
                                 \/ /\ i \notin 1 .. n /\ i - n \in DOMAIN events
                                    /\ all[i] = events[i - n] /\ i \in Nat
        /\ DOMAIN events = 1 .. Len(events) /\ Len(events) \in Nat
    BY <1>1
  <1>3. ASSUME NEW i \in DOMAIN chunks, NEW j \in DOMAIN events
        PROVE  Before(chunks[i], events[j]) \/ Before(events[j], chunks[i])
    <2>1. at # "idle" /\ h \in DOMAIN heaps /\ Inside(events[j], heaps[h])
      BY EventsPlaced
    <2>2. PICK k \in 1 .. h - 1 : Inside(chunks[i], heaps[k])
      BY <1>1, <2>1 DEF ChunksPlaced, Over
    <2>3. k \in DOMAIN heaps /\ k # h
      BY <1>1, <2>1, <2>2 DEF IInv, TypeOK
    <2>4. chunks[i] \in W!Events /\ events[j] \in W!Events
      BY <1>1
    <2> QED
      BY <1>1, <2>1, <2>2, <2>3, <2>4, RegionsApart
  <1> HIDE DEF n, all
  <1>4. ASSUME NEW i \in DOMAIN all, NEW j \in DOMAIN all, i # j
        PROVE  Before(all[i], all[j]) \/ Before(all[j], all[i])
    <2>1. CASE i \in 1 .. n /\ j \in 1 .. n
      BY <1>1, <1>2, <1>4, <2>1 DEF ChunksPlaced, Apart
    <2>2. CASE i \in 1 .. n /\ j \notin 1 .. n
      BY <1>2, <1>3, <2>2
    <2>3. CASE i \notin 1 .. n /\ j \in 1 .. n
      BY <1>2, <1>3, <2>3
    <2>4. CASE i \notin 1 .. n /\ j \notin 1 .. n
      <3>1. i - n \in 1 .. Len(events) /\ j - n \in 1 .. Len(events) /\ i - n # j - n
        BY <1>2, <1>4, <2>4
      <3>2. i - n < j - n \/ j - n < i - n
        BY <1>2, <3>1
      <3> QED
        BY <1>2, <2>4, <3>1, <3>2, EventsPlaced
    <2> QED
      BY <2>1, <2>2, <2>3, <2>4
  <1> QED
    BY <1>4 DEF Apart, all

LEMMA WalkStarts == WP!Starting => WP!IInv /\ WP!InOrder
  <1>1. WP!Starting => WP!IInv
    BY WP!StartIInv, WalkAssumptions
  <1>2. WP!Starting => WP!InOrder
    BY WP!StartInOrder, WalkAssumptions
  <1> QED
    BY <1>1, <1>2

LEMMA InitArenaIInv == ArenaInit => ArenaIInv
  <1> SUFFICES ASSUME ArenaInit PROVE ArenaIInv
    OBVIOUS
  <1>1. IInv /\ heaps = <<>> /\ pc = "start"
    BY InitIInv DEF ArenaInit, Init
  <1>2. ArenaTypeOK
    BY <1>1, Constants, ArenaWalkAssumption
       DEF ArenaInit, ArenaTypeOK, IInv, NoRegion, W!IsRegion, W!IsMemory, W!Addr, Addr
  <1> QED
    BY <1>1, <1>2
       DEF ArenaInit, ArenaIInv, Distinct, WalkState, NoWalk, ChunksPlaced, Apart

LEMMA ListKeeps == ArenaIInv /\ List => ArenaIInv'
  <1> SUFFICES ASSUME ArenaIInv, List PROVE ArenaIInv'
    OBVIOUS
  <1>1. Next /\ UNCHANGED walkVars /\ IInv /\ Distinct
    BY DEF List, ArenaIInv
  <1>2. IInv' /\ Distinct'
    BY <1>1, StepIInv, StepDistinct
  <1>3. pc # "done"
    BY <1>1 DEF Next, StartUnreadable, EmptyArena, StartRead, MainUndeterminable,
                MainHeap, StartChain, CapOrCycle, FirstInfoUnreadable,
                LaterInfoUnreadable, SizeOverflows, OldestHeap, OlderHeapFollows,
                AddHeap, InWalk
  <1>4. /\ h = 0 /\ at = "idle" /\ chunks = <<>> /\ h' = 0 /\ at' = "idle"
        /\ chunks' = <<>>
    BY <1>1, <1>3 DEF ArenaIInv, WalkState, walkVars
  <1>5. ArenaTypeOK'
    <2>1. heaps' \in Seq(Heap)' /\ TypeOK'
      BY <1>2 DEF IInv, TypeOK
    <2>2. h' \in 0 .. Len(heaps')
      BY <1>4, <2>1
    <2> QED
      BY <1>1, <2>1, <2>2 DEF ArenaIInv, ArenaTypeOK, walkVars
  <1>6. WalkState' /\ ChunksPlaced'
    BY <1>1, <1>4 DEF WalkState, ArenaIInv, NoWalk, ChunksPlaced, Apart, walkVars
  <1> QED
    BY <1>2, <1>5, <1>6 DEF ArenaIInv

(* What the steps of the walks leave alone.                                *)
LEMMA ListUntouched ==
  ASSUME ArenaIInv, UNCHANGED vars
  PROVE  /\ IInv' /\ Distinct' /\ TypeOK' /\ (HeapsInPlace' <=> HeapsInPlace)
         /\ \A i : RegionOf(i)' = RegionOf(i)
  <1>1. IInv' /\ Distinct'
    BY StepIInv, StepDistinct DEF ArenaIInv
  <1>2. heaps' = heaps /\ arena' = arena
    BY DEF vars
  <1> QED
    BY <1>1, <1>2 DEF IInv, HeapsInPlace, RegionOf, mem

LEMMA WalkHeapKeeps == ArenaIInv /\ WalkHeap => ArenaIInv'
  <1> SUFFICES ASSUME ArenaIInv, WalkHeap PROVE ArenaIInv'
    OBVIOUS
  <1>1. /\ UNCHANGED vars /\ pc = "done" /\ at = "idle" /\ h < Len(heaps)
        /\ h' = h + 1 /\ at' = "start" /\ region' = RegionOf(h + 1)
        /\ cursor' = region'.start
        /\ UNCHANGED <<header, seen, events, damage, chunks, walkProblems>>
    BY DEF WalkHeap, RegionOf
  <1>2. /\ h \in Nat /\ heaps \in Seq(Heap) /\ h + 1 \in DOMAIN heaps
        /\ h + 1 \in 0 .. Len(heaps) /\ Len(heaps) \in Nat
    BY <1>1 DEF ArenaIInv, ArenaTypeOK, IInv, TypeOK
  <1>3. WP!Starting'
    <2>1. WP!IsRegion(region')
      BY <1>1, <1>2, WalkBegins
    <2>2. events = <<>> /\ damage = <<>> /\ header = 0 /\ seen = 0
      BY <1>1 DEF ArenaIInv, WalkState, NoWalk
    <2> QED
      BY <1>1, <2>1, <2>2 DEF WP!Starting, WP!IsRegion, WP!IsMemory
  <1>4. WP!IInv' /\ WP!InOrder'
    BY <1>3, WalkStarts, PTL
  <1>5. ArenaTypeOK'
    <2>1. WP!TypeOK'
      BY <1>4 DEF WP!IInv
    <2>2. W!IsRegion(region)'
      BY <1>1, <1>2, WalkBegins
         DEF W!IsRegion, WP!IsRegion, W!IsMemory, WP!IsMemory, W!Addr, WP!Addr
    <2>3. cursor' \in Addr
      BY <1>1, <1>2, WalkBegins
    <2> QED
      BY <1>1, <1>2, <2>2, <2>3, ListUntouched DEF ArenaIInv, ArenaTypeOK, vars
  <1>6. WalkState'
    BY <1>1, <1>2, <1>4, ListUntouched DEF WalkState, vars
  <1>7. ChunksPlaced'
    <2>1. Over' = h /\ Over = h
      BY <1>1, <1>2 DEF Over
    <2> QED
      BY <1>1, <2>1, ListUntouched DEF ArenaIInv, ChunksPlaced, Apart, vars
  <1> QED
    BY <1>1, <1>5, <1>6, <1>7, ListUntouched DEF ArenaIInv

LEMMA WalkStepKeepsArena == ArenaIInv /\ WalkStep => ArenaIInv'
  <1> SUFFICES ASSUME ArenaIInv, WalkStep PROVE ArenaIInv'
    OBVIOUS
  <1>1. /\ W!Next /\ UNCHANGED vars /\ UNCHANGED <<h, chunks, walkProblems>>
        /\ at # "idle"
    BY DEF WalkStep
  <1>2. WP!IInv' /\ WP!InOrder'
    BY <1>1, WalkStepKeeps DEF ArenaIInv, WalkState
  <1>3. region' = region
    BY <1>1, SameWalk, WP!SameRegion, WalkAssumptions
  <1>4. /\ at' \in {"start", "walk", "done"} /\ W!IsRegion(region)'
        /\ cursor' \in Addr /\ header' \in Addr /\ seen' \in 0 .. MaxChunks + 1
        /\ events' \in Seq(W!Events) /\ damage' \in Seq(W!ProblemKinds)
    BY <1>2
       DEF WP!IInv, WP!TypeOK, WP!IsRegion, W!IsRegion, WP!IsMemory, W!IsMemory,
           WP!Addr, W!Addr, Addr, WP!Events, W!Events, WP!ProblemKinds, W!ProblemKinds
  <1>5. ArenaTypeOK'
    BY <1>1, <1>4, ListUntouched DEF ArenaIInv, ArenaTypeOK, vars
  <1>6. WalkState'
    BY <1>1, <1>2, <1>3, <1>4, ListUntouched DEF ArenaIInv, WalkState, vars
  <1>7. ChunksPlaced'
    <2>1. Over' = Over
      BY <1>1, <1>4 DEF Over
    <2> QED
      BY <1>1, <2>1, ListUntouched DEF ArenaIInv, ChunksPlaced, Apart, vars
  <1> QED
    BY <1>1, <1>5, <1>6, <1>7, ListUntouched DEF ArenaIInv

LEMMA CollectKeeps == ArenaIInv /\ CollectHeap => ArenaIInv'
  <1> SUFFICES ASSUME ArenaIInv, CollectHeap PROVE ArenaIInv'
    OBVIOUS
  <1>1. /\ UNCHANGED vars /\ h' = h /\ at # "idle" /\ at' = "idle"
        /\ chunks' = chunks \o events /\ walkProblems' = walkProblems \o damage
        /\ region' = NoRegion /\ cursor' = 0 /\ header' = 0 /\ seen' = 0
        /\ events' = <<>> /\ damage' = <<>>
    BY DEF CollectHeap
  <1>2. /\ h \in 0 .. Len(heaps) /\ h >= 1 /\ pc = "done"
        /\ walkProblems \in Seq(W!ProblemKinds) /\ damage \in Seq(W!ProblemKinds)
    BY <1>1 DEF ArenaIInv, ArenaTypeOK, WalkState
  <1>3. chunks \in Seq(W!Events) /\ events \in Seq(W!Events)
    BY EventsPlaced
  <1>4. ArenaTypeOK'
    <2>1. W!IsRegion(NoRegion)
      BY Constants DEF W!IsRegion, W!IsMemory, W!Addr, NoRegion
    <2>2. /\ chunks' \in Seq(W!Events) /\ walkProblems' \in Seq(W!ProblemKinds)
          /\ events' \in Seq(W!Events) /\ damage' \in Seq(W!ProblemKinds)
      BY <1>1, <1>2, <1>3
    <2>3. 0 \in Addr /\ 0 \in 0 .. MaxChunks + 1
      BY Constants, ArenaWalkAssumption DEF Addr
    <2>4. W!IsRegion(region)'
      BY <1>1, <2>1 DEF W!IsRegion, W!IsMemory
    <2> QED
      BY <1>1, <2>2, <2>3, <2>4, ListUntouched DEF ArenaIInv, ArenaTypeOK, vars
  <1>5. WalkState'
    BY <1>1, <1>2 DEF WalkState, NoWalk, vars
  <1>6. ChunksPlaced'
    <2>1. Over' = h /\ Over = h - 1 /\ h \in Nat
      BY <1>1, <1>2 DEF Over
    <2>2. ASSUME NEW i \in DOMAIN chunks'
          PROVE  \E j \in 1 .. h : Inside(chunks'[i], heaps[j])
      <3>1. CASE i \in DOMAIN chunks
        <4>1. chunks'[i] = chunks[i]
          BY <1>1, <1>3, <3>1
        <4>2. PICK j \in 1 .. h - 1 : Inside(chunks[i], heaps[j])
          BY <2>1, <3>1 DEF ArenaIInv, ChunksPlaced
        <4> QED
          BY <2>1, <4>1, <4>2
      <3>2. CASE i \notin DOMAIN chunks
        <4>1. i - Len(chunks) \in DOMAIN events /\ chunks'[i] = events[i - Len(chunks)]
          BY <1>1, <1>3, <2>2, <3>2
        <4>2. Inside(chunks'[i], heaps[h])
          BY <4>1, EventsPlaced
        <4> QED
          BY <1>2, <2>1, <4>2
      <3> QED
        BY <3>1, <3>2
    <2>3. HeapsInPlace => Apart(chunks \o events)
      BY ApartTogether
    <2> QED
      BY <1>1, <2>1, <2>2, <2>3, ListUntouched DEF ChunksPlaced, Apart, Inside, vars
  <1> QED
    BY <1>1, <1>4, <1>5, <1>6, ListUntouched DEF ArenaIInv

LEMMA StepArenaIInv == ArenaIInv /\ [ArenaNext]_allVars => ArenaIInv'
  <1> SUFFICES ASSUME ArenaIInv, [ArenaNext]_allVars PROVE ArenaIInv'
    OBVIOUS
  <1>1. CASE ArenaNext
    BY <1>1, ListKeeps, WalkHeapKeeps, WalkStepKeepsArena, CollectKeeps DEF ArenaNext
  <1>2. CASE UNCHANGED allVars
    <2>1. UNCHANGED vars /\ UNCHANGED walkVars
      BY <1>2 DEF allVars
    <2>2. ArenaTypeOK'
      BY <2>1, ListUntouched
         DEF ArenaIInv, ArenaTypeOK, walkVars, vars, W!IsRegion, W!IsMemory
    <2>3. WalkState'
      <3>1. at # "idle" => WP!IInv' /\ WP!InOrder'
        BY <2>1, WalkStepKeeps DEF ArenaIInv, WalkState, walkVars, WP!vars
      <3> QED
        BY <2>1, <3>1, ListUntouched DEF ArenaIInv, WalkState, NoWalk, walkVars, vars
    <2>4. ChunksPlaced'
      BY <2>1, ListUntouched
         DEF ArenaIInv, ChunksPlaced, Apart, Over, walkVars, vars
    <2> QED
      BY <2>1, <2>2, <2>3, <2>4, ListUntouched DEF ArenaIInv
  <1> QED
    BY <1>1, <1>2

LEMMA ArenaInvariant == ArenaSpec => []ArenaIInv
  BY InitArenaIInv, StepArenaIInv, PTL DEF ArenaSpec

(* The state of the listing and of the walks has its type.                 *)
THEOREM ArenaTypeCorrect == ArenaSpec => []ArenaTypeOK
  BY ArenaInvariant, PTL DEF ArenaIInv

(* No byte of an arena whose heaps are in place is reported in two chunks. *)
THEOREM NeverByteTwice == ArenaSpec => []NoByteTwice
  <1>1. ArenaIInv => NoByteTwice
    BY ApartTogether DEF NoByteTwice
  <1> QED
    BY <1>1, ArenaInvariant, PTL

-----------------------------------------------------------------------------
(* Healthy arenas.  First what the listing reads of one.                   *)

(* The scan for the first chunk ends at the first word that is not zero.   *)
LEMMA PaddingEnds ==
  ASSUME NEW start \in Addr, NEW end \in Addr, NEW first \in Addr,
         start <= first, (first - start) % Word = 0, first <= end,
         \A b \in start .. first - 1 : (b - start) % Word = 0 => Readable(mem, b) /\ mem[b] = 0,
         first = end \/ (Readable(mem, first) /\ mem[first] # 0)
  PROVE  SkipZeroPadding(start, end) = first
  <1> DEFINE q == AddrLimit \div Word
             word(k) == WrappingAdd(start, k * Word)
             Stop(k) == word(k) >= end \/ ~ Readable(mem, word(k)) \/ mem[word(k)] # 0
             stops == {k \in 0 .. q : Stop(k)}
             n == first - start
             m == n \div Word
             least == Min(stops)
  <1>1. /\ Word \in Nat \ {0} /\ AddrLimit \in Nat /\ start \in Nat /\ first \in Nat
        /\ first < AddrLimit /\ end \in Nat /\ q \in Nat /\ AddrLimit = q * Word
    BY Constants, Multiple DEF Addr
  <1>2. n \in Nat /\ m \in Nat /\ n = m * Word
    <2>1. n \in Nat /\ n % Word = 0
      BY <1>1
    <2> HIDE DEF n
    <2> QED
      BY <1>1, <2>1, Multiple
  <1>3. m \in 0 .. q
    <2>1. m * Word < q * Word
      BY <1>1, <1>2
    <2> HIDE DEF m, q
    <2> QED
      BY <1>1, <1>2, <2>1, FewerMultiples
  <1>4. start + n = first
    BY <1>1
  <1> HIDE DEF n, m, q
  <1>5. ASSUME NEW k \in 0 .. m PROVE word(k) = start + k * Word /\ k * Word \in Nat
    <2>1. (m - k) * Word \in Nat /\ m * Word = k * Word + (m - k) * Word /\ k * Word \in Nat
      BY <1>1, <1>2
    <2>2. start + k * Word < AddrLimit
      BY <1>1, <1>2, <1>4, <2>1
    <2> QED
      BY <1>1, <2>1, <2>2, NoWrap
  <1>6. word(m) = first
    BY <1>2, <1>4, <1>5
  <1>7. m \in stops
    <2>1. Stop(m)
      BY <1>1, <1>6
    <2> QED
      BY <1>3, <2>1
  <1>8. ASSUME NEW k \in 0 .. m, k < m PROVE k \notin stops
    <2>1. k * Word < m * Word
      <3>1. (m - k) \in Nat \ {0} /\ m * Word = k * Word + (m - k) * Word
        BY <1>1, <1>2, <1>8
      <3>2. (m - k) * Word > 0
        BY <1>1, <3>1
      <3> QED
        BY <1>1, <1>2, <1>5, <3>1, <3>2
    <2> DEFINE b == start + k * Word
    <2>2. b \in start .. first - 1 /\ b - start = k * Word /\ b < end
      BY <1>1, <1>2, <1>4, <1>5, <2>1
    <2>3. (k * Word) % Word = 0
      BY <1>1, <1>2
    <2>4. Readable(mem, b) /\ mem[b] = 0
      <3> HIDE DEF b
      <3> QED
        BY <2>2, <2>3
    <2>5. word(k) = b
      BY <1>5
    <2> HIDE DEF b
    <2>6. ~ Stop(k)
      BY <1>1, <2>2, <2>4, <2>5
    <2> QED
      BY <2>6
  <1>9. least = m
    <2>a. stops \subseteq 0 .. q
      OBVIOUS
    <2> HIDE DEF stops
    <2>1. stops \subseteq Nat /\ stops # {}
      BY <1>1, <1>7, <2>a
    <2>3. least \in stops /\ \A k \in stops : least <= k
      BY <2>1, MinOfNats
    <2>4. least \in Nat /\ least <= m
      BY <1>7, <2>1, <2>3
    <2> HIDE DEF least
    <2>5. ~ (least < m)
      BY <1>2, <1>8, <2>3, <2>4
    <2> QED
      BY <1>2, <2>4, <2>5
  <1>10. SkipZeroPadding(start, end) = word(least)
    BY DEF SkipZeroPadding, q
  <1> QED
    BY <1>6, <1>9, <1>10

LEMMA BuiltTyped ==
  ASSUME IsHealthy(arena)
  PROVE  /\ arena.built # <<>> /\ Len(arena.built) \in Nat \ {0}
         /\ DOMAIN arena.built = 1 .. Len(arena.built)
         /\ Len(arena.chunks) \in Nat /\ DOMAIN arena.chunks = 1 .. Len(arena.chunks)
         /\ \A i \in DOMAIN arena.built :
              /\ arena.built[i].address \in Addr \ {0}
              /\ arena.built[i].start \in Addr /\ arena.built[i].end \in Addr
              /\ arena.built[i].close \in Addr
              /\ arena.built[i].upto \in 0 .. Len(arena.chunks)
         /\ \A n \in DOMAIN arena.chunks :
              arena.chunks[n] \in [addr : Addr, size : Addr, in_use : BOOLEAN]
  <1> DEFINE Part == [address : Addr \ {0}, start : Addr, end : Addr, close : Addr,
                      upto : 0 .. Len(arena.chunks)]
             Chunk == [addr : Addr, size : Addr, in_use : BOOLEAN]
  <1>1. arena.built \in Seq(Part) /\ arena.built # <<>> /\ arena.chunks \in Seq(Chunk)
    BY DEF IsHealthy
  <1>2. \A b \in Part :
          /\ b.address \in Addr \ {0} /\ b.start \in Addr /\ b.end \in Addr
          /\ b.close \in Addr /\ b.upto \in 0 .. Len(arena.chunks)
    OBVIOUS
  <1> HIDE DEF Part, Chunk
  <1>3. \A i \in DOMAIN arena.built : arena.built[i] \in Part
    BY <1>1
  <1>4. \A n \in DOMAIN arena.chunks : arena.chunks[n] \in Chunk
    BY <1>1
  <1>5. /\ Len(arena.built) \in Nat \ {0} /\ DOMAIN arena.built = 1 .. Len(arena.built)
        /\ Len(arena.chunks) \in Nat /\ DOMAIN arena.chunks = 1 .. Len(arena.chunks)
    BY <1>1
  <1> QED
    BY <1>1, <1>2, <1>3, <1>4, <1>5 DEF Chunk

LEMMA UptoTyped ==
  ASSUME IsHealthy(arena), NEW i \in 0 .. Len(arena.built)
  PROVE  Upto(arena, i) \in 0 .. Len(arena.chunks)
  <1>1. CASE i = 0
    BY <1>1, BuiltTyped DEF Upto
  <1>2. CASE i # 0
    BY <1>2, BuiltTyped DEF Upto
  <1> QED
    BY <1>1, <1>2

\* A region of a healthy arena starts with a header, or is empty.
LEMMA FirstWord ==
  ASSUME IsArena(arena), IsHealthy(arena), NEW i \in DOMAIN arena.built
  PROVE  /\ arena.built[i].start <= arena.built[i].close
         /\ arena.built[i].close <= arena.built[i].end
         /\ i # 1 => arena.built[i].close < arena.built[i].end
         /\ \/ arena.built[i].start = arena.built[i].end
            \/ Readable(mem, arena.built[i].start) /\ mem[arena.built[i].start] # 0
  <1> DEFINE b == arena.built[i]
             n == Upto(arena, i - 1) + 1
  <1>1. /\ IsFilled(arena, i) /\ b.start \in Addr /\ b.close \in Addr /\ b.end \in Addr
        /\ Upto(arena, i) = b.upto /\ n \in Nat /\ b.upto \in Nat
    <2>1. i \in Nat /\ i # 0 /\ i - 1 \in 0 .. Len(arena.built)
      BY BuiltTyped
    <2>2. Upto(arena, i) = b.upto
      BY <2>1 DEF Upto
    <2>3. Upto(arena, i - 1) \in Nat
      BY <2>1, UptoTyped, BuiltTyped
    <2>4. IsFilled(arena, i)
      BY DEF IsHealthy
    <2>5. b.upto \in Nat
      BY BuiltTyped
    <2> QED
      BY <2>2, <2>3, <2>4, <2>5, BuiltTyped
  <1>2. \A x \in Addr : x \in Nat
    BY Constants DEF Addr
  <1>3. /\ HeaderAt(arena, i, n) = b.start /\ b.start <= b.close /\ Readable(mem, b.close)
        /\ \A j \in n .. b.upto : IsChunk(arena, i, j)
        /\ IF i = 1 THEN b.close = b.end ELSE IsClosed(arena, i)
    BY <1>1 DEF IsFilled, mem
  <1>4. \A x : ChunkSize(x) >= 2 * Word => x # 0
    BY Constants DEF ChunkSize
  <1>5. i # 1 => b.close < b.end /\ mem[b.close] # 0
    <2> SUFFICES ASSUME i # 1 PROVE b.close < b.end /\ mem[b.close] # 0
      OBVIOUS
    <2> DEFINE bridge == ChunkSize(mem[b.close])
    <2>1. bridge >= 2 * Word /\ (b.close + bridge) + Word = b.end
      BY <1>3 DEF IsClosed, mem
    <2>2. mem[b.close] \in Nat
      BY <1>2, <1>3, ReadTyped
    <2>3. bridge \in Int
      BY <2>2 DEF ChunkSize
    <2>4. mem[b.close] # 0
      BY <1>4, <2>1
    <2> HIDE DEF bridge
    <2> QED
      BY <1>1, <1>2, <2>1, <2>3, <2>4, Constants
  <1>6. CASE n > b.upto
    <2>1. b.start = b.close
      BY <1>1, <1>3, <1>6 DEF HeaderAt
    <2> QED
      BY <1>1, <1>2, <1>3, <1>5, <2>1
  <1>7. CASE ~ (n > b.upto)
    <2>1. IsChunk(arena, i, n) /\ b.start = arena.chunks[n].addr
      BY <1>1, <1>3, <1>7 DEF HeaderAt
    <2>2. Readable(mem, b.start) /\ mem[b.start] # 0
      BY <1>4, <2>1 DEF IsChunk, mem
    <2> QED
      BY <1>1, <1>2, <1>3, <1>5, <2>2
  <1> QED
    BY <1>1, <1>6, <1>7

\* The data of a heap start behind its metadata, and the scan finds the start.
LEMMA ScanFindsStart ==
  ASSUME IsArena(arena), IsHealthy(arena), NEW i \in DOMAIN arena.built
  PROVE  /\ DataStart(arena, i) \in Addr
         /\ SkipZeroPadding(DataStart(arena, i), arena.built[i].end) = arena.built[i].start
  <1> DEFINE b == arena.built[i]
             data == DataStart(arena, i)
  <1>1. \A x \in Addr : x \in Nat /\ x < AddrLimit
    BY Constants DEF Addr
  <1>2. b.address \in Addr /\ b.start \in Addr /\ b.end \in Addr /\ b.close \in Addr
    BY BuiltTyped
  <1>3. data \in Nat
    <2> DEFINE skipped == IF arena.main THEN 0
                          ELSE IF i = Len(arena.built) THEN HeapInfoSize + MallocStateSize
                          ELSE HeapInfoSize
    <2>1. HeapInfoSize \in Nat /\ MallocStateSize \in Nat
      BY <1>1, Constants
    <2>2. skipped \in Nat
      BY <2>1
    <2>3. data = b.address + skipped
      BY DEF DataStart
    <2> HIDE DEF skipped
    <2> QED
      BY <1>1, <1>2, <2>2, <2>3
  <1>4. /\ data <= b.start /\ (b.start - data) % Word = 0
        /\ \A x \in data .. b.start - 1 :
             (x - data) % Word = 0 => Readable(mem, x) /\ mem[x] = 0
    BY DEF IsHealthy, IsPadded, mem
  <1>5. /\ b.start <= b.close /\ b.close <= b.end
        /\ b.start = b.end \/ (Readable(mem, b.start) /\ mem[b.start] # 0)
    BY FirstWord
  <1> HIDE DEF b, data
  <1>6. data \in Addr
    BY <1>1, <1>2, <1>3, <1>4, Constants DEF Addr
  <1>7. b.start <= b.end
    BY <1>1, <1>2, <1>5
  <1>8. SkipZeroPadding(data, b.end) = b.start
    BY <1>2, <1>4, <1>5, <1>6, <1>7, PaddingEnds
  <1> QED
    BY <1>6, <1>8 DEF b, data

LEMMA HealthyTop ==
  ASSUME IsArena(arena), IsHealthy(arena)
  PROVE  /\ Readable(mem, TopField) /\ Top # 0 /\ Top \in Addr
         /\ 1 \in DOMAIN arena.built
         /\ WrappingAdd(Top, Word) = arena.built[1].end
         /\ arena.main => Readable(mem, SbrkField) /\ SbrkBase # 0
         /\ ~ Unused
  <1>1. \A x \in Addr : x \in Nat /\ x < AddrLimit
    BY Constants DEF Addr
  <1>2. 1 \in DOMAIN arena.built
    BY BuiltTyped
  <1>3. /\ arena.built[1].address \in Addr \ {0} /\ arena.built[1].end \in Addr
        /\ Readable(mem, TopField) /\ arena.built[1].end = Top + Word
    BY <1>2, BuiltTyped DEF IsHealthy, Top, mem
  <1>4. Top \in Addr /\ TopHeap \in 0 .. Top
    <2>1. Top \in Addr
      BY <1>3, TopHeapTyped
    <2> QED
      BY <1>1, <2>1, Constants, RoundedDown DEF TopHeap, ToHeapStart
  <1>5. WrappingAdd(Top, Word) = arena.built[1].end
    BY <1>1, <1>3, <1>4, Constants, NoWrap
  <1>6. CASE arena.main
    <2>1. /\ Readable(mem, SbrkField) /\ SbrkBase = arena.built[1].address
          /\ SbrkBase <= Top
      BY <1>6 DEF IsHealthy, IsMainHeap, SbrkBase, Top, mem
    <2> QED
      BY <1>1, <1>2, <1>3, <1>4, <1>5, <2>1 DEF Unused
  <1>7. CASE ~ arena.main
    <2>1. TopHeap = arena.built[1].address
      BY <1>7 DEF IsHealthy, IsHeapChain, TopHeap, Top, mem
    <2> QED
      BY <1>1, <1>2, <1>3, <1>4, <1>5, <1>7, <2>1 DEF Unused
  <1> QED
    BY <1>6, <1>7

LEMMA MainAsBuilt ==
  ASSUME IsArena(arena), IsHealthy(arena), arena.main
  PROVE  /\ Mapped(SbrkBase) /\ MainHeapStart = arena.built[1].address
         /\ ~ (Top < MainHeapStart)
         /\ SkipZeroPadding(MainHeapStart, WrappingAdd(Top, Word)) = arena.built[1].start
         /\ Len(arena.built) = 1
  <1>1. \A x \in Addr : x \in Nat
    BY Constants DEF Addr
  <1>2. /\ Mapped(SbrkBase) /\ SbrkBase = arena.built[1].address
        /\ SbrkBase <= Top /\ Len(arena.built) = 1
    BY DEF IsHealthy, IsMainHeap, Mapped, SbrkBase, Top, mem
  <1>3. MainHeapStart = SbrkBase
    BY <1>2 DEF MainHeapStart
  <1>4. Top \in Nat /\ SbrkBase \in Nat /\ 1 \in DOMAIN arena.built
    BY <1>1, <1>2, HealthyTop, BuiltTyped
  <1>5. DataStart(arena, 1) = SbrkBase
    BY <1>2, <1>4 DEF DataStart
  <1> QED
    BY <1>2, <1>3, <1>4, <1>5, ScanFindsStart, HealthyTop

\* What a _heap_info of a healthy arena says.
LEMMA InfoAsBuilt ==
  ASSUME IsArena(arena), IsHealthy(arena), ~ arena.main, NEW i \in DOMAIN arena.built
  PROVE  LET b == arena.built[i]
         IN  /\ InfoReadable(b.address) /\ ~ Overflows(b.address)
             /\ i = Len(arena.built) => Prev(b.address) = 0
             /\ i # Len(arena.built) =>
                  /\ i + 1 \in DOMAIN arena.built
                  /\ Prev(b.address) = arena.built[i + 1].address /\ Prev(b.address) # 0
             /\ HeapOf(b.address).region_start = b.start
             /\ HeapOf(b.address).region_end = b.end
  <1> DEFINE a == arena.built[i].address
             b == arena.built[i]
  <1>1. \A x \in Addr : x \in Nat /\ x < AddrLimit
    BY Constants DEF Addr
  <1>2. /\ a \in Addr \ {0} /\ b.start \in Addr /\ b.end \in Addr
        /\ i \in 1 .. Len(arena.built) /\ Len(arena.built) \in Nat
    BY BuiltTyped
  <1>3. /\ InfoReadable(a)
        /\ Prev(a) = IF i = Len(arena.built) THEN 0 ELSE arena.built[i + 1].address
        /\ i # 1 => b.end = a + Size(a)
        /\ TopHeap = arena.built[1].address
        /\ \A j \in DOMAIN arena.built : arena.built[j].address = a => j = i
    BY DEF IsHealthy, IsHeapChain, InfoAt, InfoReadable, Prev, Size, TopHeap, Top, mem
  <1>4. a = TopHeap <=> i = 1
    BY <1>3, HealthyTop
  <1>5. Size(a) \in Nat
    BY <1>1, <1>3, InfoTyped
  <1>6. RegionEnd(a) = b.end /\ ~ Overflows(a)
    <2>1. CASE i = 1
      BY <1>4, <2>1, HealthyTop DEF RegionEnd, Overflows
    <2>2. CASE i # 1
      <3>1. a + Size(a) < AddrLimit /\ a + Size(a) \in Nat /\ AddrLimit \in Nat
        BY <1>1, <1>2, <1>3, <1>5, <2>2, Constants
      <3> QED
        BY <1>3, <1>4, <2>2, <3>1 DEF RegionEnd, Overflows, AddOverflows
    <2> QED
      BY <2>1, <2>2
  <1>7. i # Len(arena.built) =>
          /\ i + 1 \in DOMAIN arena.built
          /\ arena.built[i + 1].address # 0
    BY <1>2, BuiltTyped
  <1>8. Prev(a) = 0 <=> i = Len(arena.built)
    BY <1>3, <1>7
  <1>9. HeapStart(a) = DataStart(arena, i)
    <2> DEFINE embedded == IF i = Len(arena.built) THEN MallocStateSize ELSE 0
               data == DataStart(arena, i)
    <2>1. /\ a \in Nat /\ HeapInfoSize \in Nat /\ embedded \in Nat /\ data \in Nat
          /\ data < AddrLimit /\ AddrLimit \in Nat
      BY <1>1, <1>2, ScanFindsStart, Constants
    <2>2. data = (a + HeapInfoSize) + embedded
      BY <1>1, <1>2, Constants DEF DataStart
    <2>3. HeapStart(a) = WrappingAdd(WrappingAdd(a, HeapInfoSize), embedded)
      BY <1>8 DEF HeapStart
    <2> HIDE DEF embedded, data, a
    <2>4. a + HeapInfoSize < AddrLimit /\ a + HeapInfoSize \in Nat
      BY <2>1, <2>2
    <2>5. WrappingAdd(a, HeapInfoSize) = a + HeapInfoSize
      BY <2>1, <2>4, NoWrap
    <2>6. WrappingAdd(a + HeapInfoSize, embedded) = data
      BY <2>1, <2>2, <2>4, NoWrap
    <2> QED
      BY <2>3, <2>5, <2>6 DEF data
  <1>10. HeapOf(a).region_start = b.start /\ HeapOf(a).region_end = b.end
    BY <1>6, <1>9, ScanFindsStart DEF HeapOf
  <1> HIDE DEF InfoReadable, Prev, HeapOf, Overflows
  <1> QED
    BY <1>3, <1>6, <1>7, <1>10

-----------------------------------------------------------------------------
(* The heaps of a healthy arena are listed as malloc has built them.       *)
AsBuilt(heap, b) ==
  heap.address = b.address /\ heap.region_start = b.start /\ heap.region_end = b.end

ListIsBuilt ==
  /\ problems = <<>> /\ pc # "failed"
  /\ Len(heaps) <= Len(arena.built)
  /\ \A i \in DOMAIN heaps : AsBuilt(heaps[i], arena.built[i])
  /\ pc = "walk" => /\ ~ arena.main /\ Len(heaps) < Len(arena.built)
                    /\ current = arena.built[Len(heaps) + 1].address
  /\ pc = "done" => Len(heaps) = Len(arena.built)

\* None of the ways to give up is open.
LEMMA NothingToReport ==
  ASSUME IInv, IsHealthy(arena), ListIsBuilt, Next
  PROVE  MainHeap \/ StartChain \/ OldestHeap \/ OlderHeapFollows
  <1>1. /\ IsArena(arena) /\ heaps \in Seq(Heap) /\ Len(heaps) \in Nat
        /\ DOMAIN heaps = 1 .. Len(heaps)
    BY DEF IInv, TypeOK
  <1>2. ~ StartUnreadable /\ ~ EmptyArena /\ ~ MainUndeterminable
    BY <1>1, HealthyTop, MainAsBuilt
       DEF StartUnreadable, EmptyArena, MainUndeterminable
  <1>3. ASSUME pc = "walk"
        PROVE  /\ InfoReadable(current) /\ ~ Overflows(current)
               /\ Len(heaps) < MaxHeaps /\ ~ Listed
    <2> DEFINE i == Len(heaps) + 1
    <2>1. i \in DOMAIN arena.built /\ current = arena.built[i].address /\ ~ arena.main
      BY <1>1, <1>3, BuiltTyped DEF ListIsBuilt
    <2>2. InfoReadable(current) /\ ~ Overflows(current)
      BY <1>1, <2>1, InfoAsBuilt
    <2>3. /\ Len(arena.built) <= MaxHeaps
          /\ \A m, n \in DOMAIN arena.built :
               arena.built[m].address = arena.built[n].address => m = n
      BY <2>1 DEF IsHealthy, IsHeapChain
    <2>4. Len(heaps) < MaxHeaps
      <3>1. Len(heaps) < Len(arena.built) /\ Len(arena.built) \in Nat /\ MaxHeaps \in Nat
        BY <1>3, BuiltTyped, Constants DEF ListIsBuilt
      <3> QED
        BY <1>1, <2>3, <3>1
    <2>5. ASSUME NEW n \in DOMAIN heaps, heaps[n].address = current PROVE FALSE
      <3>1. heaps[n].address = arena.built[n].address
        BY <2>5 DEF ListIsBuilt, AsBuilt
      <3>2. n \in DOMAIN arena.built /\ n # i
        BY <1>1, <1>3, BuiltTyped DEF ListIsBuilt
      <3> QED
        BY <2>1, <2>3, <2>5, <3>1, <3>2
    <2> QED
      BY <2>2, <2>4, <2>5 DEF Listed
  <1>4. ~ CapOrCycle /\ ~ FirstInfoUnreadable /\ ~ LaterInfoUnreadable /\ ~ SizeOverflows
    <2>1. ASSUME pc = "walk", Len(heaps) >= MaxHeaps PROVE FALSE
      BY <1>1, <1>3, <2>1, Constants
    <2> QED
      BY <1>3, <2>1
         DEF CapOrCycle, FirstInfoUnreadable, LaterInfoUnreadable, SizeOverflows, InWalk
  <1> QED
    BY <1>2, <1>4 DEF Next

LEMMA StepListIsBuilt ==
  ASSUME IInv, IsHealthy(arena), ListIsBuilt, Next
  PROVE  ListIsBuilt' /\ UNCHANGED arena
  <1>1. /\ IsArena(arena) /\ heaps \in Seq(Heap) /\ Len(heaps) \in Nat
        /\ DOMAIN heaps = 1 .. Len(heaps) /\ problems = <<>>
    BY DEF IInv, TypeOK, ListIsBuilt
  <1>2. Len(arena.built) \in Nat \ {0} /\ DOMAIN arena.built = 1 .. Len(arena.built)
    BY BuiltTyped
  <1>3. CASE MainHeap
    <2>1. arena.main /\ UNCHANGED arena /\ pc' = "done"
      BY <1>3 DEF MainHeap
    <2>2. problems' = problems
      BY <1>1, <1>3, <2>1, MainAsBuilt DEF MainHeap
    <2> DEFINE heap == [address      |-> MainHeapStart,
                        size         |-> SaturatingSub(Top, MainHeapStart),
                        region_start |-> SkipZeroPadding(MainHeapStart, WrappingAdd(Top, Word)),
                        region_end   |-> WrappingAdd(Top, Word)]
    <2>3. heaps' = <<heap>>
      BY <1>3 DEF MainHeap
    <2>4. AsBuilt(heap, arena.built[1])
      BY <1>1, <2>1, MainAsBuilt, HealthyTop DEF AsBuilt
    <2> HIDE DEF heap
    <2>5. Len(heaps') = 1 /\ DOMAIN heaps' = {1} /\ heaps'[1] = heap
      BY <2>3
    <2>6. Len(arena.built) = 1
      BY <1>1, <2>1, MainAsBuilt
    <2> QED
      BY <1>1, <2>1, <2>2, <2>4, <2>5, <2>6 DEF ListIsBuilt
  <1>4. CASE StartChain
    <2>1. /\ ~ arena.main /\ pc = "start" /\ pc' = "walk" /\ current' = TopHeap
          /\ UNCHANGED <<arena, heaps, problems>>
      BY <1>4 DEF StartChain, StartRead
    <2>2. heaps = <<>> /\ Len(heaps) = 0
      BY <2>1 DEF IInv, Phases
    <2>3. TopHeap = arena.built[1].address
      BY <2>1 DEF IsHealthy, IsHeapChain, TopHeap, Top, mem
    <2> QED
      BY <1>1, <1>2, <2>1, <2>2, <2>3 DEF ListIsBuilt
  <1>5. CASE OldestHeap \/ OlderHeapFollows
    <2> DEFINE i == Len(heaps) + 1
    <2>1. /\ pc = "walk" /\ heaps' = Append(heaps, HeapOf(current))
          /\ UNCHANGED <<arena, problems>>
          /\ \/ Prev(current) = 0 /\ pc' = "done"
             \/ Prev(current) # 0 /\ pc' = "walk" /\ current' = Prev(current)
      BY <1>5 DEF OldestHeap, OlderHeapFollows, AddHeap, InWalk, HeapOf
    <2>2. i \in DOMAIN arena.built /\ current = arena.built[i].address /\ ~ arena.main
      BY <1>1, <2>1, BuiltTyped DEF ListIsBuilt
    <2>3. HeapOf(current).address = current
      BY DEF HeapOf
    <2>4. AsBuilt(HeapOf(current), arena.built[i])
      BY <1>1, <2>2, <2>3, InfoAsBuilt DEF AsBuilt
    <2>5. HeapOf(current) \in Heap
      BY <1>1, <2>2, InfoAsBuilt, HealthyTop, HeapOfTyped, BuiltTyped
    <2>6. /\ Len(heaps') = i /\ DOMAIN heaps' = 1 .. i /\ heaps'[i] = HeapOf(current)
          /\ \A n \in 1 .. Len(heaps) : heaps'[n] = heaps[n]
      BY <1>1, <2>1, <2>5
    <2>7. \A n \in DOMAIN heaps' : AsBuilt(heaps'[n], arena.built[n])
      <3> SUFFICES ASSUME NEW n \in DOMAIN heaps' PROVE AsBuilt(heaps'[n], arena.built[n])
        OBVIOUS
      <3>1. CASE n = i
        BY <2>4, <2>6, <3>1
      <3>2. CASE n # i
        <4>1. n \in 1 .. Len(heaps)
          BY <1>1, <2>6, <3>2
        <4> QED
          BY <1>1, <2>6, <4>1 DEF ListIsBuilt
      <3> QED
        BY <3>1, <3>2
    <2>8. CASE i = Len(arena.built)
      <3>1. Prev(current) = 0
        BY <1>1, <2>2, <2>8, InfoAsBuilt
      <3> QED
        BY <1>1, <1>2, <2>1, <2>6, <2>7, <2>8, <3>1 DEF ListIsBuilt
    <2>9. CASE i # Len(arena.built)
      <3>1. Prev(current) # 0 /\ Prev(current) = arena.built[i + 1].address /\ i < Len(arena.built)
        BY <1>1, <1>2, <2>2, <2>9, InfoAsBuilt
      <3> QED
        BY <1>1, <1>2, <2>1, <2>2, <2>6, <2>7, <3>1 DEF ListIsBuilt
    <2> QED
      BY <2>8, <2>9
  <1> QED
    BY <1>3, <1>4, <1>5, NothingToReport

-----------------------------------------------------------------------------
(* The chunks of a healthy arena are reported as malloc has built them.    *)
Reported(e, c) ==
  e.size_field_addr = c.addr /\ e.full_size = c.size /\ e.in_use = c.in_use

\* How many chunks have been reported, the walk that is going on included.
Reached == Upto(arena, h - 1) + Len(events)

ChunksAreBuilt ==
  /\ walkProblems = <<>> /\ damage = <<>>
  /\ Len(chunks) = Upto(arena, Over)
  /\ \A n \in DOMAIN chunks : Reported(chunks[n], arena.chunks[n])

WalkIsBuilt ==
  at # "idle" =>
    /\ Reached <= Upto(arena, h)
    /\ \A n \in DOMAIN events : Reported(events[n], arena.chunks[Upto(arena, h - 1) + n])
    /\ at # "done" => seen = Len(events) /\ cursor = HeaderAt(arena, h, Reached + 1)
    /\ at = "start" => events = <<>>
    /\ at = "walk" => Readable(mem, cursor) /\ header = mem[cursor]
    /\ at = "done" => Reached = Upto(arena, h)

HealthyWalk == ArenaIInv /\ IsHealthy(arena) /\ ListIsBuilt /\ ChunksAreBuilt /\ WalkIsBuilt

LEMMA RegionAsBuilt ==
  ASSUME HealthyWalk, at # "idle"
  PROVE  /\ h \in DOMAIN arena.built /\ h - 1 \in 0 .. Len(arena.built) /\ h \in Nat \ {0}
         /\ region.mem = mem /\ region.main = arena.main
         /\ region.start = arena.built[h].start /\ region.end = arena.built[h].end
         /\ Upto(arena, h - 1) \in Nat /\ Upto(arena, h) \in Nat
         /\ Upto(arena, h - 1) <= Upto(arena, h)
         /\ events \in Seq(W!Events) /\ Len(events) \in Nat
         /\ DOMAIN events = 1 .. Len(events)
         /\ Reached \in Nat
         /\ IsArena(arena) /\ IsFilled(arena, h) /\ arena.built[h].upto = Upto(arena, h)
  <1>1. /\ h \in 0 .. Len(heaps) /\ h >= 1 /\ region = RegionOf(h) /\ pc = "done"
        /\ heaps \in Seq(Heap) /\ IsArena(arena) /\ events \in Seq(W!Events)
    BY EventsPlaced DEF HealthyWalk, ArenaIInv, ArenaTypeOK, WalkState, IInv, TypeOK
  <1>2. Len(heaps) = Len(arena.built) /\ \A i \in DOMAIN heaps : AsBuilt(heaps[i], arena.built[i])
    BY <1>1 DEF HealthyWalk, ListIsBuilt
  <1>3. /\ IsHealthy(arena) /\ DOMAIN arena.built = 1 .. Len(arena.built)
        /\ Len(arena.built) \in Nat
    BY BuiltTyped DEF HealthyWalk
  <1>4. /\ h \in DOMAIN heaps /\ h \in DOMAIN arena.built /\ h \in Nat \ {0}
        /\ h - 1 \in 0 .. Len(arena.built) /\ h \in 0 .. Len(arena.built)
    BY <1>1, <1>2, <1>3
  <1>5. /\ region.mem = mem /\ region.main = arena.main
        /\ region.start = arena.built[h].start /\ region.end = arena.built[h].end
    BY <1>1, <1>2, <1>4 DEF RegionOf, AsBuilt
  <1>6. /\ Upto(arena, h - 1) \in 0 .. Len(arena.chunks)
        /\ Upto(arena, h) \in 0 .. Len(arena.chunks)
        /\ Len(arena.chunks) \in Nat
    BY <1>3, <1>4, UptoTyped, BuiltTyped
  <1>7. IsFilled(arena, h)
    BY <1>3, <1>4 DEF IsHealthy
  <1>8. arena.built[h].upto = Upto(arena, h)
    BY <1>4 DEF Upto
  <1>9. Upto(arena, h - 1) <= Upto(arena, h)
    BY <1>7, <1>8 DEF IsFilled
  <1>10. /\ Len(events) \in Nat /\ DOMAIN events = 1 .. Len(events)
    BY <1>1
  <1>11. Reached \in Nat
    BY <1>6, <1>10 DEF Reached
  <1> QED
    BY <1>1, <1>3, <1>4, <1>5, <1>6, <1>7, <1>8, <1>9, <1>10, <1>11

\* Headers of a healthy heap can be read, and lie in front of its end.
LEMMA HeaderReadable ==
  ASSUME HealthyWalk, at # "idle", NEW n \in Nat, Upto(arena, h - 1) < n
  PROVE  Readable(mem, HeaderAt(arena, h, n)) /\ HeaderAt(arena, h, n) \in Addr
  <1>1. /\ IsFilled(arena, h) /\ arena.built[h].upto = Upto(arena, h)
        /\ h \in DOMAIN arena.built /\ IsHealthy(arena) /\ IsArena(arena)
        /\ Upto(arena, h - 1) \in Nat /\ Upto(arena, h) \in Nat
    BY RegionAsBuilt DEF HealthyWalk
  <1>2. CASE n > Upto(arena, h)
    BY <1>1, <1>2, BuiltTyped DEF HeaderAt, IsFilled, mem
  <1>3. CASE ~ (n > Upto(arena, h))
    <2>1. n \in Upto(arena, h - 1) + 1 .. arena.built[h].upto
      BY <1>1, <1>3
    <2>2. IsChunk(arena, h, n) /\ HeaderAt(arena, h, n) = arena.chunks[n].addr
      BY <1>1, <1>3, <2>1 DEF IsFilled, HeaderAt
    <2>3. Readable(mem, HeaderAt(arena, h, n))
      BY <2>2 DEF IsChunk, mem
    <2>4. n \in DOMAIN arena.chunks
      BY <1>1, <2>1, BuiltTyped
    <2>5. arena.chunks[n] \in [addr : Addr, size : Addr, in_use : BOOLEAN]
      BY <1>1, <2>4, BuiltTyped
    <2> QED
      BY <2>2, <2>3, <2>5
  <1> QED
    BY <1>2, <1>3

LEMMA SameChunkSize == \A x : W!ChunkSize(x) = ChunkSize(x)
  BY DEF W!ChunkSize, ChunkSize

LEMMA ChunkIsReported ==
  ASSUME HealthyWalk, at = "walk", Reached < Upto(arena, h)
  PROVE  LET c == arena.chunks[Reached + 1]
         IN  /\ cursor # region.end /\ ~ W!BadChunk
             /\ W!NextCursor = HeaderAt(arena, h, (Reached + 1) + 1)
             /\ Readable(mem, W!NextCursor)
             /\ ~ W!IsBridge(header, W!NextCursor, mem[W!NextCursor])
             /\ Reported(W!ChunkEvent(cursor, header, mem[W!NextCursor]), c)
  <1> DEFINE n == Reached + 1
             c == arena.chunks[n]
             b == arena.built[h]
             next == HeaderAt(arena, h, n + 1)
  <1>1. /\ IsFilled(arena, h) /\ b.upto = Upto(arena, h)
        /\ h \in DOMAIN arena.built /\ IsHealthy(arena) /\ IsArena(arena)
        /\ Upto(arena, h - 1) \in Nat /\ Upto(arena, h) \in Nat /\ Reached \in Nat
        /\ region.mem = mem /\ region.main = arena.main /\ region.end = b.end
        /\ Len(events) \in Nat
    BY RegionAsBuilt DEF HealthyWalk
  <1>2. \A x \in Addr : x \in Nat /\ x < AddrLimit
    BY Constants DEF Addr
  <1>3. /\ seen = Len(events) /\ cursor = HeaderAt(arena, h, n) /\ header = mem[cursor]
    BY DEF HealthyWalk, WalkIsBuilt
  <1>4. n \in Upto(arena, h - 1) + 1 .. Upto(arena, h) /\ n \in Nat /\ n + 1 \in Nat
        /\ Upto(arena, h - 1) < n + 1
    BY <1>1 DEF Reached
  <1>5. IsChunk(arena, h, n) /\ b.upto - Upto(arena, h - 1) <= MaxChunks
    BY <1>1, <1>4 DEF IsFilled
  <1>6. cursor = c.addr
    BY <1>1, <1>3, <1>4 DEF HeaderAt
  <1>7. c \in [addr : Addr, size : Addr, in_use : BOOLEAN]
    <2>1. n \in DOMAIN arena.chunks
      BY <1>1, <1>4, BuiltTyped
    <2> QED
      BY <1>1, <2>1, BuiltTyped
  <1>8. Readable(mem, next) /\ next \in Addr
    BY <1>4, HeaderReadable
  <1>9. /\ c.size >= 2 * Word /\ c.size % Alignment = 0
        /\ c.addr + c.size = next /\ next <= b.close
        /\ ChunkSize(header) = c.size
        /\ ~ arena.main => NonMainArena(header)
        /\ PrevInuse(mem[next]) = c.in_use
    BY <1>3, <1>5, <1>6 DEF IsChunk, mem
  <1>10. b.close <= b.end /\ b.close \in Addr /\ b.end \in Addr
    BY <1>1, BuiltTyped, FirstWord
  <1>11. W!Full = c.size /\ W!NextCursor = next
    BY <1>6, <1>9, SameChunkSize DEF W!Full, W!NextCursor
  <1>12. seen + 1 <= MaxChunks
    BY <1>1, <1>3, <1>4, <1>5, ArenaWalkAssumption DEF Reached
  <1> HIDE DEF n, c, b, next
  <1>13. cursor # b.end /\ next <= b.end /\ ~ (c.addr + c.size >= AddrLimit)
    BY <1>2, <1>6, <1>7, <1>8, <1>9, <1>10, Constants
  <1>14. ~ W!BadChunk
    <2>1. /\ ~ (seen + 1 > MaxChunks) /\ ~ (c.size < 2 * Word) /\ ~ (next > b.end)
      <3>1. seen \in Nat /\ MaxChunks \in Nat /\ Word \in Nat /\ c.size \in Nat /\ next \in Nat /\ b.end \in Nat
        BY <1>1, <1>2, <1>3, <1>7, <1>8, <1>10, Constants, ArenaWalkAssumption
      <3> QED
        BY <1>9, <1>12, <1>13, <3>1
    <2> QED
      BY <1>1, <1>6, <1>9, <1>11, <1>13, <2>1 DEF W!BadChunk, W!AddOverflows
  <1>15. ~ W!IsBridge(header, next, mem[next])
    BY <1>1, <1>9 DEF W!IsBridge, W!NonMainArena, NonMainArena
  <1>16. Reported(W!ChunkEvent(cursor, header, mem[next]), c)
    BY <1>6, <1>9, SameChunkSize DEF Reported, W!ChunkEvent, W!PrevInuse, PrevInuse
  <1> QED
    BY <1>1, <1>8, <1>11, <1>13, <1>14, <1>15, <1>16 DEF n, c, next

\* Behind the last chunk is the end, in an older heap the bridge.
LEMMA BridgeIsSeen ==
  ASSUME HealthyWalk, at = "walk", Reached = Upto(arena, h)
  PROVE  /\ h = 1 => cursor = region.end
         /\ h # 1 => /\ cursor # region.end /\ ~ W!BadChunk
                     /\ Readable(mem, W!NextCursor)
                     /\ W!IsBridge(header, W!NextCursor, mem[W!NextCursor])
  <1> DEFINE b == arena.built[h]
             bridge == ChunkSize(header)
             next == cursor + bridge
  <1>1. /\ IsFilled(arena, h) /\ b.upto = Upto(arena, h)
        /\ h \in DOMAIN arena.built /\ IsHealthy(arena) /\ IsArena(arena)
        /\ Upto(arena, h - 1) \in Nat /\ Upto(arena, h) \in Nat /\ Reached \in Nat
        /\ region.mem = mem /\ region.main = arena.main /\ region.end = b.end
        /\ Len(events) \in Nat
    BY RegionAsBuilt DEF HealthyWalk
  <1>2. \A x \in Addr : x \in Nat /\ x < AddrLimit
    BY Constants DEF Addr
  <1>3. seen = Len(events) /\ cursor = b.close /\ header = mem[cursor] /\ Readable(mem, cursor)
    BY <1>1 DEF HealthyWalk, WalkIsBuilt, HeaderAt
  <1>4. CASE h = 1
    BY <1>1, <1>3, <1>4 DEF IsFilled
  <1>5. CASE h # 1
    <2>1. /\ IsClosed(arena, h) /\ b.close < b.end /\ b.close \in Addr /\ b.end \in Addr
      BY <1>1, <1>5, FirstWord, BuiltTyped DEF IsFilled
    <2>2. /\ ~ NonMainArena(header)
          /\ bridge >= 2 * Word /\ bridge % Alignment = 0
          /\ next + Word = b.end
          /\ Readable(mem, next) /\ mem[next] = PREV_INUSE
          /\ Upto(arena, h) - Upto(arena, h - 1) < MaxChunks
      BY <1>3, <2>1 DEF IsClosed, mem
    <2>3. header \in Nat /\ bridge \in Int
      <3>1. header \in Addr
        BY <1>1, <1>3, ReadTyped
      <3> QED
        BY <1>2, <3>1 DEF ChunkSize
    <2>4. ~ arena.main
      <3>1. arena.main => Len(arena.built) = 1
        BY <1>1, MainAsBuilt
      <3> QED
        BY <1>1, <1>5, <3>1, BuiltTyped
    <2>5. W!Full = bridge /\ W!NextCursor = next
      BY SameChunkSize DEF W!Full, W!NextCursor
    <2>6. seen + 1 <= MaxChunks
      BY <1>1, <1>3, <2>2, ArenaWalkAssumption DEF Reached
    <2> HIDE DEF b, bridge
    <2>7. cursor # b.end /\ next <= b.end /\ ~ (next >= AddrLimit) /\ next \in Nat
      <3>1. /\ b.close \in Nat /\ b.end \in Nat /\ b.end < AddrLimit
            /\ AddrLimit \in Nat /\ Word \in Nat \ {0}
        BY <1>2, <2>1, Constants
      <3>2. cursor \in Nat /\ cursor < b.end
        BY <1>3, <2>1, <3>1
      <3>3. bridge \in Nat
        BY <2>2, <2>3, <3>1
      <3> QED
        BY <2>2, <3>1, <3>2, <3>3
    <2>8. ~ W!BadChunk
      <3>1. ~ (seen + 1 > MaxChunks) /\ ~ (bridge < 2 * Word) /\ ~ (next > b.end)
        <4>1. /\ seen \in Nat /\ MaxChunks \in Nat /\ Word \in Nat /\ b.end \in Nat
          BY <1>1, <1>2, <1>3, <2>1, Constants, ArenaWalkAssumption
        <4> HIDE DEF next
        <4> QED
          BY <2>2, <2>3, <2>6, <2>7, <4>1
      <3> QED
        BY <1>1, <2>2, <2>5, <2>7, <3>1 DEF W!BadChunk, W!AddOverflows
    <2>9. W!IsBridge(header, next, mem[next])
      <3>1. W!ChunkSize(mem[next]) = 0
        <4>1. ChunkSize(1) = 0
          BY DEF ChunkSize
        <4> QED
          BY <2>2, <4>1, SameChunkSize DEF PREV_INUSE
      <3>2. next + 0 = next
        BY <2>7
      <3> HIDE DEF next
      <3> QED
        BY <1>1, <2>2, <2>4, <2>7, <3>1, <3>2
           DEF W!IsBridge, W!NonMainArena, NonMainArena, W!AddOverflows, W!Readable,
               Readable, W!PREV_INUSE, PREV_INUSE
    <2> QED
      BY <1>1, <1>5, <2>2, <2>5, <2>7, <2>8, <2>9
  <1> QED
    BY <1>4, <1>5

\* Where the walk over a heap begins.
LEMMA StartAsBuilt ==
  ASSUME HealthyWalk, at = "start"
  PROVE  /\ ~ (region.start > region.end)
         /\ region.start = region.end => Reached = Upto(arena, h)
         /\ region.start < region.end => Readable(mem, region.start)
         /\ cursor = region.start /\ Reached = Upto(arena, h - 1) /\ events = <<>>
  <1> DEFINE b == arena.built[h]
             n == Upto(arena, h - 1) + 1
  <1>1. /\ IsFilled(arena, h) /\ b.upto = Upto(arena, h)
        /\ h \in DOMAIN arena.built /\ IsHealthy(arena) /\ IsArena(arena)
        /\ Upto(arena, h - 1) \in Nat /\ Upto(arena, h) \in Nat /\ Reached \in Nat
        /\ region.start = b.start /\ region.end = b.end
        /\ Upto(arena, h - 1) <= Upto(arena, h)
    BY RegionAsBuilt DEF HealthyWalk
  <1>2. events = <<>> /\ Len(events) = 0
    BY DEF HealthyWalk, WalkIsBuilt
  <1>3. Reached = Upto(arena, h - 1) /\ Reached + 1 = n
    BY <1>1, <1>2 DEF Reached
  <1>4. cursor = HeaderAt(arena, h, n)
    BY <1>3 DEF HealthyWalk, WalkIsBuilt
  <1>5. HeaderAt(arena, h, n) = b.start
    BY <1>1 DEF IsFilled
  <1>6. /\ b.start <= b.close /\ b.close <= b.end
        /\ b.start = b.end \/ Readable(mem, b.start)
        /\ b.start \in Nat /\ b.close \in Nat /\ b.end \in Nat
    <2>1. b.start \in Addr /\ b.close \in Addr /\ b.end \in Addr
      BY <1>1, BuiltTyped
    <2> QED
      BY <1>1, <2>1, FirstWord, Constants DEF Addr
  <1>7. ASSUME b.start = b.end, Reached # Upto(arena, h) PROVE FALSE
    <2>1. n \in Upto(arena, h - 1) + 1 .. b.upto /\ ~ (n > Upto(arena, h)) /\ n \in Nat
      BY <1>1, <1>3, <1>7
    <2>2. IsChunk(arena, h, n) /\ b.start = arena.chunks[n].addr
      BY <1>1, <1>5, <2>1 DEF IsFilled, HeaderAt
    <2>3. arena.chunks[n].size \in Addr
      <3>1. n \in DOMAIN arena.chunks
        BY <1>1, <2>1, BuiltTyped
      <3>2. arena.chunks[n] \in [addr : Addr, size : Addr, in_use : BOOLEAN]
        BY <1>1, <3>1, BuiltTyped
      <3> QED
        BY <3>2
    <2>4. /\ arena.chunks[n].size >= 2 * Word
          /\ b.start + arena.chunks[n].size <= b.close
      BY <2>2 DEF IsChunk
    <2>5. arena.chunks[n].size \in Nat /\ Word \in Nat \ {0}
      BY <2>3, Constants DEF Addr
    <2> HIDE DEF b, n
    <2> QED
      BY <1>6, <1>7, <2>4, <2>5
  <1> QED
    BY <1>1, <1>2, <1>3, <1>4, <1>5, <1>6, <1>7

\* The steps of the walk keep what is reported.
LEMMA WalkStepReports ==
  ASSUME HealthyWalk, WalkStep
  PROVE  ChunksAreBuilt' /\ WalkIsBuilt'
  <1>1. /\ W!Next /\ UNCHANGED vars /\ UNCHANGED <<h, chunks, walkProblems>>
        /\ at \in {"start", "walk"}
    BY DEF WalkStep
  <1>2. /\ UNCHANGED <<arena, mem>> /\ damage = <<>>
        /\ \A i : Upto(arena, i)' = Upto(arena, i)
    BY <1>1 DEF vars, mem, HealthyWalk, ChunksAreBuilt, Upto
  <1>3. /\ Reached \in Nat /\ Upto(arena, h - 1) \in Nat /\ Upto(arena, h) \in Nat
        /\ events \in Seq(W!Events) /\ Len(events) \in Nat /\ DOMAIN events = 1 .. Len(events)
        /\ region.mem = mem /\ Upto(arena, h - 1) <= Upto(arena, h)
        /\ arena.built[h].upto = Upto(arena, h)
    BY <1>1, RegionAsBuilt
  <1>4. Reached <= Upto(arena, h)
        /\ \A n \in DOMAIN events : Reported(events[n], arena.chunks[Upto(arena, h - 1) + n])
    BY <1>1 DEF HealthyWalk, WalkIsBuilt
  <1>5. ASSUME UNCHANGED <<events, damage>>, at' = "done", Reached = Upto(arena, h)
        PROVE  ChunksAreBuilt' /\ WalkIsBuilt'
    <2>1. Over' = Over /\ Reached' = Reached
      BY <1>1, <1>5 DEF Over, Reached, Upto, vars
    <2>2. ChunksAreBuilt'
      BY <1>1, <1>2, <1>5, <2>1 DEF HealthyWalk, ChunksAreBuilt, Reported, Upto
    <2>3. WalkIsBuilt'
      BY <1>1, <1>2, <1>4, <1>5, <2>1 DEF WalkIsBuilt, Reported, Upto
    <2> QED
      BY <2>2, <2>3
  <1>6. CASE at = "start"
    <2>1. /\ ~ (region.start > region.end)
          /\ region.start = region.end => Reached = Upto(arena, h)
          /\ region.start < region.end => Readable(mem, region.start)
          /\ cursor = region.start /\ events = <<>>
      BY <1>6, StartAsBuilt
    <2>2. W!EmptyRegion \/ W!ReadFirst
      BY <1>1, <1>3, <1>6, <2>1
         DEF W!Next, W!RejectRegion, W!FirstUnreadable, W!EndOfRegion, W!TruncateAtChunk,
             W!NextUnreadable, W!StopAtBridge, W!EmitChunk, W!Advance, W!InLoop, W!Readable,
             Readable
    <2>3. CASE W!EmptyRegion
      BY <1>5, <2>1, <2>3 DEF W!EmptyRegion
    <2>4. CASE W!ReadFirst
      <3>1. /\ at' = "walk" /\ header' = mem[cursor] /\ Readable(mem, cursor)
            /\ UNCHANGED <<cursor, seen, events, damage>>
        BY <1>3, <2>1, <2>4 DEF W!ReadFirst, W!Readable, Readable
      <3>2. Over' = Over /\ Reached' = Reached
        BY <1>1, <1>6, <3>1 DEF Over, Reached, Upto, vars
      <3>3. ChunksAreBuilt'
        BY <1>1, <1>2, <3>1, <3>2 DEF HealthyWalk, ChunksAreBuilt, Reported, Upto
      <3>4. seen = Len(events) /\ cursor = HeaderAt(arena, h, Reached + 1)
        BY <1>6 DEF HealthyWalk, WalkIsBuilt
      <3>5. WalkIsBuilt'
        BY <1>1, <1>2, <1>4, <3>1, <3>2, <3>4
           DEF WalkIsBuilt, Reported, Upto, HeaderAt, Readable
      <3> QED
        BY <3>3, <3>5
    <2> QED
      BY <2>2, <2>3, <2>4
  <1>7. CASE at = "walk" /\ Reached = Upto(arena, h)
    <2>1. W!EndOfRegion \/ W!StopAtBridge
      BY <1>1, <1>3, <1>7, BridgeIsSeen
         DEF W!Next, W!RejectRegion, W!EmptyRegion, W!FirstUnreadable, W!ReadFirst,
             W!TruncateAtChunk, W!NextUnreadable, W!EmitChunk, W!Advance, W!InLoop,
             W!Readable, Readable
    <2>2. at' = "done" /\ UNCHANGED <<events, damage>>
      BY <2>1 DEF W!EndOfRegion, W!StopAtBridge
    <2> QED
      BY <1>5, <1>7, <2>2
  <1>8. CASE at = "walk" /\ Reached # Upto(arena, h)
    <2> DEFINE c == arena.chunks[Reached + 1]
               next == W!NextCursor
               e == W!ChunkEvent(cursor, header, mem[next])
               n == Len(events) + 1
    <2>1. Reached < Upto(arena, h)
      BY <1>3, <1>4, <1>8
    <2>2. /\ cursor # region.end /\ ~ W!BadChunk
          /\ next = HeaderAt(arena, h, (Reached + 1) + 1)
          /\ Readable(mem, next) /\ ~ W!IsBridge(header, next, mem[next])
          /\ Reported(e, c)
      BY <1>8, <2>1, ChunkIsReported
    <2>3. W!EmitChunk
      BY <1>1, <1>3, <1>8, <2>2
         DEF W!Next, W!RejectRegion, W!EmptyRegion, W!FirstUnreadable, W!ReadFirst,
             W!EndOfRegion, W!TruncateAtChunk, W!NextUnreadable, W!StopAtBridge, W!Advance,
             W!InLoop, W!Readable, Readable
    <2>4. /\ events' = Append(events, e) /\ at' = "walk" /\ cursor' = next
          /\ seen' = seen + 1 /\ header' = mem[next] /\ UNCHANGED damage
      BY <1>3, <1>8, <2>3 DEF W!EmitChunk, W!Advance
    <2>5. events' \in Seq(W!Events)
      BY <1>1, WalkStepKeepsArena, EventsPlaced DEF HealthyWalk, ArenaIInv, ArenaTypeOK
    <2> HIDE DEF e, c, next
    <2>6. /\ n \in Nat /\ Len(events') = n /\ DOMAIN events' = 1 .. n /\ events'[n] = e
          /\ \A j \in 1 .. Len(events) : events'[j] = events[j]
      BY <1>3, <2>4
    <2>7. Reached' = Reached + 1 /\ Over' = Over /\ Reached + 1 = Upto(arena, h - 1) + n
      BY <1>1, <1>2, <1>3, <1>8, <2>4, <2>6 DEF Over, Reached
    <2>8. ChunksAreBuilt'
      BY <1>1, <1>2, <2>4, <2>7 DEF HealthyWalk, ChunksAreBuilt, Reported, Upto
    <2>9. \A j \in DOMAIN events' : Reported(events'[j], arena.chunks[Upto(arena, h - 1) + j])
      <3> SUFFICES ASSUME NEW j \in DOMAIN events'
                   PROVE  Reported(events'[j], arena.chunks[Upto(arena, h - 1) + j])
        OBVIOUS
      <3>1. CASE j = n
        BY <2>2, <2>6, <2>7, <3>1 DEF c
      <3>2. CASE j # n
        <4>1. j \in 1 .. Len(events)
          BY <1>3, <2>6, <3>2
        <4> QED
          BY <1>3, <1>4, <2>6, <4>1
      <3> QED
        BY <3>1, <3>2
    <2>10. seen' = Len(events') /\ Reached + 1 <= Upto(arena, h)
      <3>1. seen = Len(events)
        BY <1>8 DEF HealthyWalk, WalkIsBuilt
      <3> QED
        BY <1>3, <2>1, <2>4, <2>6, <3>1
    <2>11. WalkIsBuilt'
      BY <1>1, <1>2, <2>2, <2>4, <2>7, <2>9, <2>10
         DEF WalkIsBuilt, Reported, Upto, HeaderAt, Readable
    <2> QED
      BY <2>8, <2>11
  <1> QED
    BY <1>1, <1>6, <1>7, <1>8

LEMMA WalkHeapReports ==
  ASSUME HealthyWalk, WalkHeap
  PROVE  ChunksAreBuilt' /\ WalkIsBuilt'
  <1> DEFINE i == h + 1
  <1>1. /\ UNCHANGED vars /\ pc = "done" /\ at = "idle" /\ h < Len(heaps)
        /\ h' = i /\ at' = "start" /\ cursor' = heaps[i].region_start
        /\ UNCHANGED <<seen, events, damage, chunks, walkProblems>>
    BY DEF WalkHeap
  <1>2. /\ h \in Nat /\ Len(heaps) \in Nat /\ i \in DOMAIN heaps
        /\ events = <<>> /\ seen = 0
    BY <1>1 DEF HealthyWalk, ArenaIInv, ArenaTypeOK, IInv, TypeOK, WalkState, NoWalk
  <1>3. /\ i \in DOMAIN arena.built /\ heaps[i].region_start = arena.built[i].start
        /\ i - 1 = h /\ i - 1 \in 0 .. Len(arena.built)
    <2>1. IsHealthy(arena) /\ Len(heaps) = Len(arena.built) /\ AsBuilt(heaps[i], arena.built[i])
      BY <1>1, <1>2 DEF HealthyWalk, ListIsBuilt
    <2> QED
      BY <1>1, <1>2, <2>1, BuiltTyped DEF AsBuilt
  <1>4. IsFilled(arena, i) /\ Upto(arena, i) = arena.built[i].upto /\ Upto(arena, h) \in Nat
    <2>1. IsHealthy(arena) /\ i # 0
      BY <1>2 DEF HealthyWalk
    <2> QED
      BY <1>3, <2>1, UptoTyped, BuiltTyped DEF IsHealthy, Upto
  <1>5. Over = h /\ Over' = h
    BY <1>1, <1>2 DEF Over
  <1>6. ChunksAreBuilt'
    BY <1>1, <1>5 DEF HealthyWalk, ChunksAreBuilt, Reported, Upto, vars
  <1>7. Reached' = Upto(arena, h)
    <2>1. Len(events') = 0 /\ h' - 1 = h /\ arena' = arena
      BY <1>1, <1>2, <1>3 DEF vars
    <2>2. Upto(arena, h - 1)' = Upto(arena, h)
      BY <2>1 DEF Upto
    <2>3. Reached' = Upto(arena, h - 1)' + Len(events')
      BY DEF Reached
    <2> QED
      BY <1>4, <2>1, <2>2, <2>3
  <1>8. Upto(arena, h) <= Upto(arena, i) /\ HeaderAt(arena, i, Upto(arena, h) + 1) = cursor'
    BY <1>1, <1>3, <1>4 DEF IsFilled
  <1> HIDE DEF i
  <1>9. WalkIsBuilt'
    BY <1>1, <1>2, <1>7, <1>8 DEF WalkIsBuilt, Upto, HeaderAt, vars
  <1> QED
    BY <1>6, <1>9

LEMMA CollectReports ==
  ASSUME HealthyWalk, CollectHeap
  PROVE  ChunksAreBuilt' /\ WalkIsBuilt'
  <1>1. /\ UNCHANGED vars /\ h' = h /\ at = "done" /\ at' = "idle"
        /\ chunks' = chunks \o events /\ walkProblems' = walkProblems \o damage
        /\ damage' = <<>>
    BY DEF CollectHeap
  <1>2. /\ Reached \in Nat /\ Upto(arena, h - 1) \in Nat /\ Upto(arena, h) \in Nat
        /\ events \in Seq(W!Events) /\ Len(events) \in Nat /\ DOMAIN events = 1 .. Len(events)
    BY <1>1, RegionAsBuilt
  <1>3. chunks \in Seq(W!Events)
    BY EventsPlaced DEF HealthyWalk
  <1>4. /\ Over = h - 1 /\ Over' = h
    BY <1>1 DEF Over
  <1>5. /\ Len(chunks) = Upto(arena, h - 1)
        /\ \A n \in DOMAIN chunks : Reported(chunks[n], arena.chunks[n])
        /\ walkProblems = <<>> /\ damage = <<>>
    BY <1>4 DEF HealthyWalk, ChunksAreBuilt
  <1>6. /\ Reached = Upto(arena, h)
        /\ \A n \in DOMAIN events : Reported(events[n], arena.chunks[Upto(arena, h - 1) + n])
    BY <1>1 DEF HealthyWalk, WalkIsBuilt
  <1>7. /\ Len(chunks') = Len(chunks) + Len(events) /\ DOMAIN chunks' = 1 .. Len(chunks')
        /\ DOMAIN chunks = 1 .. Len(chunks) /\ Len(chunks) \in Nat
        /\ \A n \in 1 .. Len(chunks) : chunks'[n] = chunks[n]
        /\ \A n \in DOMAIN chunks' : n \notin 1 .. Len(chunks) =>
             n - Len(chunks) \in 1 .. Len(events) /\ chunks'[n] = events[n - Len(chunks)]
    BY <1>1, <1>2, <1>3
  <1>8. Len(chunks') = Upto(arena, h)
    BY <1>5, <1>6, <1>7 DEF Reached
  <1>9. ASSUME NEW n \in DOMAIN chunks' PROVE Reported(chunks'[n], arena.chunks[n])
    <2>1. CASE n \in 1 .. Len(chunks)
      BY <1>5, <1>7, <2>1
    <2>2. CASE n \notin 1 .. Len(chunks)
      <3>1. n - Len(chunks) \in DOMAIN events /\ chunks'[n] = events[n - Len(chunks)]
        BY <1>2, <1>7, <2>2
      <3>2. Upto(arena, h - 1) + (n - Len(chunks)) = n
        BY <1>2, <1>5, <1>7
      <3> QED
        BY <1>6, <3>1, <3>2
    <2> QED
      BY <2>1, <2>2
  <1>10. ChunksAreBuilt'
    <2>1. walkProblems' = <<>> /\ damage' = <<>>
      BY <1>1, <1>5
    <2> QED
      BY <1>1, <1>4, <1>8, <1>9, <2>1 DEF ChunksAreBuilt, Reported, Upto, vars
  <1>11. WalkIsBuilt'
    BY <1>1 DEF WalkIsBuilt
  <1> QED
    BY <1>10, <1>11

HealthyInv ==
  arena.healthy => IsHealthy(arena) /\ ListIsBuilt /\ ChunksAreBuilt /\ WalkIsBuilt

LEMMA InitHealthy == ArenaInit => HealthyInv
  <1> SUFFICES ASSUME ArenaInit, arena.healthy
               PROVE  IsHealthy(arena) /\ ListIsBuilt /\ ChunksAreBuilt /\ WalkIsBuilt
    BY DEF HealthyInv
  <1>1. IsHealthy(arena)
    BY ArenaWalkAssumption DEF ArenaInit, Init
  <1>2. ListIsBuilt
    BY <1>1, BuiltTyped DEF ArenaInit, Init, ListIsBuilt
  <1>3. ChunksAreBuilt /\ WalkIsBuilt
    BY DEF ArenaInit, ChunksAreBuilt, WalkIsBuilt, Over, Upto
  <1> QED
    BY <1>1, <1>2, <1>3

LEMMA StepHealthy == ArenaIInv /\ HealthyInv /\ [ArenaNext]_allVars => HealthyInv'
  <1> SUFFICES ASSUME ArenaIInv, HealthyInv, [ArenaNext]_allVars, arena'.healthy
               PROVE  /\ IsHealthy(arena)' /\ ListIsBuilt'
                      /\ ChunksAreBuilt' /\ WalkIsBuilt'
    BY DEF HealthyInv
  <1>1. CASE List
    <2>1. Next /\ UNCHANGED walkVars /\ IInv
      BY <1>1 DEF List, ArenaIInv
    <2>2. arena' = arena
      BY <2>1 DEF Next, vars, StartUnreadable, EmptyArena, MainUndeterminable, MainHeap,
             StartChain, CapOrCycle, FirstInfoUnreadable, LaterInfoUnreadable,
             SizeOverflows, AddHeap, OldestHeap, OlderHeapFollows
    <2>3. IsHealthy(arena) /\ ListIsBuilt /\ ChunksAreBuilt /\ WalkIsBuilt
      BY <2>2 DEF HealthyInv
    <2>4. ListIsBuilt'
      BY <2>1, <2>3, StepListIsBuilt
    <2>5. UNCHANGED <<h, at, cursor, header, seen, events, damage, chunks, walkProblems>>
      BY <2>1 DEF walkVars
    <2>6. ChunksAreBuilt' /\ WalkIsBuilt'
      BY <2>2, <2>3, <2>5
         DEF ChunksAreBuilt, WalkIsBuilt, Over, Upto, Reached, Reported, HeaderAt, mem, Readable
    <2>7. IsHealthy(arena)'
      <3>1. PICK a : a = arena
        OBVIOUS
      <3>2. IsHealthy(a) /\ arena' = a
        BY <2>2, <2>3, <3>1
      <3> QED
        BY <3>2
    <2> QED
      BY <2>4, <2>6, <2>7
  <1>2. ASSUME UNCHANGED vars
        PROVE  /\ IsHealthy(arena)' /\ ListIsBuilt' /\ HealthyWalk
    <2>1. arena' = arena
      BY <1>2 DEF vars
    <2>2. IsHealthy(arena) /\ ListIsBuilt /\ ChunksAreBuilt /\ WalkIsBuilt
      BY <2>1 DEF HealthyInv
    <2>3. ListIsBuilt'
      BY <1>2, <2>2 DEF vars, ListIsBuilt, AsBuilt
    <2>4. IsHealthy(arena)'
      <3>1. PICK a : a = arena
        OBVIOUS
      <3>2. IsHealthy(a) /\ arena' = a
        BY <2>1, <2>2, <3>1
      <3> QED
        BY <3>2
    <2> QED
      BY <2>2, <2>3, <2>4 DEF HealthyWalk
  <1>3. CASE WalkHeap
    BY <1>2, <1>3, WalkHeapReports DEF WalkHeap
  <1>4. CASE WalkStep
    BY <1>2, <1>4, WalkStepReports DEF WalkStep
  <1>5. CASE CollectHeap
    BY <1>2, <1>5, CollectReports DEF CollectHeap
  <1>6. CASE UNCHANGED allVars
    <2>1. /\ UNCHANGED vars
          /\ UNCHANGED <<h, at, cursor, header, seen, events, damage, chunks, walkProblems>>
      BY <1>6 DEF allVars, walkVars
    <2>2. arena' = arena
      BY <2>1 DEF vars
    <2>3. ChunksAreBuilt' /\ WalkIsBuilt'
      BY <1>2, <2>1, <2>2
         DEF HealthyWalk, ChunksAreBuilt, WalkIsBuilt, Over, Upto, Reached, Reported, HeaderAt,
             mem, Readable
    <2> QED
      BY <1>2, <2>1, <2>3
  <1> QED
    BY <1>1, <1>3, <1>4, <1>5, <1>6 DEF ArenaNext

(* Of an arena as malloc builds it every chunk below top is reported once, *)
(* with its size and whether it is in use, and nothing else (analyze, with *)
(* heap_list::list and walk_region).                                       *)
THEOREM HealthyArenaAlwaysWhole == ArenaSpec => []HealthyArenaIsReportedWhole
  <1>1. ASSUME ArenaIInv, HealthyInv PROVE HealthyArenaIsReportedWhole
    <2> SUFFICES ASSUME Collected, arena.healthy
                 PROVE  /\ problems \o walkProblems = <<>>
                        /\ [i \in DOMAIN chunks |->
                              [addr   |-> chunks[i].size_field_addr,
                               size   |-> chunks[i].full_size,
                               in_use |-> chunks[i].in_use]] = arena.chunks
      BY DEF HealthyArenaIsReportedWhole
    <2>1. IsHealthy(arena) /\ ListIsBuilt /\ ChunksAreBuilt
      BY <1>1 DEF HealthyInv
    <2>2. pc = "done" /\ at = "idle" /\ h = Len(heaps)
      BY DEF Collected
    <2>3. problems = <<>> /\ walkProblems = <<>>
      BY <2>1 DEF ListIsBuilt, ChunksAreBuilt
    <2>4. Len(chunks) = Len(arena.chunks)
      <3>1. Over = Len(arena.built)
        BY <2>1, <2>2 DEF Over, ListIsBuilt
      <3>2. Upto(arena, Len(arena.built)) = Len(arena.chunks)
        BY <2>1 DEF IsHealthy
      <3> QED
        BY <2>1, <3>1, <3>2 DEF ChunksAreBuilt
    <2>5. chunks \in Seq(W!Events)
      BY <1>1, EventsPlaced
    <2>6. /\ DOMAIN chunks = DOMAIN arena.chunks
          /\ arena.chunks = [i \in DOMAIN arena.chunks |-> arena.chunks[i]]
      <3>1. DOMAIN chunks = 1 .. Len(chunks)
        BY <2>5
      <3>2. arena.chunks \in Seq([addr : Addr, size : Addr, in_use : BOOLEAN])
        BY <2>1 DEF IsHealthy
      <3> QED
        BY <2>1, <2>4, <3>1, <3>2, BuiltTyped
    <2>7. ASSUME NEW i \in DOMAIN chunks
          PROVE  [addr   |-> chunks[i].size_field_addr,
                  size   |-> chunks[i].full_size,
                  in_use |-> chunks[i].in_use] = arena.chunks[i]
      <3>1. Reported(chunks[i], arena.chunks[i])
        BY <2>1 DEF ChunksAreBuilt
      <3>2. arena.chunks[i] \in [addr : Addr, size : Addr, in_use : BOOLEAN]
        BY <2>1, <2>6, BuiltTyped
      <3> QED
        BY <3>1, <3>2 DEF Reported
    <2> QED
      BY <2>3, <2>6, <2>7
  <1>2. ArenaSpec => []HealthyInv
    BY ArenaInvariant, InitHealthy, StepHealthy, PTL DEF ArenaSpec
  <1> QED
    BY ArenaInvariant, <1>1, <1>2, PTL
=============================================================================
