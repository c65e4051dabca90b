----------------------------- MODULE ElfProofs ------------------------------
(***************************************************************************)
(* What is read out of a core file, a libc and its debug file, whatever is *)
(* in them.  Of the core: the queries of memory (CoreImage), its notes     *)
(* (NoteWalk), the file mappings (MappedFiles) and the thread list         *)
(* (Threads), each as it is in the whole of CoreFile.  Of the libraries:   *)
(* where libc was loaded (Locate), and what the check command makes of its *)
(* symbols and build-ids (CheckCommand).                                   *)
(***************************************************************************)
EXTENDS CoreFile, Locate, CheckCommand, FiniteSetTheorems, SequenceTheorems, TLAPS

all == <<stored, walked, vars, fileVars, imageVars>>

-----------------------------------------------------------------------------
(* Memory.  The headers before the one looked at do not have the answer.   *)

Passed(h) ==
  /\ query.op = "read" => ~ C!Backs(h)
  /\ query.op = "bounds" =>
       ~ AddOverflows(h.vaddr, h.filesz) /\ ~ C!Contains(h, query.addr)

ImageInv ==
  /\ C!IsCore(core) /\ C!IsQuery(query)
  /\ i \in Nat \ {0}
  /\ answer = C!Pending => \A j \in C!Loaded : j < i => Passed(core.headers[j])
  /\ C!ReadIsRight
  /\ C!BoundsAreRight

LEMMA HeaderIsHeader ==
  ASSUME C!IsCore(core)
  PROVE  /\ Len(core.headers) \in Nat /\ DOMAIN core.headers = 1 .. Len(core.headers)
         /\ \A j \in 1 .. Len(core.headers) : core.headers[j] \in C!Headers
  BY DEF C!IsCore

(* A header that backs the read holds each of its bytes.                   *)
LEMMA BackedIsHeld ==
  ASSUME AddrLimit \in Nat \ {0}, C!IsQuery(query), C!IsCore(core),
         NEW h \in C!Headers, C!Backs(h)
  PROVE  /\ C!FileOffset(h) + query.len <= core.size
         /\ \A d \in 0 .. query.len - 1 : C!Holds(h, query.addr + d, C!FileOffset(h) + d)
  <1>1. /\ query.addr \in Nat /\ query.len \in Nat
        /\ h.vaddr \in Nat /\ h.filesz \in Nat /\ h.offset \in Nat
    BY DEF C!IsQuery, C!Headers, C!Addr
  <1>2. /\ query.addr >= h.vaddr /\ query.addr - h.vaddr + query.len <= h.filesz
        /\ C!FileOffset(h) = h.offset + (query.addr - h.vaddr)
        /\ C!FileOffset(h) + query.len <= core.size
    BY DEF C!Backs, C!FileOffset, C!Within
  <1>3. ASSUME NEW d \in 0 .. query.len - 1
        PROVE  C!Holds(h, query.addr + d, C!FileOffset(h) + d)
    BY <1>1, <1>2 DEF C!Holds
  <1> QED
    BY <1>2, <1>3

(* One that does not lacks a byte of it in the file: the first or the last.*)
LEMMA UnbackedLacks ==
  ASSUME AddrLimit \in Nat \ {0}, C!IsQuery(query), C!IsCore(core),
         NEW h \in C!Headers, ~ C!Backs(h)
  PROVE  \E d \in 0 .. query.len - 1 : \A o \in 0 .. core.size - 1 :
           ~ C!Holds(h, query.addr + d, o)
  <1>1. /\ query.addr \in Addr /\ query.len \in Addr /\ query.len > 0 /\ core.size \in Addr
        /\ h.vaddr \in Addr /\ h.filesz \in Addr /\ h.offset \in Addr
    BY DEF C!IsQuery, C!IsCore, C!Headers, C!Addr, Addr
  <1> DEFINE last == query.len - 1
  <1>2. 0 \in 0 .. last /\ last \in 0 .. last
    BY <1>1 DEF Addr
  <1>3. CASE query.addr < h.vaddr
    <2>1. \A o : ~ C!Holds(h, query.addr + 0, o)
      BY <1>1, <1>3 DEF C!Holds, Addr
    <2> QED
      BY <1>2, <2>1
  <1>4. CASE query.addr >= h.vaddr
    <2>1. \A o \in 0 .. core.size - 1 : ~ C!Holds(h, query.addr + last, o)
      BY <1>1, <1>4 DEF C!Holds, C!Backs, C!FileOffset, C!Within, C!AddOverflows, Addr
    <2> QED
      BY <1>2, <2>1
  <1> QED
    BY <1>1, <1>3, <1>4 DEF Addr

LEMMA InitImage == CoreInit => ImageInv
  <1> SUFFICES ASSUME CoreInit PROVE ImageInv
    OBVIOUS
  <1>1. i = 1 /\ answer = C!Pending /\ C!IsCore(core) /\ C!IsQuery(query)
    BY CoreFileAssumption DEF CoreInit, C!Init, C!QueriesOK
  <1>2. answer.is = "pending" /\ answer # C!None
    BY <1>1 DEF C!Pending, C!None
  <1>3. \A j \in C!Loaded : ~ j < i
    BY <1>1, HeaderIsHeader DEF C!Loaded
  <1> QED
    BY <1>1, <1>2, <1>3 DEF ImageInv, C!ReadIsRight, C!BoundsAreRight

LEMMA StepImage == ImageInv /\ [C!Next]_imageVars => ImageInv'
  <1> SUFFICES ASSUME ImageInv, [C!Next]_imageVars PROVE ImageInv'
    OBVIOUS
  <1>1. AddrLimit \in Nat \ {0}
    BY AddrLimitAssumption
  <1>2. /\ C!IsCore(core) /\ C!IsQuery(query) /\ i \in Nat \ {0}
        /\ Len(core.headers) \in Nat /\ DOMAIN core.headers = 1 .. Len(core.headers)
        /\ \A j \in 1 .. Len(core.headers) : core.headers[j] \in C!Headers
        /\ C!Loaded = {j \in 1 .. Len(core.headers) : core.headers[j].load}
    BY HeaderIsHeader DEF ImageInv, C!Loaded
  <1>3. ASSUME UNCHANGED <<core, query>>
        PROVE  /\ C!IsCore(core)' /\ C!IsQuery(query)' /\ C!Loaded' = C!Loaded
               /\ \A h : Passed(h)' = Passed(h)
    <2>1. C!IsCore(core') /\ C!IsQuery(query')
      BY <1>2, <1>3
    <2>2. C!IsCore(core)' /\ C!IsQuery(query)'
      BY <2>1 DEF C!IsCore, C!IsQuery
    <2>3. C!Loaded' = C!Loaded /\ \A h : Passed(h)' = Passed(h)
      BY <1>3 DEF C!Loaded, Passed, C!Backs, C!Within, C!FileOffset
    <2> QED
      BY <2>2, <2>3
  <1>4. CASE UNCHANGED imageVars
    <2>1. UNCHANGED <<core, query, i, answer>>
      BY <1>4 DEF imageVars
    <2>2. C!ReadIsRight' /\ C!BoundsAreRight'
      BY <1>3, <2>1 DEF ImageInv, C!ReadIsRight, C!BoundsAreRight
    <2> QED
      BY <1>2, <1>3, <2>1, <2>2 DEF ImageInv
  <1>5. ASSUME UNCHANGED <<core, query, answer>>, i' = i + 1, answer = C!Pending,
               i <= Len(core.headers),
               core.headers[i].load => Passed(core.headers[i])
        PROVE  ImageInv'
    <2>1. C!ReadIsRight' /\ C!BoundsAreRight'
      BY <1>3, <1>5 DEF ImageInv, C!ReadIsRight, C!BoundsAreRight
    <2>2. \A j \in C!Loaded : j < i + 1 => Passed(core.headers[j])
      BY <1>2, <1>5 DEF ImageInv
    <2> QED
      BY <1>2, <1>3, <1>5, <2>1, <2>2 DEF ImageInv
  <1>6. ASSUME UNCHANGED <<core, query, i>>, answer' # C!Pending,
               C!ReadIsRight', C!BoundsAreRight'
        PROVE  ImageInv'
    <2>1. C!Pending' = C!Pending
      BY DEF C!Pending
    <2> QED
      BY <1>2, <1>3, <1>6, <2>1 DEF ImageInv
  <1>7. CASE C!NotLoaded
    BY <1>5, <1>7 DEF C!NotLoaded, C!At, C!Continue, C!Header
  <1>8. CASE C!BoundsOverflow
    <2>1. /\ UNCHANGED <<core, query, i>> /\ answer' = C!None /\ query.op = "bounds"
          /\ i <= Len(core.headers) /\ core.headers[i].load
          /\ AddOverflows(core.headers[i].vaddr, core.headers[i].filesz)
          /\ answer = C!Pending
      BY <1>8 DEF C!BoundsOverflow, C!At, C!Answer, C!Header, C!AddOverflows, AddOverflows
    <2>2. C!None # C!Pending /\ C!None.is # "some"
      BY DEF C!None, C!Pending
    <2>3. i \in C!Loaded
      BY <1>2, <2>1
    <2>4. \A j \in C!Loaded :
            C!Contains(core.headers[j], query.addr) =>
              \E l \in C!Loaded :
                l <= j /\ C!AddOverflows(core.headers[l].vaddr, core.headers[l].filesz)
      <3> SUFFICES ASSUME NEW j \in C!Loaded, C!Contains(core.headers[j], query.addr)
                   PROVE  i <= j
        BY <2>1, <2>3 DEF C!AddOverflows, AddOverflows
      <3>1. ~ j < i
        BY <2>1 DEF ImageInv, Passed
      <3> QED
        BY <1>2, <3>1
    <2>5. C!ReadIsRight'
      BY <2>1 DEF C!ReadIsRight
    <2>6. C!BoundsAreRight'
      BY <1>3, <2>1, <2>2, <2>4 DEF C!BoundsAreRight
    <2> QED
      BY <1>6, <2>1, <2>2, <2>5, <2>6
  <1>9. CASE C!BoundsScan
    <2>1. /\ query.op = "bounds" /\ answer = C!Pending
          /\ i <= Len(core.headers) /\ core.headers[i].load
          /\ ~ AddOverflows(core.headers[i].vaddr, core.headers[i].filesz)
      BY <1>9 DEF C!BoundsScan, C!At, C!Header, C!AddOverflows, AddOverflows
    <2>2. CASE ~ C!Contains(core.headers[i], query.addr)
      <3>1. UNCHANGED <<core, query, answer>> /\ i' = i + 1
        BY <1>9, <2>2 DEF C!BoundsScan, C!Continue, C!Header
      <3> QED
        BY <1>5, <2>1, <2>2, <3>1 DEF Passed
    <2>3. CASE C!Contains(core.headers[i], query.addr)
      <3> DEFINE h == core.headers[i]
      <3>1. UNCHANGED <<core, query, i>> /\ answer' = C!Some(h.vaddr, h.vaddr + h.filesz)
        BY <1>9, <2>3 DEF C!BoundsScan, C!Answer, C!Header
      <3>2. /\ answer'.is = "some" /\ answer'.first = h.vaddr
            /\ answer'.past = h.vaddr + h.filesz
            /\ answer' # C!Pending /\ answer' # C!None
        BY <3>1 DEF C!Some, C!Pending, C!None
      <3>3. i \in C!Loaded /\ h.vaddr \in Nat /\ h.filesz \in Nat
        BY <1>1, <1>2, <2>1 DEF C!Headers, C!Addr
      <3>4. query.addr \in h.vaddr .. h.vaddr + h.filesz - 1
        BY <2>3 DEF C!Contains
      <3>5. \A a \in h.vaddr .. h.vaddr + h.filesz - 1 : a - h.vaddr \in 0 .. h.filesz - 1
        BY <3>3
      <3>6. C!BoundsAreRight'
        BY <1>3, <3>1, <3>2, <3>3, <3>4, <3>5 DEF C!BoundsAreRight
      <3>7. C!ReadIsRight'
        BY <2>1, <3>1 DEF C!ReadIsRight
      <3> QED
        BY <1>6, <3>1, <3>2, <3>6, <3>7
    <2> QED
      BY <2>2, <2>3
  <1>10. CASE C!ReadScan
    <2>1. /\ query.op = "read" /\ answer = C!Pending
          /\ i <= Len(core.headers) /\ core.headers[i].load
      BY <1>10 DEF C!ReadScan, C!At, C!Header
    <2>2. CASE ~ C!Backs(core.headers[i])
      <3>1. UNCHANGED <<core, query, answer>> /\ i' = i + 1
        BY <1>10, <2>2 DEF C!ReadScan, C!Continue, C!Header
      <3> QED
        BY <1>5, <2>1, <2>2, <3>1 DEF Passed
    <2>3. CASE C!Backs(core.headers[i])
      <3> DEFINE h == core.headers[i]
                 first == C!FileOffset(h)
      <3>1. UNCHANGED <<core, query, i>> /\ answer' = C!Some(first, first + query.len)
        BY <1>10, <2>3 DEF C!ReadScan, C!Answer, C!Header
      <3>2. i \in C!Loaded /\ h \in C!Headers
        BY <1>2, <2>1
      <3>3. /\ first + query.len <= core.size
            /\ \A d \in 0 .. query.len - 1 : C!Holds(h, query.addr + d, first + d)
        BY <1>1, <1>2, <2>3, <3>2, BackedIsHeld
      <3> HIDE DEF first
      <3>4. /\ answer'.is = "some" /\ answer'.first = first
            /\ answer'.past = first + query.len
            /\ answer' # C!Pending /\ answer' # C!None
        BY <3>1 DEF C!Some, C!Pending, C!None
      <3>5. C!ReadIsRight'
        BY <1>3, <3>1, <3>2, <3>3, <3>4 DEF C!ReadIsRight
      <3>6. C!BoundsAreRight'
        BY <2>1, <3>1 DEF C!BoundsAreRight
      <3> QED
        BY <1>6, <3>1, <3>4, <3>5, <3>6
    <2> QED
      BY <2>2, <2>3
  <1>11. CASE C!NotFound
    <2>1. /\ UNCHANGED <<core, query, i>> /\ answer' = C!None
          /\ i > Len(core.headers) /\ answer = C!Pending
      BY <1>11 DEF C!NotFound, C!Answer
    <2>2. C!None # C!Pending /\ C!None.is # "some"
      BY DEF C!None, C!Pending
    <2>3. \A j \in C!Loaded : Passed(core.headers[j]) /\ core.headers[j] \in C!Headers
      BY <1>2, <2>1 DEF ImageInv
    <2>4. C!BoundsAreRight'
      BY <1>3, <2>1, <2>2, <2>3 DEF C!BoundsAreRight, Passed
    <2>5. query.op = "read" =>
            \A j \in C!Loaded : \E d \in 0 .. query.len - 1 : \A o \in 0 .. core.size - 1 :
              ~ C!Holds(core.headers[j], query.addr + d, o)
      BY <1>1, <1>2, <2>3, UnbackedLacks DEF Passed
    <2>6. C!ReadIsRight'
      BY <1>3, <2>1, <2>2, <2>5 DEF C!ReadIsRight
    <2> QED
      BY <1>6, <2>1, <2>2, <2>4, <2>6
  <1> QED
    BY <1>4, <1>7, <1>8, <1>9, <1>10, <1>11 DEF C!Next

-----------------------------------------------------------------------------
(* The mapped files.  A byte of the descriptor belongs to the item that    *)
(* stands there.                                                           *)

IsSequence(s) == \E N : s \in Seq(N)

LEMMA AppendIsSequence ==
  ASSUME NEW s, IsSequence(s), NEW e
  PROVE  /\ IsSequence(Append(s, e))
         /\ Len(s) \in Nat /\ Len(Append(s, e)) = Len(s) + 1
         /\ \A j \in 1 .. Len(s) + 1 : Append(s, e)[j] = IF j = Len(s) + 1 THEN e ELSE s[j]
  <1>1. PICK N : s \in Seq(N)
    BY DEF IsSequence
  <1>2. s \in Seq(N \cup {e})
    BY <1>1
  <1>3. Append(s, e) \in Seq(N \cup {e})
    BY <1>2
  <1> QED
    BY <1>2, <1>3 DEF IsSequence

(* The m elements behind the first c.                                      *)
LEMMA PartIs ==
  ASSUME NEW s, IsSequence(s), NEW c \in Nat, NEW m \in Nat, c + m <= Len(s)
  PROVE  /\ IsSequence(SubSeq(s, c + 1, c + m)) /\ Len(SubSeq(s, c + 1, c + m)) = m
         /\ \A j \in 1 .. m : SubSeq(s, c + 1, c + m)[j] = s[c + j]
  <1> DEFINE a == c + 1
             b == c + m
  <1>0. a = c + 1 /\ b = c + m
    OBVIOUS
  <1>1. PICK N : s \in Seq(N)
    BY DEF IsSequence
  <1> HIDE DEF a, b
  <1>2. Len(s) \in Nat /\ a \in 1 .. Len(s) + 1 /\ b \in 0 .. Len(s) /\ b = a + m - 1
    BY <1>0, <1>1
  <1>3. SubSeq(s, a, b) \in Seq(N) /\ Len(SubSeq(s, a, b)) = m
    <2>1. CASE m = 0
      BY <1>1, <1>2, <2>1
    <2>2. CASE m # 0
      BY <1>1, <1>2, <2>2
    <2> QED
      BY <2>1, <2>2
  <1>4. \A j \in 1 .. m : SubSeq(s, a, b)[j] = s[c + j]
    BY <1>0, <1>1, <1>2
  <1>5. IsSequence(SubSeq(s, a, b))
    BY <1>3 DEF IsSequence
  <1> QED
    BY <1>3, <1>4, <1>5 DEF a, b

LEMMA SubSeqIs ==
  ASSUME NEW s, IsSequence(s), NEW c \in Nat, NEW m \in Nat, c + m <= Len(s),
         NEW a, a = c + 1, NEW b, b = c + m
  PROVE  /\ IsSequence(SubSeq(s, a, b)) /\ Len(SubSeq(s, a, b)) = m
         /\ \A j \in 1 .. m : SubSeq(s, a, b)[j] = s[c + j]
  BY PartIs

LEMMA RangePart ==
  ASSUME NEW s, IsSequence(s), NEW c \in Nat, c + 6 <= Len(s)
  PROVE  /\ IsSequence(SubSeq(s, c + 1, c + 6)) /\ Len(SubSeq(s, c + 1, c + 6)) = 6
         /\ \A j \in 1 .. 6 : SubSeq(s, c + 1, c + 6)[j] = s[c + j]
  <1> DEFINE m == 6
  <1>1. m \in Nat /\ c + m <= Len(s)
    OBVIOUS
  <1> HIDE DEF m
  <1>2. /\ IsSequence(SubSeq(s, c + 1, c + m)) /\ Len(SubSeq(s, c + 1, c + m)) = m
        /\ \A j \in 1 .. m : SubSeq(s, c + 1, c + m)[j] = s[c + j]
    BY <1>1, PartIs
  <1> QED
    BY <1>2 DEF m

LEMMA PathPart ==
  ASSUME NEW s, IsSequence(s), NEW c \in Nat, c + 1 <= Len(s)
  PROVE  /\ IsSequence(SubSeq(s, c + 1, c + 1)) /\ Len(SubSeq(s, c + 1, c + 1)) = 1
         /\ SubSeq(s, c + 1, c + 1)[1] = s[c + 1]
  <1> DEFINE m == 1
  <1>1. m \in Nat /\ c + m <= Len(s) /\ 1 \in 1 .. m
    OBVIOUS
  <1> HIDE DEF m
  <1>2. /\ IsSequence(SubSeq(s, c + 1, c + m)) /\ Len(SubSeq(s, c + 1, c + m)) = m
        /\ \A j \in 1 .. m : SubSeq(s, c + 1, c + m)[j] = s[c + j]
    BY <1>1, PartIs
  <1>3. SubSeq(s, c + 1, c + m)[1] = s[c + 1]
    BY <1>1, <1>2
  <1> QED
    BY <1>2, <1>3 DEF m

LEMMA SameSequence ==
  ASSUME NEW s, IsSequence(s), NEW t, IsSequence(t), Len(s) = Len(t),
         \A j \in 1 .. Len(s) : s[j] = t[j]
  PROVE  s = t
  <1>1. PICK N : s \in Seq(N)
    BY DEF IsSequence
  <1>2. PICK P : t \in Seq(P)
    BY DEF IsSequence
  <1> QED
    BY <1>1, <1>2

LEMMA FunctionIsSequence ==
  ASSUME NEW n \in Nat, NEW f, DOMAIN f = 1 .. n, f = [j \in 1 .. n |-> f[j]]
  PROVE  Len(f) = n /\ IsSequence(f)
  <1>1. f \in [1 .. n -> {f[j] : j \in 1 .. n}]
    OBVIOUS
  <1>2. f \in Seq({f[j] : j \in 1 .. n}) /\ Len(f) = n
    BY <1>1
  <1> QED
    BY <1>2 DEF IsSequence

LEMMA Sizes ==
  /\ M!WordBytes = 2 /\ M!TableStart = 4 /\ M!RangeSize = 6 /\ M!PathSize = 2
  /\ \A t : M!TableEnd(t) = 4 + t.n * 6
  BY DEF M!WordBytes, M!TableStart, M!RangeSize, M!PathSize, M!TableEnd

LEMMA ItemAt ==
  ASSUME NEW r \in Nat \ {0}, NEW size \in {2, 6}, NEW b \in 1 .. size,
         NEW p, p = (r - 1) * size + b
  PROVE  M!ItemOf(p, size) = r /\ M!ByteOf(p, size) = b
  <1>1. CASE size = 2
    BY <1>1 DEF M!ItemOf, M!ByteOf
  <1>2. CASE size = 6
    BY <1>2 DEF M!ItemOf, M!ByteOf
  <1> QED
    BY <1>1, <1>2

LEMMA DescIs ==
  ASSUME M!IsNote(note)
  PROVE  /\ note.n \in Nat /\ note.len \in Nat /\ note.count \in Nat
         /\ note.len <= 4 + note.n * 6 + note.n * 2
         /\ IsSequence(M!Desc) /\ Len(M!Desc) = note.len
         /\ \A r \in 1 .. note.n, b \in 1 .. 6 :
              4 + (r - 1) * 6 + b <= note.len =>
                M!Desc[4 + (r - 1) * 6 + b] = M!RangeBytes(r)[b]
         /\ \A r \in 1 .. note.n, b \in 1 .. 2 :
              4 + note.n * 6 + (r - 1) * 2 + b <= note.len =>
                M!Desc[4 + note.n * 6 + (r - 1) * 2 + b] = M!PathBytes(r)[b]
  <1>1. /\ note.n \in Nat /\ note.len \in Nat /\ note.count \in Nat
        /\ note.len <= 4 + note.n * 6 + note.n * 2
    BY Sizes DEF M!IsNote
  <1> DEFINE n == note.n
             len == note.len
             desc == M!Desc
  <1>2. desc = [b \in 1 .. len |->
                  IF b <= 4 THEN M!HeadBytes[b]
                  ELSE IF b <= 4 + n * 6
                         THEN M!RangeBytes(M!ItemOf(b - 4, 6))[M!ByteOf(b - 4, 6)]
                  ELSE M!PathBytes(M!ItemOf(b - (4 + n * 6), 2))[M!ByteOf(b - (4 + n * 6), 2)]]
    BY Sizes DEF M!Desc
  <1>3. n \in Nat /\ len \in Nat
    BY <1>1
  <1> HIDE DEF desc, n, len
  <1>4. DOMAIN desc = 1 .. len /\ desc = [b \in 1 .. len |-> desc[b]]
    BY <1>2
  <1>5. IsSequence(desc) /\ Len(desc) = len
    BY <1>3, <1>4, FunctionIsSequence
  <1>6. ASSUME NEW r \in 1 .. n, NEW b \in 1 .. 6, 4 + (r - 1) * 6 + b <= len
        PROVE  desc[4 + (r - 1) * 6 + b] = M!RangeBytes(r)[b]
    <2> DEFINE p == (r - 1) * 6 + b
    <2>0. r \in Nat \ {0} /\ p = (r - 1) * 6 + b
      BY <1>3
    <2>2. p \in Nat \ {0} /\ p <= n * 6 /\ 4 + p \in 1 .. len
      BY <1>3, <1>6
    <2> HIDE DEF p
    <2>1. M!ItemOf(p, 6) = r /\ M!ByteOf(p, 6) = b
      BY <2>0, ItemAt
    <2>3. ~ 4 + p <= 4 /\ 4 + p <= 4 + n * 6 /\ (4 + p) - 4 = p
      BY <1>3, <2>2
    <2>4. desc[4 + p] = M!RangeBytes(M!ItemOf(p, 6))[M!ByteOf(p, 6)]
      BY <1>2, <2>2, <2>3
    <2>5. desc[4 + p] = M!RangeBytes(r)[b]
      BY <2>1, <2>4
    <2>6. 4 + (r - 1) * 6 + b = 4 + p
      BY <1>3 DEF p
    <2> QED
      BY <2>5, <2>6
  <1>7. ASSUME NEW r \in 1 .. n, NEW b \in 1 .. 2, 4 + n * 6 + (r - 1) * 2 + b <= len
        PROVE  desc[4 + n * 6 + (r - 1) * 2 + b] = M!PathBytes(r)[b]
    <2> DEFINE p == (r - 1) * 2 + b
               e == 4 + n * 6
    <2>0. r \in Nat \ {0} /\ p = (r - 1) * 2 + b
      BY <1>3
    <2>2. p \in Nat \ {0} /\ e \in Nat /\ 4 <= e /\ e + p \in 1 .. len
      BY <1>3, <1>7
    <2>3. 4 + n * 6 + (r - 1) * 2 + b = e + p
      BY <1>3
    <2>a. desc = [x \in 1 .. len |->
                    IF x <= 4 THEN M!HeadBytes[x]
                    ELSE IF x <= e THEN M!RangeBytes(M!ItemOf(x - 4, 6))[M!ByteOf(x - 4, 6)]
                    ELSE M!PathBytes(M!ItemOf(x - e, 2))[M!ByteOf(x - e, 2)]]
      BY <1>2
    <2> HIDE DEF p, e
    <2>1. M!ItemOf(p, 2) = r /\ M!ByteOf(p, 2) = b
      BY <2>0, ItemAt
    <2>4. ~ e + p <= 4 /\ ~ e + p <= e /\ (e + p) - e = p
      BY <2>2
    <2>5. desc[e + p] = M!PathBytes(M!ItemOf(p, 2))[M!ByteOf(p, 2)]
      BY <2>a, <2>2, <2>4
    <2> QED
      BY <2>1, <2>3, <2>5
  <1> QED
    BY <1>1, <1>5, <1>6, <1>7 DEF desc, n, len

(* A whole range of the table is the range of one mapping.                 *)
LEMMA RangeIs ==
  ASSUME M!IsNote(note), NEW r \in 1 .. note.n, 4 + r * 6 <= note.len
  PROVE  M!Bytes(4 + (r - 1) * 6, 6) = M!RangeBytes(r)
  <1> DEFINE c == 4 + (r - 1) * 6
             s == M!Desc
             x == SubSeq(s, c + 1, c + 6)
             y == M!RangeBytes(r)
  <1>1. /\ note.n \in Nat /\ note.len \in Nat /\ IsSequence(s) /\ Len(s) = note.len
        /\ \A b \in 1 .. 6 : 4 + (r - 1) * 6 + b <= note.len => s[4 + (r - 1) * 6 + b] = y[b]
    BY DescIs
  <1>2. c \in Nat /\ c + 6 <= note.len /\ note.len \in Nat
    BY <1>1
  <1>3. \A b \in 1 .. 6 : c + b <= note.len
    <2> HIDE DEF c
    <2> QED
      BY <1>2
  <1>4. M!Bytes(4 + (r - 1) * 6, 6) = x
    BY DEF M!Bytes
  <1>5. IsSequence(y) /\ Len(y) = 6
    <2>1. y \in Seq({y[b] : b \in 1 .. 6}) /\ Len(y) = 6
      BY DEF M!RangeBytes
    <2> QED
      BY <2>1 DEF IsSequence
  <1>6. \A b \in 1 .. 6 : s[c + b] = y[b]
    BY <1>1, <1>3
  <1>7. IsSequence(s) /\ c + 6 <= Len(s)
    BY <1>1, <1>2
  <1> HIDE DEF c, s, y
  <1>8. IsSequence(x) /\ Len(x) = 6 /\ \A b \in 1 .. 6 : x[b] = s[c + b]
    BY <1>2, <1>7, RangePart
  <1>9. \A b \in 1 .. 6 : x[b] = y[b]
    BY <1>6, <1>8
  <1> HIDE DEF x
  <1>10. x = y
    BY <1>5, <1>8, <1>9, SameSequence
  <1> QED
    BY <1>4, <1>10 DEF y

(* Behind a whole table the next terminator ends the next path.            *)
LEMMA PathIs ==
  ASSUME M!IsNote(note), NEW f \in 1 .. note.n, off = 4 + note.n * 6 + (f - 1) * 2,
         M!Terminators # {}
  PROVE  /\ off \in Nat /\ off + 2 <= note.len /\ M!FirstTerminator = off + 2
         /\ SubSeq(M!Desc, off + 1, M!FirstTerminator - 1) = <<M!Byte("path", f)>>
  <1> DEFINE s == M!Desc
  <1>1. /\ note.n \in Nat /\ note.len \in Nat /\ IsSequence(s) /\ Len(s) = note.len
    BY DescIs
  <1>2. off \in Nat
    BY <1>1
  <1>3. /\ off + 1 <= note.len => s[off + 1] = M!Byte("path", f)
        /\ off + 2 <= note.len => s[off + 2] = M!NUL
    <2>1. \A b \in 1 .. 2 : off + b <= note.len => s[off + b] = M!PathBytes(f)[b]
      BY DescIs
    <2> QED
      BY <2>1 DEF M!PathBytes
  <1>4. M!Byte("path", f) # M!NUL
    BY DEF M!Byte, M!NUL
  <1>5. M!Terminators = {e \in off + 1 .. note.len : s[e] = M!NUL}
    BY <1>1 DEF M!Terminators
  <1> HIDE DEF s
  <1>6. off + 2 <= note.len /\ off + 2 \in M!Terminators /\ off + 1 \notin M!Terminators
    <2>1. PICK e \in M!Terminators : TRUE
      OBVIOUS
    <2>2. e \in off + 1 .. note.len /\ s[e] = M!NUL
      BY <1>5, <2>1
    <2>3. off + 1 <= note.len
      BY <1>1, <1>2, <2>2
    <2>4. e # off + 1
      BY <1>3, <1>4, <2>2, <2>3
    <2>5. off + 2 <= note.len
      BY <1>1, <1>2, <2>2, <2>4
    <2>6. off + 2 \in off + 1 .. note.len
      BY <1>1, <1>2, <2>5
    <2> QED
      BY <1>3, <1>4, <1>5, <2>3, <2>5, <2>6
  <1>7. \A e \in M!Terminators : off + 2 <= e
    <2> SUFFICES ASSUME NEW e \in M!Terminators PROVE off + 2 <= e
      OBVIOUS
    <2>1. e \in off + 1 .. note.len /\ e # off + 1
      BY <1>5, <1>6
    <2> QED
      BY <1>1, <1>2, <2>1
  <1>8. M!FirstTerminator = off + 2
    <2>1. \E e \in M!Terminators : \A x \in M!Terminators : e <= x
      BY <1>6, <1>7
    <2>2. /\ M!FirstTerminator \in M!Terminators
          /\ \A x \in M!Terminators : M!FirstTerminator <= x
      BY <2>1 DEF M!FirstTerminator
    <2>3. M!FirstTerminator \in Nat
      BY <1>1, <1>2, <1>5, <2>2
    <2> QED
      BY <1>2, <1>6, <1>7, <2>2, <2>3
  <1>9. SubSeq(s, off + 1, off + 1) = <<M!Byte("path", f)>>
    <2> DEFINE x == SubSeq(s, off + 1, off + 1)
               y == <<M!Byte("path", f)>>
    <2>1. off + 1 <= Len(s) /\ 1 \in 1 .. 1
      BY <1>1, <1>2, <1>6 DEF s
    <2>2. s[off + 1] = M!Byte("path", f)
      BY <1>1, <1>2, <1>3, <1>6
    <2>3. IsSequence(x) /\ Len(x) = 1 /\ x[1] = s[off + 1]
      <3>1. IsSequence(s)
        BY <1>1 DEF s
      <3> QED
        BY <1>2, <2>1, <3>1, PathPart
    <2>4. IsSequence(y) /\ Len(y) = 1 /\ y[1] = M!Byte("path", f)
      <3>1. y \in Seq({M!Byte("path", f)})
        OBVIOUS
      <3> QED
        BY <3>1 DEF IsSequence
    <2> HIDE DEF x, y
    <2>5. x = y
      BY <2>2, <2>3, <2>4, SameSequence
    <2> QED
      BY <2>5 DEF x, y
  <1> QED
    BY <1>2, <1>6, <1>8, <1>9 DEF s

LEMMA PrefixIs ==
  ASSUME NEW s, IsSequence(s), NEW t, IsSequence(t), Len(s) <= Len(t),
         \A j \in 1 .. Len(s) : s[j] = t[j]
  PROVE  M!IsPrefix(s, t)
  <1>1. Len(s) \in Nat /\ Len(t) \in Nat
    BY DEF IsSequence
  <1> DEFINE n == Len(s)
             x == SubSeq(s, 1, n)
             y == SubSeq(t, 1, n)
  <1>2. n \in Nat /\ 1 = 0 + 1 /\ n = 0 + n /\ 0 + n <= Len(s) /\ 0 + n <= Len(t)
        /\ \A j \in 1 .. n : 0 + j = j
    BY <1>1
  <1>a. \A j \in 1 .. n : s[j] = t[j]
    OBVIOUS
  <1> HIDE DEF n
  <1>3. IsSequence(x) /\ Len(x) = n /\ \A j \in 1 .. n : x[j] = s[0 + j]
    BY <1>2, SubSeqIs
  <1>4. IsSequence(y) /\ Len(y) = n /\ \A j \in 1 .. n : y[j] = t[0 + j]
    BY <1>2, SubSeqIs
  <1>5. \A j \in 1 .. n : x[j] = y[j]
    BY <1>2, <1>3, <1>4, <1>a
  <1> HIDE DEF x, y
  <1>6. x = y
    BY <1>3, <1>4, <1>5, SameSequence
  <1> QED
    BY <1>6 DEF M!IsPrefix, x, y, n

(* What is read of the table is where it belongs, and of a whole table the *)
(* paths are read one by one.                                              *)
PathsRead ==
  /\ pc \in {"paths", "done"} => Len(ranges) = note.n
  /\ pc = "paths" => off = 4 + note.n * 6 + Len(files) * 2
  /\ Len(files) <= Len(ranges)
  /\ \A f \in 1 .. Len(files) : files[f] = M!Mapping(f)
  /\ pc = "done" =>
       Len(files) = note.n \/ 4 + note.n * 6 + Len(files) * 2 + 2 > note.len

FilesInv ==
  /\ M!IsNote(note)
  /\ pc \in {"count", "table", "paths", "done"}
  /\ IsSequence(ranges) /\ IsSequence(files)
  /\ pc = "count" => ranges = <<>>
  /\ pc \in {"count", "table"} => off = 4 + Len(ranges) * 6 /\ files = <<>>
  /\ Len(ranges) <= M!Count
  /\ \A r \in 1 .. Len(ranges) :
       4 + r * 6 <= note.len /\ ranges[r] = M!Bytes(4 + (r - 1) * 6, 6)
  /\ M!TableIntact => PathsRead

LEMMA EmptyIsSequence == IsSequence(<<>>) /\ Len(<<>>) = 0
  <1>1. <<>> \in Seq({})
    OBVIOUS
  <1> QED
    BY <1>1 DEF IsSequence

LEMMA CountIs ==
  ASSUME M!IsNote(note)
  PROVE  /\ MaxMappings \in Nat /\ M!Count \in Nat /\ M!Count <= note.count
         /\ M!TableIntact => M!Count = note.n
  BY CoreFileAssumption DEF M!InputsOK, M!IsNote, M!Count, M!TableIntact

LEMMA InitFiles == CoreInit => FilesInv
  <1> SUFFICES ASSUME CoreInit PROVE FilesInv
    OBVIOUS
  <1>1. /\ M!IsNote(note) /\ pc = "count" /\ off = 4 /\ ranges = <<>> /\ files = <<>>
    BY CoreFileAssumption, Sizes DEF CoreInit, M!Init, M!InputsOK
  <1>2. Len(ranges) = 0 /\ Len(files) = 0 /\ IsSequence(ranges) /\ IsSequence(files)
    BY <1>1, EmptyIsSequence
  <1>3. M!Count \in Nat
    BY <1>1, CountIs
  <1>4. PathsRead
    BY <1>1, <1>2 DEF PathsRead
  <1> QED
    BY <1>1, <1>2, <1>3, <1>4 DEF FilesInv

LEMMA StepFiles == FilesInv /\ [M!Next]_fileVars => FilesInv'
  <1> SUFFICES ASSUME FilesInv, [M!Next]_fileVars PROVE FilesInv'
    OBVIOUS
  <1>1. /\ M!IsNote(note) /\ IsSequence(ranges) /\ IsSequence(files)
        /\ Len(ranges) \in Nat /\ Len(files) \in Nat
        /\ note.n \in Nat /\ note.len \in Nat /\ Len(M!Desc) = note.len
        /\ M!Count \in Nat /\ (M!TableIntact => M!Count = note.n)
    BY DescIs, CountIs DEF FilesInv, IsSequence
  <1>2. UNCHANGED note
    BY DEF fileVars, M!Next, M!NoCount, M!HasCount, M!ReadRange, M!TableEnds, M!ReadPath,
           M!PathsEnd
  <1>3. /\ M!IsNote(note)' /\ M!Count' = M!Count /\ M!TableIntact' = M!TableIntact
        /\ \A x, y : M!Bytes(x, y)' = M!Bytes(x, y)
        /\ M!TableIntact => note.len >= 4 + note.n * 6
    BY <1>1, <1>2, Sizes DEF M!IsNote, M!Count, M!TableIntact, M!Bytes, M!Desc
  <1>4. CASE UNCHANGED fileVars
    <2>1. UNCHANGED <<note, pc, off, ranges, files>>
      BY <1>4 DEF fileVars
    <2>2. PathsRead' = PathsRead
      BY <2>1 DEF PathsRead, M!Mapping
    <2> QED
      BY <1>3, <2>1, <2>2 DEF FilesInv
  <1>5. CASE M!NoCount \/ M!HasCount \/ M!TableEnds
    <2>1. /\ UNCHANGED <<note, off, ranges, files>>
          /\ \/ pc = "count" /\ pc' \in {"done", "table"} /\ (pc' = "done" => note.len < 2)
             \/ pc = "table" /\ pc' = "paths" /\ ~ M!TableGoesOn
      BY <1>1, <1>5, Sizes DEF M!NoCount, M!HasCount, M!TableEnds
    <2>2. M!TableIntact => PathsRead'
      <3> SUFFICES ASSUME M!TableIntact PROVE PathsRead'
        OBVIOUS
      <3>1. files = <<>> /\ Len(files) = 0 /\ off = 4 + Len(ranges) * 6 /\ Len(ranges) <= note.n
        BY <1>1, <2>1, EmptyIsSequence DEF FilesInv
      <3>2. ~ pc' = "done"
        BY <1>1, <1>3, <2>1
      <3>3. pc' = "paths" => Len(ranges) = note.n
        BY <1>1, <1>3, <2>1, <3>1, Sizes DEF M!TableGoesOn
      <3> QED
        BY <1>1, <2>1, <3>1, <3>2, <3>3 DEF PathsRead
    <2> QED
      BY <1>1, <1>3, <2>1, <2>2 DEF FilesInv
  <1>6. CASE M!ReadRange
    <2> DEFINE m == Len(ranges)
    <2>1. /\ UNCHANGED <<note, pc, files>> /\ pc = "table" /\ m < M!Count /\ off + 6 <= note.len
          /\ ranges' = Append(ranges, M!Bytes(off, 6)) /\ off' = off + 6
          /\ off = 4 + m * 6
      BY <1>1, <1>6, Sizes DEF M!ReadRange, M!TableGoesOn, FilesInv
    <2>2. /\ IsSequence(ranges') /\ Len(ranges') = m + 1
          /\ \A r \in 1 .. m + 1 : ranges'[r] = IF r = m + 1 THEN M!Bytes(off, 6) ELSE ranges[r]
      BY <1>1, <2>1, AppendIsSequence
    <2> HIDE DEF m
    <2>a. m \in Nat /\ m = Len(ranges)
      BY <1>1 DEF m
    <2>3. off' = 4 + Len(ranges') * 6 /\ Len(ranges') <= M!Count
      BY <1>1, <2>1, <2>2, <2>a
    <2>4. \A r \in 1 .. m + 1 : 4 + r * 6 <= note.len /\ ranges'[r] = M!Bytes(4 + (r - 1) * 6, 6)
      <3> SUFFICES ASSUME NEW r \in 1 .. m + 1
                   PROVE  4 + r * 6 <= note.len /\ ranges'[r] = M!Bytes(4 + (r - 1) * 6, 6)
        OBVIOUS
      <3>1. CASE r = m + 1
        <4>1. 4 + (r - 1) * 6 = off /\ 4 + r * 6 = off + 6
          BY <2>1, <2>a, <3>1
        <4> QED
          BY <2>1, <2>2, <3>1, <4>1
      <3>2. CASE r # m + 1
        <4>1. r \in 1 .. Len(ranges)
          BY <2>a, <3>2
        <4> QED
          BY <2>2, <3>2, <4>1 DEF FilesInv
      <3> QED
        BY <3>1, <3>2
    <2>5. files' = <<>> /\ Len(files') = 0
      BY <2>1, EmptyIsSequence DEF FilesInv
    <2>6. PathsRead'
      BY <2>1, <2>2, <2>5, <2>a DEF PathsRead
    <2> QED
      BY <1>1, <1>3, <2>1, <2>2, <2>3, <2>4, <2>5, <2>6, <2>a DEF FilesInv
  <1>7. CASE M!ReadPath
    <2> DEFINE m == Len(files)
               new == [range |-> ranges[m + 1],
                       path |-> SubSeq(M!Desc, off + 1, M!FirstTerminator - 1)]
    <2>1. /\ UNCHANGED <<note, pc, ranges>> /\ pc = "paths" /\ m < Len(ranges)
          /\ M!Terminators # {}
          /\ files' = Append(files, new) /\ off' = M!FirstTerminator
      BY <1>7 DEF M!ReadPath
    <2> HIDE DEF new
    <2>2. /\ IsSequence(files') /\ Len(files') = m + 1
          /\ \A f \in 1 .. m + 1 : files'[f] = IF f = m + 1 THEN new ELSE files[f]
      BY <1>1, <2>1, AppendIsSequence
    <2> HIDE DEF m
    <2>a. m \in Nat /\ m = Len(files)
      BY <1>1 DEF m
    <2>3. ASSUME M!TableIntact PROVE PathsRead'
      <3>1. /\ Len(ranges) = note.n /\ off = 4 + note.n * 6 + m * 2
            /\ \A f \in 1 .. m : files[f] = M!Mapping(f)
        BY <2>1, <2>3, <2>a DEF FilesInv, PathsRead
      <3>2. m + 1 \in 1 .. note.n /\ (m + 1) - 1 = m
        BY <1>1, <2>1, <2>a, <3>1
      <3>3. /\ off \in Nat /\ M!FirstTerminator = off + 2
            /\ SubSeq(M!Desc, off + 1, M!FirstTerminator - 1) = <<M!Byte("path", m + 1)>>
        BY <1>1, <2>1, <3>1, <3>2, PathIs
      <3>4. ranges[m + 1] = M!RangeBytes(m + 1)
        <4>1. /\ 4 + (m + 1) * 6 <= note.len
              /\ ranges[m + 1] = M!Bytes(4 + ((m + 1) - 1) * 6, 6)
          BY <3>1, <3>2 DEF FilesInv
        <4> QED
          BY <1>1, <3>2, <4>1, RangeIs
      <3>5. new = M!Mapping(m + 1)
        BY <3>3, <3>4 DEF new, M!Mapping
      <3>6. \A f : M!Mapping(f)' = M!Mapping(f)
        BY DEF M!Mapping
      <3>7. \A f \in 1 .. m + 1 : files'[f] = M!Mapping(f)
        BY <2>2, <2>a, <3>1, <3>5
      <3>8. off' = 4 + note.n * 6 + (m + 1) * 2
        <4>1. off' = off + 2 /\ off = 4 + note.n * 6 + m * 2
          BY <2>1, <3>1, <3>3
        <4>2. note.n \in Nat /\ m \in Nat
          BY <1>1, <2>a
        <4> QED
          BY <4>1, <4>2
      <3>9. m + 1 <= Len(ranges)
        BY <3>1, <3>2
      <3> QED
        BY <2>1, <2>2, <3>1, <3>6, <3>7, <3>8, <3>9 DEF PathsRead
    <2> QED
      BY <1>1, <1>3, <2>1, <2>2, <2>3 DEF FilesInv
  <1>8. CASE M!PathsEnd
    <2>1. /\ UNCHANGED <<note, off, ranges, files>> /\ pc = "paths" /\ pc' = "done"
          /\ Len(files) = Len(ranges) \/ M!Terminators = {}
      BY <1>8 DEF M!PathsEnd
    <2>2. ASSUME M!TableIntact PROVE PathsRead'
      <3>1. /\ Len(ranges) = note.n /\ off = 4 + note.n * 6 + Len(files) * 2
            /\ Len(files) <= Len(ranges)
            /\ \A f \in 1 .. Len(files) : files[f] = M!Mapping(f)
        BY <2>1, <2>2 DEF FilesInv, PathsRead
      <3>2. Len(files) = note.n \/ 4 + note.n * 6 + Len(files) * 2 + 2 > note.len
        <4> SUFFICES ASSUME Len(files) # note.n, off + 2 <= note.len
                     PROVE  M!Terminators # {}
          BY <1>1, <2>1, <3>1
        <4> DEFINE f == Len(files) + 1
        <4>a. Len(files) < note.n
          BY <1>1, <3>1
        <4>b. f - 1 = Len(files) /\ f \in 1 .. note.n
          BY <1>1, <4>a
        <4>1. f \in 1 .. note.n /\ off = 4 + note.n * 6 + (f - 1) * 2 /\ off \in Nat
          BY <1>1, <3>1, <4>b
        <4>c. 2 \in 1 .. 2 /\ 4 + note.n * 6 + (f - 1) * 2 + 2 <= note.len
          BY <4>1
        <4>d. \A b \in 1 .. 2 :
                4 + note.n * 6 + (f - 1) * 2 + b <= note.len =>
                  M!Desc[4 + note.n * 6 + (f - 1) * 2 + b] = M!PathBytes(f)[b]
          BY <1>1, <4>1, DescIs
        <4>2. M!Desc[4 + note.n * 6 + (f - 1) * 2 + 2] = M!PathBytes(f)[2]
          BY <4>c, <4>d
        <4> HIDE DEF f
        <4>3. M!Desc[off + 2] = M!NUL
          BY <4>1, <4>2 DEF M!PathBytes
        <4>4. off + 2 \in off + 1 .. Len(M!Desc)
          BY <1>1, <4>1
        <4> QED
          BY <4>3, <4>4 DEF M!Terminators
      <3> QED
        BY <2>1, <3>1, <3>2 DEF PathsRead, M!Mapping
    <2> QED
      BY <1>1, <1>3, <2>1, <2>2 DEF FilesInv
  <1> QED
    BY <1>4, <1>5, <1>6, <1>7, <1>8 DEF M!Next

LEMMA PathsFit ==
  ASSUME NEW n \in Nat, NEW m \in Nat, NEW len \in Nat, 4 + n * 6 <= len,
         len <= 4 + n * 6 + n * 2, m = n \/ 4 + n * 6 + m * 2 + 2 > len
  PROVE  m >= (len - (4 + n * 6)) \div 2
  <1> DEFINE rest == len - (4 + n * 6)
  <1>1. rest \in Nat /\ rest < m * 2 + 2
    <2>1. CASE m = n
      BY <2>1
    <2>2. CASE 4 + n * 6 + m * 2 + 2 > len
      BY <2>2
    <2> QED
      BY <2>1, <2>2
  <1> HIDE DEF rest
  <1>2. rest \div 2 <= m /\ rest \div 2 \in Nat
    BY <1>1
  <1> QED
    BY <1>2 DEF rest

LEMMA FilesAreWhole == FilesInv => WholeMappingsOnly
  <1> SUFFICES ASSUME FilesInv PROVE M!WholeMappingsOnly
    BY DEF WholeMappingsOnly
  <1>1. /\ M!IsNote(note) /\ IsSequence(ranges) /\ IsSequence(files)
        /\ Len(ranges) \in Nat /\ Len(files) \in Nat /\ DOMAIN ranges = 1 .. Len(ranges)
        /\ note.n \in Nat /\ note.len \in Nat /\ note.count \in Nat
        /\ note.len <= 4 + note.n * 6 + note.n * 2
        /\ M!Count \in Nat /\ M!Count <= note.count /\ (M!TableIntact => M!Count = note.n)
    BY DescIs, CountIs DEF FilesInv, IsSequence
  <1>2. ASSUME M!TableIntact
        PROVE  M!IsPrefix(files, M!Mappings)
    <2>1. /\ Len(files) <= note.n
          /\ \A f \in 1 .. Len(files) : files[f] = M!Mapping(f)
      BY <1>1, <1>2 DEF FilesInv, PathsRead
    <2>2. /\ DOMAIN M!Mappings = 1 .. note.n
          /\ M!Mappings = [j \in 1 .. note.n |-> M!Mappings[j]]
          /\ \A j \in 1 .. note.n : M!Mappings[j] = M!Mapping(j)
      BY DEF M!Mappings
    <2>3. IsSequence(M!Mappings) /\ Len(M!Mappings) = note.n
      BY <1>1, <2>2, FunctionIsSequence
    <2>4. \A f \in 1 .. Len(files) : files[f] = M!Mappings[f]
      <3> SUFFICES ASSUME NEW f \in 1 .. Len(files) PROVE files[f] = M!Mappings[f]
        OBVIOUS
      <3>1. f \in 1 .. note.n
        BY <1>1, <2>1
      <3> QED
        BY <2>1, <2>2, <3>1
    <2> QED
      BY <1>1, <2>1, <2>3, <2>4, PrefixIs
  <1>3. ASSUME M!TableIntact, pc = "done"
        PROVE  Len(files) >= (note.len - M!TableEnd(note)) \div M!PathSize
    <2> DEFINE m == Len(files)
               n == note.n
               len == note.len
    <2>1. /\ m = n \/ 4 + n * 6 + m * 2 + 2 > len
          /\ 4 + n * 6 <= len /\ len <= 4 + n * 6 + n * 2
          /\ m \in Nat /\ n \in Nat /\ len \in Nat
      <3>1. m = n \/ 4 + n * 6 + m * 2 + 2 > len
        BY <1>3 DEF FilesInv, PathsRead
      <3>2. len >= 4 + n * 6
        BY <1>3, Sizes DEF M!TableIntact
      <3>3. len <= 4 + n * 6 + n * 2 /\ m \in Nat /\ n \in Nat /\ len \in Nat
        BY <1>1
      <3> HIDE DEF m, n, len
      <3> QED
        BY <3>1, <3>2, <3>3
    <2> HIDE DEF m, n, len
    <2>2. m >= (len - (4 + n * 6)) \div 2
      BY <2>1, PathsFit
    <2>3. Len(files) >= (note.len - (4 + note.n * 6)) \div 2
      BY <2>2 DEF m, n, len
    <2> QED
      BY <2>3, Sizes
  <1>4. ASSUME note.count <= note.n, NEW r \in DOMAIN ranges
        PROVE  ranges[r] = M!RangeBytes(r)
    <2>1. r \in 1 .. note.n
      BY <1>1, <1>4 DEF FilesInv
    <2>2. 4 + r * 6 <= note.len /\ ranges[r] = M!Bytes(4 + (r - 1) * 6, 6)
      BY <1>1 DEF FilesInv
    <2> QED
      BY <1>1, <2>1, <2>2, RangeIs
  <1> QED
    BY <1>2, <1>3, <1>4 DEF M!WholeMappingsOnly

-----------------------------------------------------------------------------
(* The notes of a core are a sequence: the walk over a segment comes to an *)
(* end, because the next header is behind the one before it.               *)

\* Induction over the numbers, for a set.
LEMMA NatSetInduction ==
  ASSUME NEW P, 0 \in P, \A n \in Nat : n \in P => n + 1 \in P
  PROVE  Nat \subseteq P
  <1> DEFINE R == OpToRel(<, Nat)
             bad == {n \in Nat : n \notin P}
  <1> SUFFICES ASSUME bad # {} PROVE FALSE
    OBVIOUS
  <1>1. PICK x \in bad : \A y \in bad : <<y, x>> \notin R
    <2> HIDE DEF R
    <2>1. IsWellFoundedOn(R, Nat)
      BY NatLessThanWellFounded DEF R
    <2> QED
      BY <2>1, WFMin
  <1>2. x \in Nat /\ x \notin P /\ x # 0
    BY <1>1
  <1>3. x - 1 \in Nat /\ (x - 1) + 1 = x /\ x - 1 < x
    BY <1>2
  <1>4. <<x - 1, x>> \in R
    BY <1>2, <1>3 DEF OpToRel
  <1>5. x - 1 \in P
    BY <1>1, <1>3, <1>4
  <1> QED
    BY <1>2, <1>3, <1>5

LEMMA RoundedUp ==
  ASSUME NEW n \in Nat
  PROVE  align4(n) \in Nat /\ n <= align4(n)
  <1> DEFINE m == n + Align - 1
             q == m \div Align
  <1>1. Align \in Nat /\ Align > 0 /\ m \in Nat
    BY NoteWalkAssumption
  <1>2. q \in Nat /\ m % Align \in 0 .. Align - 1 /\ m = (q * Align) + (m % Align)
    <2> HIDE DEF m
    <2> QED
      BY <1>1
  <1>3. q * Align \in Nat
    BY <1>1, <1>2
  <1>4. align4(n) = q * Align
    BY DEF align4
  <1>5. m = n + Align - 1
    OBVIOUS
  <1> HIDE DEF m, q
  <1> QED
    BY <1>1, <1>2, <1>3, <1>4, <1>5

LEMMA MultiplePositive ==
  ASSUME NEW x \in Int, NEW a \in Nat, x >= 1
  PROVE  x * a >= a
  OBVIOUS

(* Division by Align is unique.                                            *)
LEMMA Division ==
  ASSUME NEW d \in Nat, NEW r \in 0 .. Align - 1
  PROVE  (d * Align + r) \div Align = d
  <1> DEFINE b == d * Align + r
             e == b \div Align
             s == b % Align
  <1>1. Align \in Nat /\ Align > 0
    BY NoteWalkAssumption
  <1>2. d * Align \in Nat /\ b \in Nat
    BY <1>1
  <1>3. e \in Nat /\ s \in 0 .. Align - 1 /\ b = e * Align + s
    <2> HIDE DEF b
    <2> QED
      BY <1>1, <1>2
  <1>4. e * Align + s = d * Align + r
    BY <1>3
  <1> HIDE DEF e, s, b
  <1>5. (e - d) * Align = e * Align - d * Align /\ (d - e) * Align = d * Align - e * Align
    BY <1>1, <1>3
  <1>6. ~ e - d >= 1
    <2> SUFFICES ASSUME e - d >= 1 PROVE FALSE
      OBVIOUS
    <2>1. (e - d) * Align >= Align
      BY <1>1, <1>3, MultiplePositive
    <2>2. e * Align \in Nat
      BY <1>1, <1>3
    <2> HIDE DEF b
    <2> QED
      BY <1>1, <1>2, <1>3, <1>4, <1>5, <2>1, <2>2
  <1>7. ~ d - e >= 1
    <2> SUFFICES ASSUME d - e >= 1 PROVE FALSE
      OBVIOUS
    <2>1. (d - e) * Align >= Align
      BY <1>1, <1>3, MultiplePositive
    <2>2. e * Align \in Nat
      BY <1>1, <1>3
    <2> QED
      BY <1>1, <1>2, <1>3, <1>4, <1>5, <2>1, <2>2
  <1>8. e = d
    BY <1>3, <1>6, <1>7
  <1> QED
    BY <1>8 DEF e, b

LEMMA AlignShift ==
  ASSUME NEW q \in Nat, NEW n \in Nat
  PROVE  align4(q * Align + n) = q * Align + align4(n)
  <1> DEFINE m == n + Align - 1
             d == m \div Align
             r == m % Align
  <1>1. Align \in Nat /\ Align > 0 /\ m \in Nat
    BY NoteWalkAssumption
  <1>2. d \in Nat /\ r \in 0 .. Align - 1 /\ m = d * Align + r
    <2> HIDE DEF m
    <2> QED
      BY <1>1
  <1>3. align4(n) = d * Align /\ n + Align - 1 = m
    BY DEF align4
  <1> HIDE DEF m, d, r
  <1>4. d * Align \in Nat /\ q * Align \in Nat /\ (q + d) * Align = q * Align + d * Align
    BY <1>1, <1>2
  <1>5. q * Align + n + Align - 1 = (q + d) * Align + r
    BY <1>1, <1>2, <1>3, <1>4
  <1>6. (q * Align + n + Align - 1) \div Align = q + d
    <2>1. q + d \in Nat
      BY <1>2
    <2> QED
      BY <1>2, <1>5, <2>1, Division
  <1> QED
    BY <1>3, <1>4, <1>6 DEF align4

Multiples == {q * Align : q \in Nat}

(* What is aligned stays where it is, and shifts what is behind it.        *)
LEMMA Aligned ==
  /\ HeaderCells \in Multiples /\ 0 \in Multiples
  /\ \A n \in Nat : align4(n) \in Multiples
  /\ \A m \in Multiples :
       /\ m \in Nat /\ align4(m) = m
       /\ \A n \in Nat : align4(m + n) = m + align4(n)
       /\ \A n \in Multiples : m + n \in Multiples
  <1>1. Align \in Nat /\ Align > 0
    BY NoteWalkAssumption
  <1>2. HeaderCells \in Multiples
    <2>1. HeaderCells \in Nat /\ HeaderCells % Align = 0
      BY NoteWalkAssumption DEF HeaderCells
    <2>2. HeaderCells = (HeaderCells \div Align) * Align /\ HeaderCells \div Align \in Nat
      <3> HIDE DEF HeaderCells
      <3> QED
        BY <1>1, <2>1
    <2> QED
      BY <2>2 DEF Multiples
  <1>3. 0 \in Multiples
    BY <1>1 DEF Multiples
  <1>4. ASSUME NEW n \in Nat PROVE align4(n) \in Multiples
    <2> DEFINE m == n + Align - 1
    <2>1. m \in Nat /\ align4(n) = (m \div Align) * Align
      BY <1>1 DEF align4
    <2>2. m \div Align \in Nat
      <3> HIDE DEF m
      <3> QED
        BY <1>1, <2>1
    <2> QED
      BY <2>1, <2>2 DEF Multiples
  <1>5. ASSUME NEW m \in Multiples
        PROVE  /\ m \in Nat /\ align4(m) = m
               /\ \A n \in Nat : align4(m + n) = m + align4(n)
               /\ \A n \in Multiples : m + n \in Multiples
    <2>1. PICK q \in Nat : m = q * Align
      BY DEF Multiples
    <2>2. m \in Nat
      BY <1>1, <2>1
    <2>3. \A n \in Nat : align4(m + n) = m + align4(n)
      BY <2>1, AlignShift
    <2>4. align4(0) = 0
      <3>1. Align - 1 \in 0 .. Align - 1 /\ 0 * Align = 0 /\ 0 * Align + (Align - 1) = Align - 1
        BY <1>1
      <3>2. (Align - 1) \div Align = 0
        BY <3>1, Division
      <3>3. 0 + Align - 1 = Align - 1
        BY <1>1
      <3> QED
        BY <1>1, <3>1, <3>2, <3>3 DEF align4
    <2>5. align4(m + 0) = m + 0
      BY <2>3, <2>4
    <2>6. ASSUME NEW n \in Multiples PROVE m + n \in Multiples
      <3>1. PICK p \in Nat : n = p * Align
        BY DEF Multiples
      <3>2. m + n = (q + p) * Align /\ q + p \in Nat
        BY <1>1, <2>1, <3>1
      <3> QED
        BY <3>2 DEF Multiples
    <2> QED
      BY <2>2, <2>3, <2>5, <2>6
  <1> QED
    BY <1>2, <1>3, <1>4, <1>5

-----------------------------------------------------------------------------
(* FlattenSeq, which joins sequences, by induction over their number.       *)

Joined(f, seqs, m) ==
  f = [j \in 1 .. m |-> IF j = 1 THEN seqs[j] ELSE f[j - 1] \o seqs[j]]

Joins(f, seqs, n) ==
  /\ f[1] = seqs[1]
  /\ \A j \in Nat \ {0} : j + 1 <= n => f[j + 1] = f[j] \o seqs[j + 1]

(* FlattenSeq joins the sequences one by one.                              *)
LEMMA FlattenIs ==
  ASSUME NEW S, NEW n \in Nat \ {0}, NEW seqs \in Seq(Seq(S)), Len(seqs) = n
  PROVE  \E f : FlattenSeq(seqs) = f[n] /\ Joins(f, seqs, n)
  <1> DEFINE P == {m \in Nat : m <= n => \E f : Joined(f, seqs, m)}
  <1>1. 0 \in P
    <2>1. Joined([j \in 1 .. 0 |-> <<>>], seqs, 0)
      BY DEF Joined
    <2> QED
      BY <2>1
  <1>2. ASSUME NEW m \in Nat, m \in P PROVE m + 1 \in P
    <2> SUFFICES ASSUME m + 1 <= n PROVE \E g : Joined(g, seqs, m + 1)
      OBVIOUS
    <2>1. PICK h : Joined(h, seqs, m)
      BY <1>2
    <2>2. \A j \in 1 .. m : h[j] = IF j = 1 THEN seqs[j] ELSE h[j - 1] \o seqs[j]
      BY <2>1 DEF Joined
    <2> DEFINE last == IF m + 1 = 1 THEN seqs[m + 1] ELSE h[m] \o seqs[m + 1]
    <2>3. last = IF m + 1 = 1 THEN seqs[m + 1] ELSE h[m] \o seqs[m + 1]
      OBVIOUS
    <2> HIDE DEF last
    <2> DEFINE g == [j \in 1 .. m + 1 |-> IF j = m + 1 THEN last ELSE h[j]]
    <2>4. (\A j \in 1 .. m : g[j] = h[j]) /\ g[m + 1] = last
      OBVIOUS
    <2>5. g = [j \in 1 .. m + 1 |-> g[j]]
      OBVIOUS
    <2> HIDE DEF g
    <2>6. ASSUME NEW j \in 1 .. m + 1
          PROVE  g[j] = IF j = 1 THEN seqs[j] ELSE g[j - 1] \o seqs[j]
      <3>1. CASE j = m + 1
        <4>1. j # 1 => (j - 1 = m /\ m \in 1 .. m)
          BY <3>1
        <4>2. j # 1 => g[j - 1] = h[m]
          BY <2>4, <4>1
        <4> QED
          BY <2>3, <2>4, <3>1, <4>2
      <3>2. CASE j \in 1 .. m
        <4>1. j # 1 => j - 1 \in 1 .. m
          BY <3>2
        <4>2. g[j] = h[j] /\ (j # 1 => g[j - 1] = h[j - 1])
          BY <2>4, <3>2, <4>1
        <4> QED
          BY <2>2, <3>2, <4>2
      <3> QED
        BY <3>1, <3>2
    <2>7. [j \in 1 .. m + 1 |-> g[j]]
            = [j \in 1 .. m + 1 |-> IF j = 1 THEN seqs[j] ELSE g[j - 1] \o seqs[j]]
      BY <2>6
    <2> QED
      BY <2>5, <2>7 DEF Joined
  <1>3. n \in P
    <2> HIDE DEF P
    <2> QED
      BY <1>1, <1>2, NatSetInduction
  <1> DEFINE flat == CHOOSE f : Joined(f, seqs, n)
  <1>4. Joined(flat, seqs, n)
    BY <1>3
  <1>5. FlattenSeq(seqs) = flat[n]
    BY DEF FlattenSeq, Joined
  <1> HIDE DEF flat
  <1>6. \A j \in 1 .. n : flat[j] = IF j = 1 THEN seqs[j] ELSE flat[j - 1] \o seqs[j]
    BY <1>4 DEF Joined
  <1>7. ASSUME NEW j \in Nat \ {0}, j + 1 <= n PROVE flat[j + 1] = flat[j] \o seqs[j + 1]
    <2>1. j + 1 \in 1 .. n /\ j + 1 # 1 /\ (j + 1) - 1 = j
      BY <1>7
    <2> QED
      BY <1>6, <2>1
  <1>8. flat[1] = seqs[1]
    BY <1>6
  <1>9. Joins(flat, seqs, n)
    BY <1>7, <1>8 DEF Joins
  <1> QED
    BY <1>5, <1>9

LEMMA FlattenType ==
  ASSUME NEW S, NEW seqs \in Seq(Seq(S))
  PROVE  FlattenSeq(seqs) \in Seq(S)
  <1> DEFINE n == Len(seqs)
  <1>0. n \in Nat /\ \A j \in 1 .. n : seqs[j] \in Seq(S)
    OBVIOUS
  <1>1. CASE n = 0
    <2>1. FlattenSeq(seqs) = seqs
      BY <1>1 DEF FlattenSeq
    <2>2. seqs = <<>>
      BY <1>1
    <2> QED
      BY <2>1, <2>2
  <1>2. CASE n # 0
    <2>1. PICK f : FlattenSeq(seqs) = f[n] /\ Joins(f, seqs, n)
      BY <1>0, <1>2, FlattenIs
    <2> DEFINE Q == {m \in Nat : m \in 1 .. n => f[m] \in Seq(S)}
    <2>2. 0 \in Q
      OBVIOUS
    <2>3. ASSUME NEW m \in Nat, m \in Q PROVE m + 1 \in Q
      <3> SUFFICES ASSUME m + 1 \in 1 .. n PROVE f[m + 1] \in Seq(S)
        OBVIOUS
      <3>1. CASE m = 0
        BY <1>0, <2>1, <3>1 DEF Joins
      <3>2. CASE m # 0
        <4>1. m \in 1 .. n /\ m \in Nat \ {0} /\ m + 1 <= n
          BY <3>2
        <4>2. f[m] \in Seq(S) /\ seqs[m + 1] \in Seq(S)
          BY <1>0, <2>3, <4>1
        <4>3. f[m + 1] = f[m] \o seqs[m + 1]
          BY <2>1, <4>1 DEF Joins
        <4> QED
          BY <4>2, <4>3, ConcatProperties
      <3> QED
        BY <3>1, <3>2
    <2>4. n \in Q
      <3> HIDE DEF Q, n
      <3> QED
        BY <1>0, <2>2, <2>3, NatSetInduction
    <2> QED
      BY <1>0, <1>2, <2>1, <2>4
  <1> QED
    BY <1>1, <1>2

(* What is joined of the first m sequences grows by the next one.          *)
Flat(f, m) == FlattenSeq([j \in 1 .. m |-> f[j]])

LEMMA FlatNone == \A f : Flat(f, 0) = <<>>
  <1> SUFFICES ASSUME NEW f PROVE Flat(f, 0) = <<>>
    OBVIOUS
  <1> DEFINE none == [j \in 1 .. 0 |-> f[j]]
  <1>1. none = <<>> /\ Len(none) = 0
    OBVIOUS
  <1>2. FlattenSeq(none) = none
    BY <1>1 DEF FlattenSeq
  <1> QED
    BY <1>1, <1>2 DEF Flat

LEMMA FlatType ==
  ASSUME NEW S, NEW m \in Nat, NEW f, \A j \in 1 .. m : f[j] \in Seq(S)
  PROVE  Flat(f, m) \in Seq(S)
  <1> DEFINE part == [j \in 1 .. m |-> f[j]]
  <1>1. part \in [1 .. m -> Seq(S)]
    OBVIOUS
  <1>2. part \in Seq(Seq(S))
    BY <1>1
  <1> HIDE DEF part
  <1>3. FlattenSeq(part) \in Seq(S)
    BY <1>2, FlattenType
  <1> QED
    BY <1>3 DEF Flat, part

LEMMA FlatMore ==
  ASSUME NEW S, NEW m \in Nat, NEW f, \A j \in 1 .. m + 1 : f[j] \in Seq(S)
  PROVE  Flat(f, m + 1) = Flat(f, m) \o f[m + 1]
  <1> DEFINE more == [j \in 1 .. m + 1 |-> f[j]]
             less == [j \in 1 .. m |-> f[j]]
  <1>1. /\ more \in Seq(Seq(S)) /\ Len(more) = m + 1 /\ \A j \in 1 .. m + 1 : more[j] = f[j]
        /\ less \in Seq(Seq(S)) /\ Len(less) = m /\ \A j \in 1 .. m : less[j] = f[j]
    <2>1. more \in [1 .. m + 1 -> Seq(S)] /\ less \in [1 .. m -> Seq(S)]
      OBVIOUS
    <2>2. more \in Seq(Seq(S)) /\ Len(more) = m + 1
      BY <2>1
    <2>3. less \in Seq(Seq(S)) /\ Len(less) = m
      BY <2>1
    <2> QED
      BY <2>2, <2>3
  <1>2. Flat(f, m + 1) = FlattenSeq(more) /\ Flat(f, m) = FlattenSeq(less)
    BY DEF Flat
  <1> HIDE DEF more, less
  <1>3. PICK g : FlattenSeq(more) = g[m + 1] /\ Joins(g, more, m + 1)
    <2>1. m + 1 \in Nat \ {0}
      OBVIOUS
    <2> QED
      BY <1>1, <2>1, FlattenIs
  <1>4. CASE m = 0
    <2>1. FlattenSeq(more) = f[1]
      BY <1>1, <1>3, <1>4 DEF Joins
    <2>2. Flat(f, m) = <<>>
      BY <1>4, FlatNone
    <2>3. f[1] \in Seq(S)
      BY <1>4
    <2>4. <<>> \o f[1] = f[1]
      BY <2>3
    <2> QED
      BY <1>2, <1>4, <2>1, <2>2, <2>4
  <1>5. CASE m # 0
    <2>1. PICK h : FlattenSeq(less) = h[m] /\ Joins(h, less, m)
      <3>1. m \in Nat \ {0}
        BY <1>5
      <3> QED
        BY <1>1, <3>1, FlattenIs
    <2> DEFINE Q == {j \in Nat : j \in 1 .. m => g[j] = h[j]}
    <2>2. 0 \in Q
      OBVIOUS
    <2>3. ASSUME NEW j \in Nat, j \in Q PROVE j + 1 \in Q
      <3> SUFFICES ASSUME j + 1 \in 1 .. m PROVE g[j + 1] = h[j + 1]
        OBVIOUS
      <3>0. j + 1 \in 1 .. m /\ j + 1 \in 1 .. m + 1
        OBVIOUS
      <3>1. j + 1 \in 1 .. m + 1 /\ more[j + 1] = less[j + 1]
        BY <1>1, <3>0
      <3>2. CASE j = 0
        BY <1>3, <2>1, <3>1, <3>2 DEF Joins
      <3>3. CASE j # 0
        <4>1. j \in 1 .. m /\ j \in Nat \ {0} /\ j + 1 <= m /\ j + 1 <= m + 1
          BY <3>3
        <4>2. g[j + 1] = g[j] \o more[j + 1] /\ h[j + 1] = h[j] \o less[j + 1]
          BY <1>3, <2>1, <3>1, <4>1 DEF Joins
        <4> QED
          BY <2>3, <3>1, <4>1, <4>2
      <3> QED
        BY <3>2, <3>3
    <2>4. m \in Q
      <3> HIDE DEF Q
      <3> QED
        BY <2>2, <2>3, NatSetInduction
    <2>5. g[m] = h[m]
      BY <1>5, <2>4
    <2>6. m + 1 \in 1 .. m + 1 /\ m \in Nat \ {0} /\ m + 1 <= m + 1
      BY <1>5
    <2>7. g[m + 1] = g[m] \o more[m + 1]
      BY <1>3, <2>6 DEF Joins
    <2> QED
      BY <1>1, <1>2, <1>3, <2>1, <2>5, <2>6, <2>7
  <1> QED
    BY <1>4, <1>5

LEMMA FlatGrows ==
  ASSUME NEW S, NEW n \in Nat, NEW f, \A j \in 1 .. n : f[j] \in Seq(S),
         NEW m \in 0 .. n
  PROVE  /\ Len(Flat(f, m)) \in Nat /\ Len(Flat(f, m)) <= Len(Flat(f, n))
         /\ \A x \in 1 .. Len(Flat(f, m)) : Flat(f, n)[x] = Flat(f, m)[x]
  <1> DEFINE Grown(l) == /\ Len(Flat(f, m)) <= Len(Flat(f, l))
                         /\ \A x \in 1 .. Len(Flat(f, m)) : Flat(f, l)[x] = Flat(f, m)[x]
             P == {l \in Nat : m + l <= n => Grown(m + l)}
  <1>1. \A l \in 0 .. n : Flat(f, l) \in Seq(S)
    <2> SUFFICES ASSUME NEW l \in 0 .. n PROVE Flat(f, l) \in Seq(S)
      OBVIOUS
    <2>1. l \in Nat /\ \A j \in 1 .. l : f[j] \in Seq(S)
      OBVIOUS
    <2> QED
      BY <2>1, FlatType
  <1>2. 0 \in P
    <2>1. m + 0 = m /\ Len(Flat(f, m)) \in Nat
      BY <1>1
    <2> QED
      BY <2>1
  <1>3. ASSUME NEW l \in Nat, l \in P PROVE l + 1 \in P
    <2> SUFFICES ASSUME m + (l + 1) <= n PROVE Grown(m + (l + 1))
      OBVIOUS
    <2> DEFINE e == m + l
               a == Flat(f, e)
               b == f[e + 1]
    <2>1. e \in Nat /\ e <= n /\ e + 1 <= n /\ m + (l + 1) = e + 1
      OBVIOUS
    <2>2. \A j \in 1 .. e + 1 : f[j] \in Seq(S)
      BY <2>1
    <2>3. Grown(e)
      BY <1>3, <2>1
    <2> HIDE DEF e
    <2>4. Flat(f, e + 1) = a \o b
      BY <2>1, <2>2, FlatMore
    <2>5. a \in Seq(S) /\ b \in Seq(S)
      BY <1>1, <2>1
    <2>6. Len(Flat(f, m)) \in Nat
      BY <1>1
    <2> HIDE DEF a, b
    <2>7. Len(a \o b) = Len(a) + Len(b) /\ \A x \in 1 .. Len(a) : (a \o b)[x] = a[x]
      BY <2>5
    <2>8. Grown(e + 1)
      <3>1. Len(Flat(f, m)) <= Len(a) /\ \A x \in 1 .. Len(Flat(f, m)) : a[x] = Flat(f, m)[x]
        BY <2>3 DEF a
      <3>2. Len(a) \in Nat /\ Len(b) \in Nat
        BY <2>5
      <3>3. \A x \in 1 .. Len(Flat(f, m)) : x \in 1 .. Len(a)
        BY <2>6, <3>1, <3>2
      <3> QED
        BY <2>4, <2>6, <2>7, <3>1, <3>2, <3>3
    <2> QED
      BY <2>1, <2>8
  <1>4. n - m \in P
    <2>1. n - m \in Nat
      OBVIOUS
    <2> HIDE DEF P
    <2> QED
      BY <1>2, <1>3, <2>1, NatSetInduction
  <1>5. m + (n - m) = n
    OBVIOUS
  <1>6. Grown(m + (n - m))
    BY <1>4, <1>5
  <1> QED
    BY <1>1, <1>5, <1>6

LEMMA Concat ==
  ASSUME NEW S, NEW a \in Seq(S), NEW b \in Seq(S)
  PROVE  /\ a \o b \in Seq(S) /\ Len(a \o b) = Len(a) + Len(b)
         /\ \A x \in 1 .. Len(a) : (a \o b)[x] = a[x]
         /\ \A x \in 1 .. Len(b) : (a \o b)[Len(a) + x] = b[x]
  <1>1. a \o b \in Seq(S)
    BY ConcatProperties
  <1>2. Len(a \o b) = Len(a) + Len(b)
    OBVIOUS
  <1>3. Len(a) \in Nat /\ Len(b) \in Nat
    OBVIOUS
  <1>4. ASSUME NEW x \in 1 .. Len(a) PROVE (a \o b)[x] = a[x]
    BY <1>3
  <1>5. ASSUME NEW x \in 1 .. Len(b) PROVE (a \o b)[Len(a) + x] = b[x]
    <2>1. Len(a) + x \in 1 .. Len(a) + Len(b) /\ Len(a) + x > Len(a) /\ (Len(a) + x) - Len(a) = x
      BY <1>3
    <2> QED
      BY <1>3, <2>1
  <1> QED
    BY <1>1, <1>2, <1>4, <1>5

LEMMA PaddedIs ==
  ASSUME NEW s \in Seq(Nat)
  PROVE  /\ Padded(s) \in Seq(Nat) /\ Len(Padded(s)) = align4(Len(s))
         /\ Len(s) <= align4(Len(s)) /\ \A x \in 1 .. Len(s) : Padded(s)[x] = s[x]
  <1> DEFINE n == align4(Len(s)) - Len(s)
             zeros == [j \in 1 .. n |-> NUL]
  <1>1. Len(s) \in Nat /\ align4(Len(s)) \in Nat /\ Len(s) <= align4(Len(s)) /\ n \in Nat
    <2>1. Len(s) \in Nat
      OBVIOUS
    <2>2. align4(Len(s)) \in Nat /\ Len(s) <= align4(Len(s))
      BY <2>1, RoundedUp
    <2> QED
      BY <2>1, <2>2
  <1>n. n = align4(Len(s)) - Len(s)
    OBVIOUS
  <1> HIDE DEF n
  <1>2. zeros \in [1 .. n -> Nat]
    BY DEF NUL
  <1>3. zeros \in Seq(Nat) /\ Len(zeros) = n
    BY <1>1, <1>2
  <1>4. Padded(s) = s \o zeros
    BY DEF Padded, n
  <1> HIDE DEF zeros
  <1>5. Len(s \o zeros) = Len(s) + n /\ \A x \in 1 .. Len(s) : (s \o zeros)[x] = s[x]
    BY <1>3, Concat
  <1> QED
    BY <1>1, <1>n, <1>3, <1>4, <1>5, ConcatProperties

Size(r) == 3 + align4(Len(r.name)) + align4(Len(r.desc))

LEMMA RecordIs ==
  ASSUME NEW r \in Records
  PROVE  /\ Record(r) \in Seq(Nat) /\ Len(Record(r)) = Size(r) /\ Size(r) \in Multiples
         /\ Len(r.name) \in Nat /\ Len(r.name) <= align4(Len(r.name))
         /\ Len(r.desc) \in Nat /\ Len(r.desc) <= align4(Len(r.desc))
         /\ align4(Len(r.name)) \in Nat /\ align4(Len(r.desc)) \in Nat
         /\ Record(r)[1] = Len(r.name) /\ Record(r)[2] = Len(r.desc) /\ Record(r)[3] = r.type
         /\ \A x \in 1 .. Len(r.name) : Record(r)[3 + x] = r.name[x]
         /\ \A x \in 1 .. Len(r.desc) : Record(r)[3 + align4(Len(r.name)) + x] = r.desc[x]
  <1> DEFINE head == <<Len(r.name), Len(r.desc), r.type>>
             name == Padded(r.name)
             desc == Padded(r.desc)
             n == align4(Len(r.name))
             d == align4(Len(r.desc))
  <1>1. /\ r.name \in Seq(Nat) /\ r.desc \in Seq(Nat) /\ r.type \in Nat
        /\ Len(r.name) \in Nat /\ Len(r.desc) \in Nat
    BY DEF Records
  <1>2. head \in Seq(Nat) /\ Len(head) = 3
    BY <1>1
  <1>3. head[1] = Len(r.name) /\ head[2] = Len(r.desc) /\ head[3] = r.type
    OBVIOUS
  <1>4. /\ name \in Seq(Nat) /\ Len(name) = n /\ Len(r.name) <= n
        /\ \A x \in 1 .. Len(r.name) : name[x] = r.name[x]
        /\ desc \in Seq(Nat) /\ Len(desc) = d /\ Len(r.desc) <= d
        /\ \A x \in 1 .. Len(r.desc) : desc[x] = r.desc[x]
    BY <1>1, PaddedIs
  <1>5. n \in Nat /\ d \in Nat /\ n \in Multiples /\ d \in Multiples
    BY <1>1, RoundedUp, Aligned
  <1>6. Record(r) = head \o name \o desc
    BY DEF Record
  <1>7. Size(r) = 3 + n + d
    BY DEF Size
  <1>8. Size(r) \in Multiples
    <2>1. 3 \in Multiples
      BY Aligned DEF HeaderCells
    <2> HIDE DEF n, d
    <2>2. 3 + n \in Multiples
      BY <1>5, <2>1, Aligned
    <2> QED
      BY <1>5, <1>7, <2>2, Aligned
  <1>9. Len(r.name) <= n /\ Len(r.desc) <= d
    BY <1>4
  <1> HIDE DEF head, name, desc
  <1>10. /\ head \o name \in Seq(Nat) /\ Len(head \o name) = 3 + n
         /\ \A x \in 1 .. 3 : (head \o name)[x] = head[x]
         /\ \A x \in 1 .. n : (head \o name)[3 + x] = name[x]
    <2> HIDE DEF n, d
    <2>1. /\ head \o name \in Seq(Nat) /\ Len(head \o name) = Len(head) + Len(name)
          /\ \A x \in 1 .. Len(head) : (head \o name)[x] = head[x]
          /\ \A x \in 1 .. Len(name) : (head \o name)[Len(head) + x] = name[x]
      <3>1. head \in Seq(Nat) /\ name \in Seq(Nat)
        BY <1>2, <1>4
      <3> QED
        BY <3>1, Concat
    <2> QED
      BY <1>2, <1>4, <2>1
  <1> DEFINE front == head \o name
  <1>11. /\ front \o desc \in Seq(Nat) /\ Len(front \o desc) = 3 + n + d
         /\ \A x \in 1 .. 3 + n : (front \o desc)[x] = front[x]
         /\ \A x \in 1 .. d : (front \o desc)[3 + n + x] = desc[x]
    <2> HIDE DEF n, d, front
    <2>0. front \in Seq(Nat) /\ Len(front) = 3 + n
      BY <1>10 DEF front
    <2>1. /\ front \o desc \in Seq(Nat) /\ Len(front \o desc) = Len(front) + Len(desc)
          /\ \A x \in 1 .. Len(front) : (front \o desc)[x] = front[x]
          /\ \A x \in 1 .. Len(desc) : (front \o desc)[Len(front) + x] = desc[x]
      <3>1. front \in Seq(Nat) /\ desc \in Seq(Nat)
        BY <1>4, <2>0
      <3> QED
        BY <3>1, Concat
    <2> QED
      BY <1>4, <2>0, <2>1
  <1> HIDE DEF n, d
  <1>12. \A x \in 1 .. 3 : Record(r)[x] = head[x]
    <2>1. \A x \in 1 .. 3 : x \in 1 .. 3 + n
      BY <1>5
    <2>2. Record(r) = front \o desc
      BY <1>6
    <2>3. \A x \in 1 .. 3 : Record(r)[x] = front[x]
      BY <1>11, <2>1, <2>2
    <2> QED
      BY <1>10, <2>3
  <1>13. \A x \in 1 .. Len(r.name) : Record(r)[3 + x] = r.name[x]
    <2>1. \A x \in 1 .. Len(r.name) : x \in 1 .. n /\ 3 + x \in 1 .. 3 + n
      BY <1>1, <1>5, <1>9
    <2>2. Record(r) = front \o desc
      BY <1>6
    <2>3. \A x \in 1 .. Len(r.name) : Record(r)[3 + x] = front[3 + x]
      BY <1>11, <2>1, <2>2
    <2>4. \A x \in 1 .. Len(r.name) : front[3 + x] = name[x]
      BY <1>10, <2>1
    <2> QED
      BY <1>4, <2>3, <2>4
  <1>14. \A x \in 1 .. Len(r.desc) : Record(r)[3 + n + x] = r.desc[x]
    <2>1. \A x \in 1 .. Len(r.desc) : x \in 1 .. d
      BY <1>1, <1>5, <1>9
    <2> QED
      BY <1>4, <1>6, <1>11, <2>1
  <1>15. Record(r) \in Seq(Nat) /\ Len(Record(r)) = Size(r)
    BY <1>6, <1>7, <1>11
  <1> QED
    BY <1>1, <1>3, <1>5, <1>8, <1>9, <1>12, <1>13, <1>14, <1>15 DEF n, d

-----------------------------------------------------------------------------
(* The walk of a segment comes to an end, because the next header is       *)
(* behind the one before it.                                               *)

Notes == {NoteAt(data, o) : data \in Seq(Nat), o \in Nat}

LEMMA WalkMoves ==
  ASSUME NEW data \in Seq(Nat), NEW o \in Nat, IsWhole(data, o)
  PROVE  align4(DescEnd(data, o)) \in Nat /\ align4(DescEnd(data, o)) >= o + 3
  <1>1. data[o + 1] \in Nat /\ data[o + 2] \in Nat
    BY DEF IsWhole, HeaderCells
  <1>2. NameEnd(data, o) \in Nat /\ NameEnd(data, o) >= o + 3
    BY <1>1 DEF NameEnd, HeaderCells
  <1>3. /\ align4(NameEnd(data, o)) \in Nat
        /\ NameEnd(data, o) <= align4(NameEnd(data, o))
    BY <1>2, RoundedUp
  <1>4. DescEnd(data, o) \in Nat /\ DescEnd(data, o) >= o + 3
    BY <1>1, <1>2, <1>3 DEF DescEnd, DescStart
  <1>5. align4(DescEnd(data, o)) \in Nat /\ DescEnd(data, o) <= align4(DescEnd(data, o))
    BY <1>4, RoundedUp
  <1> QED
    BY <1>4, <1>5

\* The recursion of WalkNoteSegment, and one step of it.
Stepped(data, w, o) ==
  IF ~ IsWhole(data, o) THEN <<>>
  ELSE (IF IsText(NoteAt(data, o).name) THEN <<NoteAt(data, o)>> ELSE <<>>)
         \o w[align4(DescEnd(data, o))]

IsWalk(data, w) == w = [o \in Nat |-> Stepped(data, w, o)]

\* Of the last m cells there is one, whatever is in front of them.
LEMMA WalkExists ==
  ASSUME NEW data \in Seq(Nat)
  PROVE  \E w : IsWalk(data, w)
  <1> DEFINE Solves(w, m) == \A o \in Nat : o + m >= Len(data) => w[o] = Stepped(data, w, o)
             P == {m \in Nat : \E w : w = [o \in Nat |-> w[o]] /\ Solves(w, m)}
  <1>0. Len(data) \in Nat
    OBVIOUS
  <1>1. 0 \in P
    <2> DEFINE w == [o \in Nat |-> <<>>]
    <2>1. ASSUME NEW o \in Nat, o + 0 >= Len(data) PROVE w[o] = Stepped(data, w, o)
      <3>1. ~ IsWhole(data, o)
        BY <1>0, <2>1 DEF IsWhole, HeaderCells
      <3> QED
        BY <3>1 DEF Stepped
    <2>2. Solves(w, 0)
      BY <2>1
    <2>3. w = [o \in Nat |-> w[o]]
      OBVIOUS
    <2> HIDE DEF w, Solves
    <2> QED
      BY <2>2, <2>3
  <1>2. ASSUME NEW m \in Nat, m \in P PROVE m + 1 \in P
    <2>1. PICK w : w = [o \in Nat |-> w[o]] /\ Solves(w, m)
      BY <1>2
    <2> DEFINE g == [o \in Nat |-> Stepped(data, w, o)]
    <2>2. \A o \in Nat : o + m >= Len(data) => g[o] = w[o]
      BY <2>1
    <2>3. g = [o \in Nat |-> g[o]] /\ \A o \in Nat : g[o] = Stepped(data, w, o)
      OBVIOUS
    <2> HIDE DEF g
    <2>4. ASSUME NEW o \in Nat, o + (m + 1) >= Len(data)
          PROVE  g[o] = Stepped(data, g, o)
      <3>1. CASE ~ IsWhole(data, o)
        BY <2>3, <3>1 DEF Stepped
      <3>2. CASE IsWhole(data, o)
        <4> DEFINE next == align4(DescEnd(data, o))
        <4>1. next \in Nat /\ next >= o + 3
          BY <3>2, WalkMoves
        <4> HIDE DEF next
        <4>2. next + m >= Len(data)
          BY <1>0, <2>4, <4>1
        <4>3. g[next] = w[next]
          BY <2>2, <4>1, <4>2
        <4> QED
          BY <2>3, <4>3 DEF Stepped, next
      <3> QED
        BY <3>1, <3>2
    <2>5. Solves(g, m + 1)
      BY <2>4
    <2> HIDE DEF Solves
    <2> QED
      BY <2>3, <2>5
  <1>3. Len(data) \in P
    <2> HIDE DEF P
    <2> QED
      BY <1>0, <1>1, <1>2, NatSetInduction
  <1>4. PICK w : w = [o \in Nat |-> w[o]] /\ Solves(w, Len(data))
    BY <1>3
  <1>5. ASSUME NEW o \in Nat PROVE w[o] = Stepped(data, w, o)
    BY <1>0, <1>4
  <1>6. [o \in Nat |-> w[o]] = [o \in Nat |-> Stepped(data, w, o)]
    BY <1>5
  <1> QED
    BY <1>4, <1>6 DEF IsWalk

-----------------------------------------------------------------------------
(* What a producer laid out is what the walk finds, record by record.      *)

CellsOf(records) == [j \in 1 .. Len(records) |-> Record(records[j])]

\* The first m records, and where the next one starts.
Leading(records, m) == Flat(CellsOf(records), m)

Start(records, m) == Len(Leading(records, m))

LEMMA LaidIs ==
  ASSUME NEW records \in Seq(Records)
  PROVE  /\ \A m \in 0 .. Len(records) : Laid(SubSeq(records, 1, m)) = Leading(records, m)
         /\ Laid(records) = Leading(records, Len(records))
  <1> DEFINE n == Len(records)
             cells == CellsOf(records)
  <1>1. n \in Nat /\ DOMAIN records = 1 .. n
    OBVIOUS
  <1>2. ASSUME NEW m \in 0 .. n PROVE Laid(SubSeq(records, 1, m)) = Leading(records, m)
    <2> DEFINE part == SubSeq(records, 1, m)
    <2>1. DOMAIN part = 1 .. m /\ \A j \in 1 .. m : part[j] = records[j]
      BY <1>1
    <2> HIDE DEF part
    <2>2. [j \in DOMAIN part |-> Record(part[j])] = [j \in 1 .. m |-> cells[j]]
      <3>1. \A j \in 1 .. m : j \in 1 .. n
        BY <1>1
      <3>2. \A j \in 1 .. m : cells[j] = Record(part[j])
        BY <2>1, <3>1 DEF CellsOf
      <3> HIDE DEF cells
      <3> QED
        BY <2>1, <3>2
    <2> QED
      BY <2>2 DEF Laid, Leading, Flat, part
  <1>3. [j \in DOMAIN records |-> Record(records[j])] = [j \in 1 .. n |-> cells[j]]
    BY <1>1 DEF CellsOf
  <1> QED
    BY <1>2, <1>3 DEF Laid, Leading, Flat

LEMMA CellsType ==
  ASSUME NEW records \in Seq(Records)
  PROVE  /\ Len(records) \in Nat
         /\ \A j \in 1 .. Len(records) :
              /\ records[j] \in Records
              /\ CellsOf(records)[j] \in Seq(Nat) /\ CellsOf(records)[j] = Record(records[j])
         /\ \A m \in 0 .. Len(records) :
              /\ Leading(records, m) \in Seq(Nat)
              /\ Start(records, m) \in Nat
  <1>1. Len(records) \in Nat /\ \A j \in 1 .. Len(records) : records[j] \in Records
    OBVIOUS
  <1>2. \A j \in 1 .. Len(records) :
          CellsOf(records)[j] \in Seq(Nat) /\ CellsOf(records)[j] = Record(records[j])
    BY <1>1, RecordIs DEF CellsOf
  <1>3. ASSUME NEW m \in 0 .. Len(records)
        PROVE  Leading(records, m) \in Seq(Nat)
    <2>1. m \in Nat /\ \A j \in 1 .. m : CellsOf(records)[j] \in Seq(Nat)
      BY <1>1, <1>2
    <2> QED
      BY <2>1, FlatType DEF Leading
  <1>4. \A m \in 0 .. Len(records) : Start(records, m) \in Nat
    BY <1>3 DEF Start
  <1> QED
    BY <1>1, <1>2, <1>3, <1>4

LEMMA LaidType ==
  ASSUME NEW records \in Seq(Records)
  PROVE  Laid(records) \in Seq(Nat)
  <1>1. Len(records) \in 0 .. Len(records)
    OBVIOUS
  <1> QED
    BY <1>1, LaidIs, CellsType

(* Where the records start: each behind the one before it, aligned.        *)
LEMMA StartIs ==
  ASSUME NEW records \in Seq(Records)
  PROVE  /\ Start(records, 0) = 0
         /\ \A m \in 0 .. Len(records) - 1 :
              /\ Start(records, m + 1) = Start(records, m) + Size(records[m + 1])
              /\ Leading(records, m + 1) = Leading(records, m) \o Record(records[m + 1])
         /\ \A m \in 0 .. Len(records) : Start(records, m) \in Multiples
  <1> DEFINE n == Len(records)
             P == {m \in Nat : m <= n => Start(records, m) \in Multiples}
  <1>1. Start(records, 0) = 0
    BY FlatNone DEF Start, Leading
  <1>2. ASSUME NEW m \in 0 .. n - 1
        PROVE  /\ Start(records, m + 1) = Start(records, m) + Size(records[m + 1])
               /\ Leading(records, m + 1) = Leading(records, m) \o Record(records[m + 1])
    <2> DEFINE a == Leading(records, m)
               b == Record(records[m + 1])
    <2>0. m \in Nat /\ m \in 0 .. n /\ m + 1 \in 1 .. n
      BY CellsType
    <2>1. \A j \in 1 .. m + 1 : j \in 1 .. n
      BY <2>0, CellsType
    <2>2. Leading(records, m + 1) = a \o b
      <3>1. \A j \in 1 .. m + 1 : CellsOf(records)[j] \in Seq(Nat)
        BY <2>1, CellsType
      <3>2. Flat(CellsOf(records), m + 1) = Flat(CellsOf(records), m) \o CellsOf(records)[m + 1]
        BY <2>0, <3>1, FlatMore
      <3>3. CellsOf(records)[m + 1] = b
        BY <2>0, CellsType
      <3> QED
        BY <3>2, <3>3 DEF Leading
    <2>3. a \in Seq(Nat) /\ b \in Seq(Nat) /\ Len(b) = Size(records[m + 1])
      BY <2>0, CellsType, RecordIs
    <2>4. Len(a \o b) = Len(a) + Len(b)
      <3>1. a \in Seq(Nat) /\ b \in Seq(Nat)
        BY <2>3
      <3> HIDE DEF a, b
      <3> QED
        BY <3>1, Concat
    <2> HIDE DEF a, b
    <2> QED
      BY <2>2, <2>3, <2>4 DEF Start, a, b
  <1>3. 0 \in P
    BY <1>1, Aligned
  <1>4. ASSUME NEW m \in Nat, m \in P PROVE m + 1 \in P
    <2> SUFFICES ASSUME m + 1 <= n PROVE Start(records, m + 1) \in Multiples
      OBVIOUS
    <2>1. m \in 0 .. n - 1 /\ m <= n /\ m + 1 \in 1 .. n
      BY CellsType
    <2>2. Start(records, m) \in Multiples /\ Size(records[m + 1]) \in Multiples
      BY <1>4, <2>1, CellsType, RecordIs
    <2> QED
      BY <1>2, <2>1, <2>2, Aligned
  <1>5. \A m \in 0 .. n : Start(records, m) \in Multiples
    <2> SUFFICES ASSUME NEW m \in 0 .. n PROVE Start(records, m) \in Multiples
      OBVIOUS
    <2>1. m \in Nat /\ m <= n
      BY CellsType
    <2>2. m \in P
      <3> HIDE DEF P
      <3> QED
        BY <1>3, <1>4, <2>1, NatSetInduction
    <2> QED
      BY <2>1, <2>2
  <1> QED
    BY <1>1, <1>2, <1>5

(* In all the records, a record is where it starts.                        *)
LEMMA RecordAt ==
  ASSUME NEW records \in Seq(Records), NEW m \in 0 .. Len(records) - 1
  PROVE  /\ Start(records, m) \in Nat
         /\ Start(records, m) + Size(records[m + 1]) <= Len(Laid(records))
         /\ \A x \in 1 .. Size(records[m + 1]) :
              Laid(records)[Start(records, m) + x] = Record(records[m + 1])[x]
         /\ RecordEnd(records, m + 1)
              = Start(records, m) + 3 + align4(Len(records[m + 1].name))
                  + Len(records[m + 1].desc)
  <1> DEFINE n == Len(records)
             r == records[m + 1]
             a == Leading(records, m)
             b == Record(r)
             p == Start(records, m)
  <1>1. n \in Nat /\ m \in 0 .. n /\ m + 1 \in 1 .. n /\ m + 1 \in 0 .. n
    BY CellsType
  <1>2. /\ a \in Seq(Nat) /\ r \in Records /\ b \in Seq(Nat) /\ Len(b) = Size(r)
        /\ p \in Nat /\ p = Len(a)
    BY <1>1, CellsType, RecordIs DEF Start
  <1>3. Leading(records, m + 1) = a \o b /\ Start(records, m + 1) = p + Size(r)
    BY StartIs
  <1>4. /\ Start(records, m + 1) <= Len(Laid(records))
        /\ \A x \in 1 .. Start(records, m + 1) : Laid(records)[x] = Leading(records, m + 1)[x]
    <2>1. \A j \in 1 .. n : CellsOf(records)[j] \in Seq(Nat)
      BY CellsType
    <2>2. Laid(records) = Flat(CellsOf(records), n)
      BY LaidIs DEF Leading
    <2> DEFINE f == CellsOf(records)
               l == m + 1
    <2>3. /\ Len(Flat(f, l)) <= Len(Flat(f, n))
          /\ \A x \in 1 .. Len(Flat(f, l)) : Flat(f, n)[x] = Flat(f, l)[x]
      <3>1. n \in Nat /\ l \in 0 .. n /\ \A j \in 1 .. n : f[j] \in Seq(Nat)
        BY <1>1, <2>1
      <3> HIDE DEF n, f, l
      <3> QED
        BY <3>1, FlatGrows
    <2> QED
      BY <2>2, <2>3 DEF Leading, Start
  <1>5. ASSUME NEW x \in 1 .. Size(r) PROVE Laid(records)[p + x] = b[x]
    <2>0. Size(r) \in Nat
      BY <1>2
    <2>1. p + x \in 1 .. p + Size(r) /\ x \in 1 .. Len(b)
      BY <1>2, <2>0
    <2>2. Laid(records)[p + x] = (a \o b)[p + x]
      BY <1>3, <1>4, <2>1
    <2>3. \A y \in 1 .. Len(b) : (a \o b)[Len(a) + y] = b[y]
      <3>1. a \in Seq(Nat) /\ b \in Seq(Nat)
        BY <1>2
      <3> HIDE DEF a, b
      <3> QED
        BY <3>1, Concat
    <2> QED
      BY <1>2, <2>1, <2>2, <2>3
  <1>6. RecordEnd(records, m + 1) = p + 3 + align4(Len(r.name)) + Len(r.desc)
    <2>1. Laid(SubSeq(records, 1, m + 1)) = Leading(records, m + 1)
      BY <1>1, LaidIs
    <2>2. RecordEnd(records, m + 1)
            = Start(records, m + 1) - (align4(Len(r.desc)) - Len(r.desc))
      BY <2>1 DEF RecordEnd, Start
    <2>3. /\ align4(Len(r.name)) \in Nat /\ align4(Len(r.desc)) \in Nat /\ Len(r.desc) \in Nat
          /\ Size(r) = 3 + align4(Len(r.name)) + align4(Len(r.desc))
      BY <1>2, RecordIs DEF Size
    <2> DEFINE name == align4(Len(r.name))
               desc == align4(Len(r.desc))
               size == Len(r.desc)
    <2>4. /\ name \in Nat /\ desc \in Nat /\ size \in Nat /\ p \in Nat
          /\ RecordEnd(records, m + 1) = p + (3 + name + desc) - (desc - size)
      <3>1. name \in Nat /\ desc \in Nat /\ size \in Nat /\ p \in Nat
        BY <1>2, <2>3
      <3>2. Start(records, m + 1) = p + Size(r) /\ Size(r) = 3 + name + desc
        BY <1>3, <2>3
      <3>3. RecordEnd(records, m + 1) = Start(records, m + 1) - (desc - size)
        BY <2>2
      <3> HIDE DEF p, name, desc, size, r
      <3> QED
        BY <3>1, <3>2, <3>3
    <2> HIDE DEF p, name, desc, size
    <2>5. RecordEnd(records, m + 1) = p + 3 + name + size
      BY <2>4
    <2> QED
      BY <2>5 DEF name, size
  <1> QED
    BY <1>2, <1>3, <1>4, <1>5, <1>6

LEMMA PieceIs ==
  ASSUME NEW s \in Seq(Nat), NEW data \in Seq(Nat), NEW a \in Nat,
         a + Len(s) <= Len(data), \A x \in 1 .. Len(s) : data[a + x] = s[x]
  PROVE  SubSeq(data, a + 1, a + Len(s)) = s
  <1> DEFINE b == a + 1
             e == a + Len(s)
             part == SubSeq(data, b, e)
  <1>1. IsSequence(data) /\ IsSequence(s) /\ Len(s) \in Nat
    BY DEF IsSequence
  <1>2. b = a + 1 /\ e = a + Len(s)
    OBVIOUS
  <1> HIDE DEF b, e
  <1>3. /\ IsSequence(part) /\ Len(part) = Len(s)
        /\ \A x \in 1 .. Len(s) : part[x] = data[a + x]
    BY <1>1, <1>2, SubSeqIs
  <1> HIDE DEF part
  <1>4. part = s
    BY <1>1, <1>3, SameSequence
  <1> QED
    BY <1>2, <1>4 DEF part

LEMMA WalkedRecord ==
  ASSUME NEW records \in Seq(Records), NEW m \in 0 .. Len(records) - 1,
         NEW data \in Seq(Nat), Len(data) <= Len(Laid(records)),
         \A x \in 1 .. Len(data) : data[x] = Laid(records)[x]
  PROVE  /\ IsWhole(data, Start(records, m)) <=> RecordEnd(records, m + 1) <= Len(data)
         /\ IsWhole(data, Start(records, m)) =>
              /\ NoteAt(data, Start(records, m))
                   = [name |-> Trimmed(records[m + 1].name), type |-> records[m + 1].type,
                      desc |-> records[m + 1].desc]
              /\ align4(DescEnd(data, Start(records, m))) = Start(records, m + 1)
  <1> DEFINE r == records[m + 1]
             p == Start(records, m)
             name == Len(r.name)
             desc == Len(r.desc)
             room == align4(name)
             end == p + 3 + room + desc
             pad == align4(desc)
             size == Size(r)
             len == Len(data)
  <1>1. /\ p \in Nat /\ p \in Multiples /\ Start(records, m + 1) = p + Size(r)
        /\ r \in Records /\ m + 1 \in 1 .. Len(records) /\ len \in Nat
    <2>1. m \in 0 .. Len(records) /\ m + 1 \in 1 .. Len(records)
      BY CellsType
    <2> QED
      BY <2>1, CellsType, StartIs
  <1>2. /\ name \in Nat /\ desc \in Nat /\ room \in Nat /\ name <= room
        /\ room \in Multiples /\ align4(desc) \in Nat /\ desc <= align4(desc)
        /\ r.name \in Seq(Nat) /\ r.desc \in Seq(Nat)
    BY <1>1, RecordIs, Aligned DEF Records
  <1>3. RecordEnd(records, m + 1) = end
    BY RecordAt
  <1>4. p + Size(r) <= Len(Laid(records)) /\ Size(r) = 3 + room + align4(desc)
    BY RecordAt DEF Size
  <1>a. /\ p \in Nat /\ name \in Nat /\ room \in Nat /\ desc \in Nat /\ pad \in Nat /\ len \in Nat
        /\ name <= room /\ desc <= pad /\ size = 3 + room + pad /\ end = p + 3 + room + desc
    BY <1>1, <1>2, <1>4
  <1>5. ASSUME NEW x \in 1 .. Size(r), p + x <= len PROVE data[p + x] = Record(r)[x]
    <2>1. Size(r) \in Nat
      BY <1>2, <1>4
    <2>2. p + x \in 1 .. len
      BY <1>1, <1>5, <2>1
    <2> QED
      BY <2>2, RecordAt
  <1>6. ASSUME p + 3 <= len
        PROVE  data[p + 1] = name /\ data[p + 2] = desc /\ data[p + 3] = r.type
    <2>1. /\ 1 \in 1 .. Size(r) /\ 2 \in 1 .. Size(r) /\ 3 \in 1 .. Size(r)
          /\ p + 1 <= len /\ p + 2 <= len
      <3> HIDE DEF p, name, room, desc, pad, len, size, end
      <3>1. 1 \in 1 .. size /\ 2 \in 1 .. size /\ 3 \in 1 .. size
        BY <1>a
      <3>2. p + 1 <= len /\ p + 2 <= len
        BY <1>a, <1>6
      <3> QED
        BY <3>1, <3>2 DEF size
    <2>2. data[p + 1] = Record(r)[1] /\ data[p + 2] = Record(r)[2] /\ data[p + 3] = Record(r)[3]
      BY <1>5, <1>6, <2>1
    <2> QED
      BY <1>1, <2>2, RecordIs
  <1>7. ASSUME p + 3 <= len
        PROVE  /\ NameEnd(data, p) = p + 3 + name
               /\ DescStart(NameEnd(data, p)) = p + 3 + room
               /\ DescEnd(data, p) = end
    <2>1. NameEnd(data, p) = p + 3 + name
      BY <1>6, <1>7 DEF NameEnd, HeaderCells
    <2>2. p + 3 \in Multiples
      BY <1>1, Aligned DEF HeaderCells
    <2> DEFINE q == p + 3
    <2>3. align4(q + name) = q + room
      <3> HIDE DEF q, name
      <3> QED
        BY <1>2, <2>2, Aligned DEF q
    <2>4. DescStart(NameEnd(data, p)) = p + 3 + room
      BY <2>1, <2>3 DEF DescStart
    <2>5. DescEnd(data, p) = end
      BY <1>6, <1>7, <2>4 DEF DescEnd
    <2> QED
      BY <2>1, <2>4, <2>5
  <1>8. IsWhole(data, p) <=> end <= len
    <2>1. end >= p + 3 /\ end \in Nat
      <3> HIDE DEF p, name, room, desc, pad, len, size, end
      <3> QED
        BY <1>a
    <2>2. IsWhole(data, p) <=> p + 3 <= len /\ DescEnd(data, p) <= len
      BY DEF IsWhole, HeaderCells
    <2>3. CASE p + 3 <= len
      <3> HIDE DEF end, p, len
      <3> QED
        BY <1>7, <2>2, <2>3
    <2>4. CASE ~ p + 3 <= len
      <3> HIDE DEF end, p, len
      <3> QED
        BY <1>1, <2>1, <2>2, <2>4
    <2> QED
      BY <2>3, <2>4
  <1>9. ASSUME IsWhole(data, p)
        PROVE  /\ NoteAt(data, p) = [name |-> Trimmed(r.name), type |-> r.type, desc |-> r.desc]
               /\ align4(DescEnd(data, p)) = p + Size(r)
    <2>0. p + 3 <= len /\ end <= len
      BY <1>8, <1>9 DEF IsWhole, HeaderCells
    <2>1. SubSeq(data, (p + 3) + 1, (p + 3) + name) = r.name
      <3>1. p + 3 \in Nat /\ (p + 3) + name <= len
        <4> HIDE DEF p, name, room, desc, pad, len, size, end
        <4> QED
          BY <1>a, <2>0
      <3>2. ASSUME NEW x \in 1 .. name PROVE data[(p + 3) + x] = r.name[x]
        <4>1. 3 + x \in 1 .. size /\ p + (3 + x) <= len /\ p + (3 + x) = (p + 3) + x
          <5> HIDE DEF p, name, room, desc, pad, len, size, end
          <5> QED
            BY <1>a, <2>0
        <4>2. data[p + (3 + x)] = Record(r)[3 + x]
          BY <1>5, <4>1
        <4>3. Record(r)[3 + x] = r.name[x]
          BY <1>1, RecordIs
        <4> QED
          BY <4>1, <4>2, <4>3
      <3> DEFINE a == p + 3
      <3> HIDE DEF a
      <3>3. a \in Nat /\ a + Len(r.name) <= Len(data)
            /\ \A x \in 1 .. Len(r.name) : data[a + x] = r.name[x]
        BY <3>1, <3>2 DEF a
      <3>4. SubSeq(data, a + 1, a + Len(r.name)) = r.name
        BY <1>2, <3>3, PieceIs
      <3> QED
        BY <3>4 DEF a
    <2>2. SubSeq(data, (p + 3 + room) + 1, (p + 3 + room) + desc) = r.desc
      <3>1. p + 3 + room \in Nat /\ (p + 3 + room) + desc <= len
        <4> HIDE DEF p, name, room, desc, pad, len, size, end
        <4> QED
          BY <1>a, <2>0
      <3>2. ASSUME NEW x \in 1 .. desc PROVE data[(p + 3 + room) + x] = r.desc[x]
        <4>1. /\ 3 + room + x \in 1 .. size /\ p + (3 + room + x) <= len
              /\ p + (3 + room + x) = (p + 3 + room) + x
          <5> HIDE DEF p, name, room, desc, pad, len, size, end
          <5>1. x \in Nat /\ 1 <= x /\ x <= desc
            BY <1>a
          <5>2. 3 + room + x \in Nat /\ 1 <= 3 + room + x /\ 3 + room + x <= size
            BY <1>a, <5>1
          <5>3. p + (3 + room + x) <= len
            BY <1>a, <2>0, <5>1
          <5>4. p + (3 + room + x) = (p + 3 + room) + x
            BY <1>a, <5>1
          <5>5. 3 + room + x \in 1 .. size
            BY <1>a, <5>2
          <5> QED
            BY <5>3, <5>4, <5>5
        <4>2. data[p + (3 + room + x)] = Record(r)[3 + room + x]
          BY <1>5, <4>1
        <4>3. Record(r)[3 + room + x] = r.desc[x]
          BY <1>1, RecordIs
        <4> QED
          BY <4>1, <4>2, <4>3
      <3> DEFINE a == p + 3 + room
      <3> HIDE DEF a
      <3>3. a \in Nat /\ a + Len(r.desc) <= Len(data)
            /\ \A x \in 1 .. Len(r.desc) : data[a + x] = r.desc[x]
        BY <3>1, <3>2 DEF a
      <3>4. SubSeq(data, a + 1, a + Len(r.desc)) = r.desc
        BY <1>2, <3>3, PieceIs
      <3> QED
        BY <3>4 DEF a
    <2>3. /\ p + HeaderCells + 1 = (p + 3) + 1 /\ NameEnd(data, p) = (p + 3) + name
          /\ DescStart(NameEnd(data, p)) + 1 = (p + 3 + room) + 1
          /\ DescEnd(data, p) = (p + 3 + room) + desc
      BY <1>7, <2>0 DEF HeaderCells
    <2>4. NoteAt(data, p) = [name |-> Trimmed(r.name), type |-> r.type, desc |-> r.desc]
      BY <1>6, <2>0, <2>1, <2>2, <2>3 DEF NoteAt
    <2>5. align4((p + 3 + room) + desc) = (p + 3 + room) + align4(desc)
      <3>1. p + 3 \in Multiples
        BY <1>1, Aligned DEF HeaderCells
      <3>2. p + 3 + room \in Multiples
        BY <1>2, <3>1, Aligned
      <3> QED
        BY <1>2, <3>2, Aligned
    <2>6. align4(DescEnd(data, p)) = p + Size(r)
      <3>1. (p + 3 + room) + align4(desc) = p + (3 + room + align4(desc))
        BY <1>1, <1>2
      <3> QED
        BY <1>4, <2>3, <2>5, <3>1
    <2> QED
      BY <2>4, <2>6
  <1> QED
    BY <1>1, <1>3, <1>8, <1>9

LEMMA MinIs ==
  ASSUME NEW S, S \subseteq Nat, S # {}
  PROVE  Min(S) \in S /\ \A y \in S : Min(S) <= y
  <1> DEFINE R == OpToRel(<, Nat)
  <1>1. PICK x \in S : \A y \in S : <<y, x>> \notin R
    <2> HIDE DEF R
    <2>1. IsWellFoundedOn(R, Nat)
      BY NatLessThanWellFounded DEF R
    <2> QED
      BY <2>1, WFMin
  <1>2. \A y \in S : <<y, x>> \in R <=> y < x
    BY DEF OpToRel
  <1> HIDE DEF R
  <1>3. ASSUME NEW y \in S PROVE x <= y
    <2>1. x \in Nat /\ y \in Nat
      OBVIOUS
    <2>2. ~ (y < x)
      BY <1>1, <1>2, Zenon
    <2> QED
      BY <2>1, <2>2
  <1> QED
    BY <1>3 DEF Min

\* Every note the walk collects is one of the segment.
LEMMA WalkTyped ==
  ASSUME NEW data \in Seq(Nat), NEW w, IsWalk(data, w)
  PROVE  \A o \in Nat : w[o] \in Seq(Notes)
  <1> DEFINE P == {m \in Nat : \A o \in Nat : o + m >= Len(data) => w[o] \in Seq(Notes)}
  <1>0. Len(data) \in Nat
    OBVIOUS
  <1>3. \A o \in Nat : w[o] = Stepped(data, w, o)
    BY DEF IsWalk
  <1>4. 0 \in P
    <2> SUFFICES ASSUME NEW o \in Nat, o + 0 >= Len(data) PROVE w[o] \in Seq(Notes)
      OBVIOUS
    <2>1. ~ IsWhole(data, o)
      BY <1>0 DEF IsWhole, HeaderCells
    <2>2. w[o] = <<>>
      BY <1>3, <2>1 DEF Stepped
    <2> QED
      BY <2>2
  <1>5. ASSUME NEW m \in Nat, m \in P PROVE m + 1 \in P
    <2> SUFFICES ASSUME NEW o \in Nat, o + (m + 1) >= Len(data)
                 PROVE  w[o] \in Seq(Notes)
      OBVIOUS
    <2>1. CASE ~ IsWhole(data, o)
      <3>1. w[o] = <<>>
        BY <1>3, <2>1 DEF Stepped
      <3> QED
        BY <3>1
    <2>2. CASE IsWhole(data, o)
      <3> DEFINE next == align4(DescEnd(data, o))
                 head == IF IsText(NoteAt(data, o).name) THEN <<NoteAt(data, o)>> ELSE <<>>
      <3>1. next \in Nat /\ next >= o + 3
        BY <2>2, WalkMoves
      <3>2. NoteAt(data, o) \in Notes
        BY DEF Notes
      <3>3. head \in Seq(Notes)
        <4>1. <<NoteAt(data, o)>> \in Seq(Notes)
          BY <3>2
        <4> QED
          BY <4>1
      <3>4. w[o] = head \o w[next]
        BY <1>3, <2>2 DEF Stepped
      <3> HIDE DEF next, head
      <3>5. next + m >= Len(data)
        BY <1>0, <3>1
      <3>6. w[next] \in Seq(Notes)
        BY <1>5, <3>1, <3>5
      <3> QED
        BY <3>3, <3>4, <3>6, ConcatProperties
    <2> QED
      BY <2>1, <2>2
  <1>6. Len(data) \in P
    <2> HIDE DEF P
    <2> QED
      BY <1>0, <1>4, <1>5, NatSetInduction
  <1> QED
    BY <1>0, <1>6

LEMMA WalkType ==
  ASSUME NEW data \in Seq(Nat)
  PROVE  WalkNoteSegment(data) \in Seq(Notes)
  <1> DEFINE w == CHOOSE f : IsWalk(data, f)
  <1>1. WalkNoteSegment(data) = w[0]
    BY DEF WalkNoteSegment, IsWalk, Stepped
  <1>2. IsWalk(data, w)
    BY WalkExists
  <1> HIDE DEF w
  <1> QED
    BY <1>1, <1>2, WalkTyped

LEMMA TrimmedType ==
  ASSUME NEW s \in Seq(Nat)
  PROVE  Trimmed(s) \in Seq(Nat)
  <1> DEFINE nuls == {x \in DOMAIN s : s[x] = NUL}
  <1>1. nuls \subseteq Nat /\ \A x \in nuls : x \in 1 .. Len(s)
    OBVIOUS
  <1>2. CASE nuls = {}
    BY <1>2 DEF Trimmed
  <1>3. CASE nuls # {}
    <2> DEFINE e == Min(nuls) - 1
    <2>1. e \in Int /\ e <= Len(s)
      <3>1. Min(nuls) \in 1 .. Len(s)
        <4> HIDE DEF nuls
        <4> QED
          BY <1>1, <1>3, MinIs
      <3> QED
        BY <3>1
    <2>2. Trimmed(s) = SubSeq(s, 1, e)
      BY <1>3 DEF Trimmed
    <2> HIDE DEF e
    <2>3. \A x \in 1 .. e : s[x] \in Nat
      BY <2>1
    <2>4. 1 \in Int
      OBVIOUS
    <2>5. SubSeq(s, 1, e) \in Seq(Nat)
      BY <2>1, <2>3, <2>4, SubSeqProperties
    <2> QED
      BY <2>2, <2>5
  <1> QED
    BY <1>2, <1>3

KeptOf(records) == [j \in 1 .. Len(records) |-> Kept(records[j])]

LEMMA KeptType ==
  ASSUME NEW r \in Records
  PROVE  Kept(r) \in Seq(Records)
  <1> DEFINE read == [name |-> Trimmed(r.name), type |-> r.type, desc |-> r.desc]
  <1>1. read \in Records
    <2>1. r.name \in Seq(Nat) /\ r.type \in Nat /\ r.desc \in Seq(Nat)
      BY DEF Records
    <2> QED
      BY <2>1, TrimmedType DEF Records
  <1>2. Kept(r) = IF IsText(Trimmed(r.name)) THEN <<read>> ELSE <<>>
    BY DEF Kept
  <1> HIDE DEF read
  <1>3. <<read>> \in Seq(Records)
    BY <1>1
  <1> QED
    BY <1>2, <1>3

(* The records that end in front of len are the first ones.                *)
LEMMA EndsRise ==
  ASSUME NEW records \in Seq(Records)
  PROVE  /\ \A m \in 1 .. Len(records) : RecordEnd(records, m) \in Nat
         /\ \A l, m \in 1 .. Len(records) : l < m => RecordEnd(records, l) < RecordEnd(records, m)
  <1> DEFINE n == Len(records)
  <1>1. ASSUME NEW m \in 1 .. n
        PROVE  /\ Start(records, m - 1) \in Nat /\ Start(records, m) \in Nat
               /\ RecordEnd(records, m) \in Nat
               /\ Start(records, m - 1) < RecordEnd(records, m)
               /\ RecordEnd(records, m) <= Start(records, m)
    <2> DEFINE l == m - 1
               r == records[m]
               p == Start(records, l)
               name == align4(Len(r.name))
               desc == align4(Len(r.desc))
               size == Len(r.desc)
    <2>1. l \in 0 .. n - 1 /\ l \in 0 .. n /\ l + 1 = m /\ m \in 0 .. n
      BY CellsType
    <2> HIDE DEF l
    <2>2. r \in Records /\ p \in Nat
      BY <2>1, CellsType
    <2>3. /\ RecordEnd(records, m) = p + 3 + name + size
          /\ Start(records, m) = p + (3 + name + desc)
      BY <2>1, RecordAt, StartIs DEF Size
    <2>4. name \in Nat /\ desc \in Nat /\ size \in Nat /\ size <= desc
      BY <2>2, RecordIs
    <2> HIDE DEF p, name, desc, size
    <2>5. /\ RecordEnd(records, m) \in Nat /\ Start(records, m) \in Nat
          /\ p < RecordEnd(records, m) /\ RecordEnd(records, m) <= Start(records, m)
      BY <2>2, <2>3, <2>4
    <2> QED
      BY <2>2, <2>5 DEF p, l
  <1>2. ASSUME NEW l \in 1 .. n, NEW m \in 1 .. n, l < m
        PROVE  RecordEnd(records, l) < RecordEnd(records, m)
    <2> DEFINE f == CellsOf(records)
               e == m - 1
    <2>1. Len(Flat(f, l)) <= Len(Flat(f, e))
      <3>1. e \in Nat /\ l \in 0 .. e /\ \A j \in 1 .. e : j \in 1 .. n
        BY <1>2, CellsType
      <3>2. \A j \in 1 .. e : f[j] \in Seq(Nat)
        BY <3>1, CellsType
      <3> HIDE DEF e, f
      <3> QED
        BY <3>1, <3>2, FlatGrows
    <2>2. Start(records, l) <= Start(records, m - 1)
      BY <2>1 DEF Start, Leading
    <2>3. /\ RecordEnd(records, l) \in Nat /\ RecordEnd(records, m) \in Nat
          /\ RecordEnd(records, l) <= Start(records, l) /\ Start(records, l) \in Nat
          /\ Start(records, m - 1) < RecordEnd(records, m) /\ Start(records, m - 1) \in Nat
      BY <1>1
    <2> QED
      BY <2>2, <2>3
  <1> QED
    BY <1>1, <1>2

LEMMA WholeAreFirst ==
  ASSUME NEW records \in Seq(Records), NEW len \in Nat
  PROVE  \E c \in 0 .. Len(records) :
           /\ \A m \in 1 .. c : RecordEnd(records, m) <= len
           /\ c < Len(records) => ~ RecordEnd(records, c + 1) <= len
           /\ NotesOf(records, len) = Flat(KeptOf(records), c)
  <1> DEFINE n == Len(records)
             whole == {m \in DOMAIN records : RecordEnd(records, m) <= len}
             cut == {m \in 1 .. n : ~ RecordEnd(records, m) <= len}
  <1>1. n \in Nat /\ DOMAIN records = 1 .. n
    OBVIOUS
  <1>2. PICK c \in 0 .. n : /\ whole = 1 .. c
                            /\ \A m \in 1 .. c : RecordEnd(records, m) <= len
                            /\ c < n => ~ RecordEnd(records, c + 1) <= len
    <2>1. CASE cut = {}
      <3>1. \A m \in 1 .. n : RecordEnd(records, m) <= len
        BY <2>1
      <3>2. whole = 1 .. n
        BY <1>1, <3>1
      <3>3. n \in 0 .. n /\ ~ n < n
        BY <1>1
      <3> HIDE DEF whole, cut, n
      <3> QED
        BY <3>1, <3>2, <3>3
    <2>2. CASE cut # {}
      <3> DEFINE x == Min(cut)
      <3>1. x \in cut /\ \A y \in cut : x <= y
        <4>1. cut \subseteq Nat
          OBVIOUS
        <4> HIDE DEF cut
        <4> QED
          BY <2>2, <4>1, MinIs
      <3>2. x \in 1 .. n /\ ~ RecordEnd(records, x) <= len
        BY <3>1
      <3> HIDE DEF x
      <3>3. x - 1 \in 0 .. n /\ (x - 1) + 1 = x
        BY <1>1, <3>2
      <3>4. ASSUME NEW m \in 1 .. x - 1 PROVE m \in 1 .. n /\ RecordEnd(records, m) <= len
        <4>1. m \in 1 .. n /\ ~ x <= m
          BY <1>1, <3>2
        <4> QED
          BY <3>1, <4>1
      <3>5. ASSUME NEW m \in 1 .. n, ~ m \in 1 .. x - 1 PROVE ~ RecordEnd(records, m) <= len
        <4>1. m = x \/ x < m
          BY <1>1, <3>2, <3>5
        <4>2. CASE m = x
          BY <3>2, <4>2
        <4>3. CASE x < m
          <5>1. /\ RecordEnd(records, x) < RecordEnd(records, m)
                /\ RecordEnd(records, x) \in Nat /\ RecordEnd(records, m) \in Nat
            BY <3>2, <4>3, EndsRise
          <5> QED
            BY <3>2, <5>1
        <4> QED
          BY <4>1, <4>2, <4>3
      <3>6. whole = 1 .. x - 1
        BY <1>1, <3>4, <3>5
      <3> HIDE DEF whole, cut, n
      <3>7. \E c \in 0 .. n : c = x - 1
        BY <3>3
      <3> QED
        BY <3>2, <3>3, <3>4, <3>6, <3>7
    <2> QED
      BY <2>1, <2>2
  <1>3. Cardinality(whole) = c
    <2>1. c \in Nat
      BY <1>1
    <2>2. Cardinality(1 .. c) = IF 1 <= c THEN c - 1 + 1 ELSE 0
      <3>1. 1 \in Int /\ c \in Int
        BY <2>1
      <3> QED
        BY <3>1, FS_Interval
    <2> HIDE DEF whole
    <2> QED
      BY <1>2, <2>1, <2>2
  <1>4. NotesOf(records, len) = Flat(KeptOf(records), c)
    <2>1. NotesOf(records, len) = FlattenSeq([m \in 1 .. c |-> Kept(records[m])])
      BY <1>3 DEF NotesOf
    <2>2. [m \in 1 .. c |-> Kept(records[m])] = [m \in 1 .. c |-> KeptOf(records)[m]]
      <3>1. \A m \in 1 .. c : m \in 1 .. n
        BY <1>1
      <3>2. \A m \in 1 .. c : KeptOf(records)[m] = Kept(records[m])
        BY <3>1 DEF KeptOf
      <3> QED
        BY <3>2
    <2> QED
      BY <2>1, <2>2 DEF Flat
  <1> QED
    BY <1>2, <1>4

(* The walk over a segment, or the front of one, finds in it the records   *)
(* that are whole, each as it was written, and nothing else.               *)
LEMMA WalkIs ==
  ASSUME NEW records \in Seq(Records),
         NEW data \in Seq(Nat), Len(data) <= Len(Laid(records)),
         \A x \in 1 .. Len(data) : data[x] = Laid(records)[x]
  PROVE  WalkNoteSegment(data) = NotesOf(records, Len(data))
  <1> DEFINE w == CHOOSE f : IsWalk(data, f)
             n == Len(records)
             kept == KeptOf(records)
             N == Notes \cup Records
  <1>1. WalkNoteSegment(data) = w[0]
    BY DEF WalkNoteSegment, IsWalk, Stepped
  <1>2. IsWalk(data, w)
    BY WalkExists
  <1> HIDE DEF w
  <1>3. \A o \in Nat : w[o] = Stepped(data, w, o) /\ w[o] \in Seq(Notes)
    BY <1>2, WalkTyped DEF IsWalk
  <1>4. n \in Nat /\ Len(data) \in Nat /\ \A m \in 0 .. n : Start(records, m) \in Nat
    BY CellsType
  <1>5. PICK c \in 0 .. n :
          /\ \A m \in 1 .. c : RecordEnd(records, m) <= Len(data)
          /\ c < n => ~ RecordEnd(records, c + 1) <= Len(data)
          /\ NotesOf(records, Len(data)) = Flat(kept, c)
    BY <1>4, WholeAreFirst
  <1>6. \A m \in 1 .. n : kept[m] = Kept(records[m]) /\ kept[m] \in Seq(Records)
    BY CellsType, KeptType DEF KeptOf
  <1>7. \A o \in Nat : w[o] \in Seq(N)
    <2>1. Seq(Notes) \subseteq Seq(N)
      OBVIOUS
    <2> HIDE DEF N
    <2> QED
      BY <1>3, <2>1
  <1>8. Seq(Records) \subseteq Seq(N)
    OBVIOUS
  <1> DEFINE Walked(m) == w[0] = Flat(kept, m) \o w[Start(records, m)]
             P == {m \in Nat : m <= c => Walked(m)}
  <1> HIDE DEF kept, N
  <1>9. 0 \in P
    <2>1. Start(records, 0) = 0 /\ Flat(kept, 0) = <<>>
      BY StartIs, FlatNone
    <2>2. w[0] \in Seq(N)
      BY <1>7
    <2>3. <<>> \o w[0] = w[0]
      BY <2>2
    <2> QED
      BY <2>1, <2>3
  <1>10. ASSUME NEW m \in Nat, m \in P PROVE m + 1 \in P
    <2>1. ASSUME m + 1 <= c PROVE Walked(m + 1)
      <3> DEFINE p == Start(records, m)
                 q == Start(records, m + 1)
                 r == records[m + 1]
                 read == [name |-> Trimmed(r.name), type |-> r.type, desc |-> r.desc]
      <3>1. /\ m \in 0 .. n - 1 /\ m \in 0 .. n /\ m + 1 \in 0 .. n
            /\ m + 1 \in 1 .. c /\ m + 1 \in 1 .. n /\ m <= c
        BY <1>4, <2>1
      <3>2. w[0] = Flat(kept, m) \o w[p] /\ p \in Nat /\ q \in Nat
        BY <1>4, <1>10, <3>1
      <3>3. IsWhole(data, p) /\ NoteAt(data, p) = read /\ align4(DescEnd(data, p)) = q
        BY <1>5, <3>1, WalkedRecord
      <3>4. w[p] = kept[m + 1] \o w[q]
        <4>1. w[p] = (IF IsText(NoteAt(data, p).name) THEN <<NoteAt(data, p)>> ELSE <<>>) \o w[q]
          BY <1>3, <3>2, <3>3 DEF Stepped
        <4>2. kept[m + 1] = IF IsText(Trimmed(r.name)) THEN <<read>> ELSE <<>>
          BY <1>6, <3>1 DEF Kept
        <4>3. NoteAt(data, p).name = Trimmed(r.name)
          BY <3>3
        <4> HIDE DEF read, p, q
        <4> QED
          BY <3>3, <4>1, <4>2, <4>3
      <3>5. \A j \in 1 .. m + 1 : kept[j] \in Seq(N)
        <4>1. \A j \in 1 .. m + 1 : j \in 1 .. n
          BY <1>4, <3>1
        <4> QED
          BY <1>6, <1>8, <4>1
      <3>6. /\ Flat(kept, m) \in Seq(N) /\ kept[m + 1] \in Seq(N) /\ w[q] \in Seq(N)
            /\ Flat(kept, m + 1) = Flat(kept, m) \o kept[m + 1]
        <4>1. Flat(kept, m + 1) = Flat(kept, m) \o kept[m + 1]
          BY <3>5, FlatMore
        <4>2. \A j \in 1 .. m : kept[j] \in Seq(N)
          BY <3>5
        <4>3. Flat(kept, m) \in Seq(N)
          BY <4>2, FlatType
        <4>4. m + 1 \in 1 .. m + 1
          OBVIOUS
        <4> QED
          BY <1>7, <3>2, <3>5, <4>1, <4>3, <4>4
      <3> DEFINE a == Flat(kept, m)
                 b == kept[m + 1]
                 d == w[q]
      <3>7. (a \o b) \o d = a \o (b \o d)
        <4>1. a \in Seq(N) /\ b \in Seq(N) /\ d \in Seq(N)
          BY <3>6
        <4> HIDE DEF a, b, d
        <4> QED
          BY <4>1, ConcatAssociative
      <3> QED
        BY <3>2, <3>4, <3>6, <3>7
    <2> HIDE DEF Walked
    <2> QED
      BY <2>1
  <1>11. c \in P
    <2>1. c \in Nat
      BY <1>4
    <2> HIDE DEF P
    <2> QED
      BY <1>9, <1>10, <2>1, NatSetInduction
  <1>12. w[0] = Flat(kept, c) \o w[Start(records, c)]
    <2>1. c <= c
      BY <1>4
    <2> QED
      BY <1>11, <2>1
  <1>13. ~ IsWhole(data, Start(records, c))
    <2>1. CASE c = n
      <3>1. Start(records, c) = Len(Laid(records))
        BY <2>1, LaidIs DEF Start
      <3> QED
        BY <1>4, <3>1 DEF IsWhole, HeaderCells
    <2>2. CASE c # n
      <3>1. c \in 0 .. n - 1 /\ c < n
        BY <1>4, <2>2
      <3> QED
        BY <1>5, <3>1, WalkedRecord
    <2> QED
      BY <2>1, <2>2
  <1>14. w[Start(records, c)] = <<>>
    BY <1>3, <1>4, <1>13 DEF Stepped
  <1>15. Flat(kept, c) \o <<>> = Flat(kept, c)
    <2>1. \A j \in 1 .. c : j \in 1 .. n
      BY <1>4
    <2>2. c \in Nat /\ \A j \in 1 .. c : kept[j] \in Seq(Records)
      BY <1>4, <1>6, <2>1
    <2>3. Flat(kept, c) \in Seq(Records)
      BY <2>2, FlatType
    <2> QED
      BY <2>3, ConcatEmptySeq
  <1> QED
    BY <1>1, <1>5, <1>12, <1>14, <1>15

LEMMA MinEquals ==
  ASSUME NEW S, S \subseteq Nat, NEW x \in S, \A y \in S : x <= y
  PROVE  Min(S) = x
  <1>1. Min(S) \in S /\ \A y \in S : Min(S) <= y
    BY MinIs
  <1>2. Min(S) \in Nat /\ x \in Nat /\ Min(S) <= x /\ x <= Min(S)
    BY <1>1
  <1> QED
    BY <1>2

(* Build-ids.  The first note that is one decides, and what it holds is    *)
(* never mistaken for none.                                                *)
Gives(read) == read.type = NT_GNU_BUILD_ID /\ read.name = <<GNU>>

IdsOf(notes) == {j \in DOMAIN notes : Gives(notes[j])}

LEMMA FirstIdIs ==
  ASSUME NEW notes \in Seq(Records)
  PROVE  /\ IdsOf(notes) \subseteq Nat
         /\ FirstId(notes) = NoId <=> IdsOf(notes) = {}
         /\ IdsOf(notes) # {} =>
              FirstId(notes) = notes[Min(IdsOf(notes))].desc /\ FirstId(notes) \in Seq(Nat)
  <1> DEFINE ids == IdsOf(notes)
  <1>1. ids \subseteq Nat /\ ids \subseteq 1 .. Len(notes)
    BY DEF IdsOf
  <1>2. FirstId(notes) = IF ids = {} THEN NoId ELSE notes[Min(ids)].desc
    BY DEF FirstId, IdsOf, Gives
  <1>3. ASSUME ids # {} PROVE notes[Min(ids)].desc \in Seq(Nat)
    <2>1. Min(ids) \in ids
      <3> HIDE DEF ids
      <3> QED
        BY <1>1, <1>3, MinIs
    <2>2. notes[Min(ids)] \in Records
      BY <1>1, <2>1
    <2> QED
      BY <2>2 DEF Records
  <1>4. NoId \notin Seq(Nat)
    BY NoteWalkAssumption
  <1> QED
    BY <1>1, <1>2, <1>3, <1>4

LEMMA FirstIdJoined ==
  ASSUME NEW a \in Seq(Records), NEW b \in Seq(Records)
  PROVE  FirstId(a \o b) = IF FirstId(a) # NoId THEN FirstId(a) ELSE FirstId(b)
  <1> DEFINE ab == a \o b
             m == Len(a)
  <1>1. /\ ab \in Seq(Records) /\ Len(ab) = m + Len(b)
        /\ \A j \in 1 .. m : ab[j] = a[j]
        /\ \A j \in 1 .. Len(b) : ab[m + j] = b[j]
    BY Concat
  <1>2. /\ m \in Nat /\ Len(b) \in Nat /\ DOMAIN a = 1 .. m /\ DOMAIN b = 1 .. Len(b)
        /\ DOMAIN ab = 1 .. m + Len(b)
    <2>1. DOMAIN ab = 1 .. Len(ab)
      BY <1>1
    <2> HIDE DEF ab
    <2> QED
      BY <1>1, <2>1
  <1> HIDE DEF ab
  <1>3. /\ \A j \in 1 .. m : j \in IdsOf(ab) <=> j \in IdsOf(a)
        /\ \A j \in 1 .. Len(b) : m + j \in IdsOf(ab) <=> j \in IdsOf(b)
    <2>1. ASSUME NEW j \in 1 .. m PROVE j \in IdsOf(ab) <=> j \in IdsOf(a)
      <3>1. j \in DOMAIN ab /\ j \in DOMAIN a
        BY <1>2
      <3> QED
        BY <1>1, <3>1 DEF IdsOf
    <2>2. ASSUME NEW j \in 1 .. Len(b) PROVE m + j \in IdsOf(ab) <=> j \in IdsOf(b)
      <3>1. m + j \in DOMAIN ab /\ j \in DOMAIN b
        BY <1>2
      <3> QED
        BY <1>1, <3>1 DEF IdsOf
    <2> QED
      BY <2>1, <2>2
  <1>4. \A j \in IdsOf(ab) : j \in 1 .. m \/ (j - m \in 1 .. Len(b) /\ m + (j - m) = j)
    <2>1. \A j \in IdsOf(ab) : j \in 1 .. m + Len(b)
      BY <1>2 DEF IdsOf
    <2> HIDE DEF m
    <2> QED
      BY <1>2, <2>1
  <1>5. IdsOf(a) \subseteq 1 .. m /\ IdsOf(b) \subseteq 1 .. Len(b) /\ IdsOf(ab) \subseteq Nat
    BY <1>2 DEF IdsOf
  <1>6. CASE IdsOf(a) # {}
    <2> DEFINE x == Min(IdsOf(a))
    <2>1. x \in IdsOf(a) /\ \A y \in IdsOf(a) : x <= y
      <3>1. IdsOf(a) \subseteq Nat
        BY <1>5
      <3> QED
        BY <1>6, <3>1, MinIs
    <2>2. x \in IdsOf(ab) /\ x \in 1 .. m
      BY <1>3, <1>5, <2>1
    <2>3. ASSUME NEW y \in IdsOf(ab) PROVE x <= y
      <3>1. CASE y \in 1 .. m
        BY <1>3, <2>1, <3>1
      <3>2. CASE ~ y \in 1 .. m
        <4>1. y - m \in 1 .. Len(b) /\ y \in Nat
          BY <1>4, <1>5, <3>2
        <4> HIDE DEF x, m
        <4> QED
          BY <1>2, <2>2, <4>1
      <3> QED
        BY <3>1, <3>2
    <2>4. Min(IdsOf(ab)) = x
      <3> HIDE DEF x
      <3> QED
        BY <1>5, <2>2, <2>3, MinEquals
    <2>5. /\ FirstId(a) = a[x].desc /\ FirstId(a) # NoId
          /\ FirstId(ab) = ab[x].desc
      BY <1>1, <1>6, <2>2, <2>4, FirstIdIs
    <2>6. ab[x] = a[x]
      BY <1>1, <2>2
    <2> QED
      BY <2>5, <2>6 DEF ab
  <1>7. CASE IdsOf(a) = {} /\ IdsOf(b) # {}
    <2> DEFINE x == Min(IdsOf(b))
    <2>1. x \in IdsOf(b) /\ \A y \in IdsOf(b) : x <= y
      <3>1. IdsOf(b) \subseteq Nat
        BY <1>5
      <3> QED
        BY <1>7, <3>1, MinIs
    <2>2. m + x \in IdsOf(ab) /\ x \in 1 .. Len(b)
      BY <1>3, <1>5, <2>1
    <2>3. ASSUME NEW y \in IdsOf(ab) PROVE m + x <= y
      <3>1. y - m \in 1 .. Len(b) /\ m + (y - m) = y /\ y \in Nat
        BY <1>3, <1>4, <1>5, <1>7
      <3>2. y - m \in IdsOf(b)
        BY <1>3, <3>1
      <3>3. x <= y - m
        BY <2>1, <3>2
      <3> HIDE DEF x, m
      <3> QED
        BY <1>2, <2>2, <3>1, <3>3
    <2>4. Min(IdsOf(ab)) = m + x
      <3> DEFINE z == m + x
      <3>1. z \in IdsOf(ab) /\ \A y \in IdsOf(ab) : z <= y
        BY <2>2, <2>3
      <3> HIDE DEF z
      <3>2. Min(IdsOf(ab)) = z
        BY <1>5, <3>1, MinEquals
      <3> QED
        BY <3>2 DEF z
    <2>5. /\ FirstId(a) = NoId /\ FirstId(b) = b[x].desc
          /\ FirstId(ab) = ab[m + x].desc
      BY <1>1, <1>7, <2>2, <2>4, FirstIdIs
    <2>6. ab[m + x] = b[x]
      BY <1>1, <2>2
    <2> QED
      BY <2>5, <2>6 DEF ab
  <1>8. CASE IdsOf(a) = {} /\ IdsOf(b) = {}
    <2>1. IdsOf(ab) = {}
      BY <1>3, <1>4, <1>8
    <2>2. FirstId(a) = NoId /\ FirstId(b) = NoId /\ FirstId(ab) = NoId
      BY <1>1, <1>8, <2>1, FirstIdIs
    <2> QED
      BY <2>2 DEF ab
  <1> QED
    BY <1>6, <1>7, <1>8

With(f, m) == {j \in 1 .. m : FirstId(f[j]) # NoId}

LEMMA FirstIdFlat ==
  ASSUME NEW n \in Nat, NEW f, \A j \in 1 .. n : f[j] \in Seq(Records)
  PROVE  FirstId(Flat(f, n)) = IF With(f, n) = {} THEN NoId ELSE FirstId(f[Min(With(f, n))])
  <1> DEFINE Found(m) ==
               FirstId(Flat(f, m)) = IF With(f, m) = {} THEN NoId ELSE FirstId(f[Min(With(f, m))])
             P == {m \in Nat : m <= n => Found(m)}
  <1>1. 0 \in P
    <2>1. With(f, 0) = {}
      BY DEF With
    <2>2. Flat(f, 0) = <<>> /\ <<>> \in Seq(Records) /\ IdsOf(<<>>) = {}
      BY FlatNone DEF IdsOf
    <2>3. FirstId(<<>>) = NoId
      BY <2>2, FirstIdIs
    <2> QED
      BY <2>1, <2>2, <2>3
  <1>2. ASSUME NEW m \in Nat, m \in P PROVE m + 1 \in P
    <2>1. ASSUME m + 1 <= n PROVE Found(m + 1)
      <3>1. m <= n /\ m + 1 \in 1 .. n /\ \A j \in 1 .. m + 1 : j \in 1 .. n
        BY <2>1
      <3>2. Found(m)
        BY <1>2, <3>1
      <3>3. \A j \in 1 .. m + 1 : f[j] \in Seq(Records)
        BY <3>1
      <3>4. Flat(f, m + 1) = Flat(f, m) \o f[m + 1]
        BY <3>3, FlatMore
      <3>5. \A j \in 1 .. m : f[j] \in Seq(Records)
        BY <3>3
      <3>6. Flat(f, m) \in Seq(Records) /\ f[m + 1] \in Seq(Records)
        BY <3>1, <3>5, FlatType
      <3>7. FirstId(Flat(f, m + 1))
              = IF FirstId(Flat(f, m)) # NoId THEN FirstId(Flat(f, m)) ELSE FirstId(f[m + 1])
        BY <3>4, <3>6, FirstIdJoined
      <3>8. /\ With(f, m) \subseteq 1 .. m /\ With(f, m + 1) \subseteq Nat
            /\ With(f, m + 1)
                 = With(f, m) \cup (IF FirstId(f[m + 1]) # NoId THEN {m + 1} ELSE {})
        <4>1. 1 .. m + 1 = (1 .. m) \cup {m + 1}
          OBVIOUS
        <4> QED
          BY <4>1 DEF With
      <3>9. CASE With(f, m) # {}
        <4> DEFINE x == Min(With(f, m))
        <4>1. x \in With(f, m) /\ \A y \in With(f, m) : x <= y
          <5>1. With(f, m) \subseteq Nat
            BY <3>8
          <5> QED
            BY <3>9, <5>1, MinIs
        <4>2. x \in 1 .. m /\ x \in With(f, m + 1) /\ FirstId(f[x]) # NoId
          BY <3>8, <4>1 DEF With
        <4>3. \A y \in With(f, m + 1) : x <= y
          <5> HIDE DEF x
          <5>1. x <= m + 1
            BY <4>2
          <5> QED
            BY <3>8, <4>1, <5>1
        <4>4. Min(With(f, m + 1)) = x
          <5> HIDE DEF x
          <5> QED
            BY <3>8, <4>2, <4>3, MinEquals
        <4> QED
          BY <3>2, <3>7, <3>9, <4>2, <4>4
      <3>10. CASE With(f, m) = {} /\ FirstId(f[m + 1]) # NoId
        <4>1. With(f, m + 1) = {m + 1}
          BY <3>8, <3>10
        <4>2. Min({m + 1}) = m + 1
          <5> DEFINE S == {m + 1}
                     x == m + 1
          <5>1. S \subseteq Nat /\ x \in S /\ \A y \in S : x <= y
            OBVIOUS
          <5> HIDE DEF S, x
          <5>2. Min(S) = x
            BY <5>1, MinEquals
          <5> QED
            BY <5>2 DEF S, x
        <4> QED
          BY <3>2, <3>7, <3>10, <4>1, <4>2
      <3>11. CASE With(f, m) = {} /\ FirstId(f[m + 1]) = NoId
        BY <3>2, <3>7, <3>8, <3>11
      <3> QED
        BY <3>9, <3>10, <3>11
    <2> HIDE DEF Found
    <2> QED
      BY <2>1
  <1>3. n \in P
    <2> HIDE DEF P
    <2> QED
      BY <1>1, <1>2, NatSetInduction
  <1> QED
    BY <1>3

Giving(records) == {j \in DOMAIN records : GivesId(records[j])}

GivenBy(records) == records[Min(Giving(records))].desc

LEMMA KeptId ==
  ASSUME NEW r \in Records
  PROVE  FirstId(Kept(r)) = IF GivesId(r) THEN r.desc ELSE NoId
  <1> DEFINE read == [name |-> Trimmed(r.name), type |-> r.type, desc |-> r.desc]
  <1>1. Kept(r) \in Seq(Records)
    BY KeptType
  <1>2. Kept(r) = IF IsText(Trimmed(r.name)) THEN <<read>> ELSE <<>>
    BY DEF Kept
  <1>3. Gives(read) <=> GivesId(r)
    BY DEF Gives, GivesId
  <1>4. GivesId(r) => IsText(Trimmed(r.name))
    <2>1. SUFFICES ASSUME Trimmed(r.name) = <<GNU>> PROVE BadByte \notin ToSet(<<GNU>>)
      BY DEF GivesId, IsText
    <2>2. \A j \in DOMAIN <<GNU>> : <<GNU>>[j] = 1
      BY DEF GNU
    <2> QED
      BY <2>2 DEF ToSet, BadByte
  <1>5. read.desc = r.desc
    OBVIOUS
  <1> HIDE DEF read
  <1>6. CASE GivesId(r)
    <2>1. Kept(r) = <<read>> /\ DOMAIN <<read>> = {1} /\ <<read>>[1] = read
      BY <1>2, <1>4, <1>6
    <2>2. IdsOf(Kept(r)) = {1}
      BY <1>3, <1>6, <2>1 DEF IdsOf
    <2>3. Min({1}) = 1
      <3>1. {1} \subseteq Nat /\ 1 \in {1} /\ \A y \in {1} : 1 <= y
        OBVIOUS
      <3> QED
        BY <3>1, MinEquals
    <2>4. FirstId(Kept(r)) = Kept(r)[Min({1})].desc
      BY <1>1, <2>2, FirstIdIs
    <2> QED
      BY <1>5, <1>6, <2>1, <2>3, <2>4
  <1>7. CASE ~ GivesId(r)
    <2>1. IdsOf(Kept(r)) = {}
      <3>1. CASE Kept(r) = <<read>>
        <4>1. DOMAIN <<read>> = {1} /\ <<read>>[1] = read
          OBVIOUS
        <4> QED
          BY <1>3, <1>7, <3>1, <4>1 DEF IdsOf
      <3>2. CASE Kept(r) = <<>>
        BY <3>2 DEF IdsOf
      <3> QED
        BY <1>2, <3>1, <3>2
    <2> QED
      BY <1>1, <1>7, <2>1, FirstIdIs
  <1> QED
    BY <1>6, <1>7

\* Nothing of what is laid out is cut off.
LEMMA WholeLaid ==
  ASSUME NEW records \in Seq(Records)
  PROVE  NotesOf(records, Len(Laid(records))) = Flat(KeptOf(records), Len(records))
  <1> DEFINE n == Len(records)
             len == Len(Laid(records))
  <1>1. n \in Nat /\ len \in Nat /\ Laid(records) \in Seq(Nat)
    BY LaidType
  <1>2. PICK c \in 0 .. n :
          /\ c < n => ~ RecordEnd(records, c + 1) <= len
          /\ NotesOf(records, len) = Flat(KeptOf(records), c)
    BY <1>1, WholeAreFirst
  <1>3. c = n
    <2> SUFFICES ASSUME c # n PROVE FALSE
      OBVIOUS
    <2> DEFINE r == records[c + 1]
               p == Start(records, c)
               name == align4(Len(r.name))
               desc == align4(Len(r.desc))
               size == Len(r.desc)
    <2>1. c < n /\ c \in 0 .. n - 1 /\ c + 1 \in 1 .. n
      <3> HIDE DEF n
      <3> QED
        BY <1>1
    <2>2. /\ p \in Nat /\ p + Size(r) <= len /\ Size(r) = 3 + name + desc
          /\ RecordEnd(records, c + 1) = p + 3 + name + size
      BY <2>1, RecordAt DEF Size
    <2>3. name \in Nat /\ desc \in Nat /\ size \in Nat /\ size <= desc
      <3>1. r \in Records
        BY <2>1
      <3> QED
        BY <3>1, RecordIs
    <2>4. ~ RecordEnd(records, c + 1) <= len
      BY <1>2, <2>1
    <2> HIDE DEF p, name, desc, size, r, len
    <2> QED
      BY <1>1, <2>2, <2>3, <2>4
  <1> QED
    BY <1>2, <1>3

LEMMA SegmentId ==
  ASSUME NEW records \in Seq(Records)
  PROVE  /\ WalkNoteSegment(Laid(records)) \in Seq(Records)
         /\ FirstId(WalkNoteSegment(Laid(records)))
              = IF Giving(records) = {} THEN NoId ELSE records[Min(Giving(records))].desc
         /\ FirstId(WalkNoteSegment(Laid(records))) # NoId <=> Giving(records) # {}
  <1> DEFINE n == Len(records)
             kept == KeptOf(records)
             data == Laid(records)
             notes == WalkNoteSegment(data)
  <1>1. n \in Nat /\ DOMAIN records = 1 .. n /\ \A j \in 1 .. n : records[j] \in Records
    OBVIOUS
  <1>2. data \in Seq(Nat) /\ Len(data) \in Nat
    BY LaidType
  <1>3. notes = NotesOf(records, Len(data))
    <2>1. Len(data) <= Len(data)
      BY <1>2
    <2> QED
      BY <1>2, <2>1, WalkIs
  <1>4. notes = Flat(kept, n)
    BY <1>3, WholeLaid
  <1>7. \A j \in 1 .. n : /\ kept[j] \in Seq(Records)
                          /\ FirstId(kept[j]) = IF GivesId(records[j]) THEN records[j].desc ELSE NoId
    BY <1>1, KeptType, KeptId DEF KeptOf
  <1>8. notes \in Seq(Records)
    <2> HIDE DEF kept, n
    <2> QED
      BY <1>1, <1>4, <1>7, FlatType
  <1>9. With(kept, n) = Giving(records) /\ Giving(records) \subseteq 1 .. n
    <2>1. \A j \in 1 .. n : records[j].desc # NoId
      BY <1>1, NoteWalkAssumption DEF Records
    <2>2. \A j \in 1 .. n : FirstId(kept[j]) # NoId <=> GivesId(records[j])
      BY <1>7, <2>1
    <2> HIDE DEF kept, n
    <2> QED
      BY <1>1, <2>2 DEF With, Giving
  <1>10. FirstId(notes)
          = IF With(kept, n) = {} THEN NoId ELSE FirstId(kept[Min(With(kept, n))])
    <2> HIDE DEF kept, n
    <2> QED
      BY <1>1, <1>4, <1>7, FirstIdFlat
  <1>11. CASE Giving(records) = {}
    BY <1>8, <1>9, <1>10, <1>11
  <1>12. CASE Giving(records) # {}
    <2> DEFINE x == Min(Giving(records))
    <2>1. x \in Giving(records)
      <3>1. Giving(records) \subseteq Nat
        BY <1>9
      <3> QED
        BY <1>12, <3>1, MinIs
    <2>2. x \in 1 .. n /\ GivesId(records[x])
      BY <1>9, <2>1 DEF Giving
    <2>3. FirstId(kept[x]) = records[x].desc /\ records[x].desc # NoId
      <3>1. records[x].desc \in Seq(Nat)
        BY <1>1, <2>2 DEF Records
      <3> QED
        BY <1>7, <2>2, <3>1, NoteWalkAssumption
    <2> QED
      BY <1>8, <1>9, <1>10, <1>12, <2>3
  <1> QED
    BY <1>11, <1>12

(* What the headers of an image give, one by one and all together.         *)
LEMMA HeaderId ==
  ASSUME NEW image, image.cells \in Seq(Nat), NEW headers, NEW written,
         IsWritten(image, headers, written), NEW h \in DOMAIN headers,
         Walkable(image, headers[h])
  PROVE  /\ written[h] \in Seq(Records)
         /\ NotesIn(image, headers[h]) = WalkNoteSegment(Laid(written[h]))
         /\ NotesIn(image, headers[h]) \in Seq(Records)
         /\ FirstId(NotesIn(image, headers[h])) # NoId <=> h \in WithId(image, headers, written)
         /\ h \in WithId(image, headers, written) =>
              FirstId(NotesIn(image, headers[h])) = GivenBy(written[h])
  <1>1. /\ written[h] \in Seq(Records)
        /\ SubSeq(image.cells, headers[h].start + 1, headers[h].start + headers[h].size)
             = Laid(written[h])
    BY DEF IsWritten
  <1>2. NotesIn(image, headers[h]) = WalkNoteSegment(Laid(written[h]))
    BY <1>1 DEF NotesIn
  <1>3. h \in WithId(image, headers, written) <=> Giving(written[h]) # {}
    BY DEF WithId, Giving
  <1> QED
    BY <1>1, <1>2, <1>3, SegmentId DEF GivenBy

LEMMA GivenIs ==
  ASSUME NEW image, image.cells \in Seq(Nat), NEW headers, NEW written,
         IsWritten(image, headers, written)
  PROVE  /\ Len(headers) \in Nat /\ DOMAIN headers = 1 .. Len(headers)
         /\ WithId(image, headers, written) \subseteq 1 .. Len(headers)
         /\ WithId(image, headers, written) # {} =>
              Min(WithId(image, headers, written)) \in WithId(image, headers, written)
         /\ WithId(image, headers, written)
              = {h \in 1 .. Len(headers) :
                   Walkable(image, headers[h]) /\ FirstId(NotesIn(image, headers[h])) # NoId}
         /\ GivenId(image, headers, written)
              = IF WithId(image, headers, written) = {} THEN NoId
                ELSE FirstId(NotesIn(image, headers[Min(WithId(image, headers, written))]))
         /\ GivenId(image, headers, written) # NoId <=> WithId(image, headers, written) # {}
  <1> DEFINE with == WithId(image, headers, written)
             id(h) == FirstId(NotesIn(image, headers[h]))
             first(h) == GivenBy(written[h])
  <1>1. Len(headers) \in Nat /\ DOMAIN headers = 1 .. Len(headers)
    BY DEF IsWritten
  <1>2. with \subseteq 1 .. Len(headers) /\ \A h \in with : Walkable(image, headers[h])
    BY <1>1 DEF WithId
  <1>h. ASSUME NEW h \in 1 .. Len(headers), Walkable(image, headers[h])
        PROVE  (id(h) # NoId <=> h \in with) /\ (h \in with => id(h) = first(h))
    <2>1. h \in DOMAIN headers
      BY <1>1, <1>h
    <2> QED
      BY <1>h, <2>1, HeaderId
  <1> HIDE DEF id, first, with
  <1>3. with = {h \in 1 .. Len(headers) : Walkable(image, headers[h]) /\ id(h) # NoId}
    BY <1>2, <1>h
  <1>4. CASE with = {}
    BY <1>1, <1>2, <1>3, <1>4 DEF GivenId, id, with
  <1>5. CASE with # {}
    <2> DEFINE x == Min(with)
    <2>1. x \in with
      <3>1. with \subseteq Nat
        BY <1>2
      <3> QED
        BY <1>5, <3>1, MinIs
    <2>2. id(x) # NoId /\ id(x) = first(x)
      <3> HIDE DEF x
      <3> QED
        BY <1>2, <1>h, <2>1
    <2>3. GivenId(image, headers, written) = first(x)
      BY <1>5 DEF GivenId, GivenBy, Giving, first, with
    <2> QED
      BY <1>1, <1>2, <1>3, <1>5, <2>1, <2>2, <2>3 DEF id, with
  <1> QED
    BY <1>4, <1>5

LEMMA SegmentsId ==
  ASSUME NEW image, image.cells \in Seq(Nat), NEW written,
         IsWritten(image, image.headers, written)
  PROVE  FirstId(WalkAllNotes(image)) = GivenId(image, image.headers, written)
  <1> DEFINE headers == image.headers
             n == Len(headers)
             with == WithId(image, headers, written)
             f == [h \in 1 .. n |-> IF Walkable(image, headers[h])
                                      THEN NotesIn(image, headers[h]) ELSE <<>>]
  <1>1. n \in Nat /\ DOMAIN headers = 1 .. n
    BY GivenIs
  <1>2. WalkAllNotes(image) = Flat(f, n)
    <2>1. [h \in 1 .. n |-> f[h]] = f
      OBVIOUS
    <2> QED
      BY <1>1, <2>1 DEF WalkAllNotes, Flat
  <1>3. FirstId(<<>>) = NoId /\ <<>> \in Seq(Records)
    <2>1. <<>> \in Seq(Records) /\ IdsOf(<<>>) = {}
      BY DEF IdsOf
    <2> QED
      BY <2>1, FirstIdIs
  <1>4. \A h \in 1 .. n :
          /\ f[h] \in Seq(Records)
          /\ Walkable(image, headers[h]) => f[h] = NotesIn(image, headers[h])
          /\ FirstId(f[h]) # NoId =>
               Walkable(image, headers[h]) /\ FirstId(NotesIn(image, headers[h])) # NoId
    BY <1>1, <1>3, HeaderId
  <1> HIDE DEF f
  <1>5. With(f, n) = with
    <2>1. with = {h \in 1 .. n :
                    Walkable(image, headers[h]) /\ FirstId(NotesIn(image, headers[h])) # NoId}
      BY GivenIs
    <2> HIDE DEF with, headers, n
    <2> QED
      BY <1>4, <2>1 DEF With
  <1>6. FirstId(Flat(f, n)) = IF With(f, n) = {} THEN NoId ELSE FirstId(f[Min(With(f, n))])
    <2> HIDE DEF n
    <2> QED
      BY <1>1, <1>4, FirstIdFlat
  <1>7. with # {} => f[Min(with)] = NotesIn(image, headers[Min(with)])
    <2>1. with # {} => Min(with) \in with /\ with \subseteq 1 .. n
      BY GivenIs
    <2>2. \A h \in with : Walkable(image, headers[h])
      BY DEF WithId
    <2> QED
      BY <1>4, <2>1, <2>2
  <1>8. GivenId(image, headers, written)
          = IF with = {} THEN NoId ELSE FirstId(NotesIn(image, headers[Min(with)]))
    BY GivenIs
  <1> QED
    BY <1>2, <1>5, <1>6, <1>7, <1>8

LEMMA SectionsId ==
  ASSUME NEW image, image.cells \in Seq(Nat), NEW written,
         IsWritten(image, image.sections, written)
  PROVE  BuildIdFromNoteSections(image) = GivenId(image, image.sections, written)
  <1> DEFINE with == WithId(image, image.sections, written)
  <1>1. with = {h \in DOMAIN image.sections :
                  /\ Walkable(image, image.sections[h])
                  /\ FirstId(NotesIn(image, image.sections[h])) # NoId}
    BY GivenIs
  <1>2. BuildIdFromNoteSections(image)
          = IF with = {} THEN NoId ELSE FirstId(NotesIn(image, image.sections[Min(with)]))
    <2> HIDE DEF with
    <2> QED
      BY <1>1 DEF BuildIdFromNoteSections
  <1> QED
    BY <1>2, GivenIs

LEMMA AllNotesType ==
  ASSUME NEW image, image.cells \in Seq(Nat), NEW n \in Nat,
         DOMAIN image.headers = 1 .. n,
         \A j \in 1 .. n :
           image.headers[j].start \in Nat /\ image.headers[j].size \in Nat
  PROVE  WalkAllNotes(image) \in Seq(Notes)
  <1> DEFINE part(h) == IF Walkable(image, h) THEN NotesIn(image, h) ELSE <<>>
             parts == [j \in 1 .. n |-> part(image.headers[j])]
  <1>1. ASSUME NEW h, h.start \in Nat, h.size \in Nat PROVE part(h) \in Seq(Notes)
    <2>1. CASE Walkable(image, h)
      <3> DEFINE a == h.start + 1
                 b == h.start + h.size
                 data == SubSeq(image.cells, a, b)
      <3>1. a \in Int /\ b \in Int /\ Len(image.cells) \in Nat /\ b <= Len(image.cells)
        BY <1>1, <2>1 DEF Walkable, InCells
      <3>2. \A c \in a .. b : image.cells[c] \in Nat
        <4> SUFFICES ASSUME NEW c \in a .. b PROVE image.cells[c] \in Nat
          OBVIOUS
        <4>1. c \in 1 .. Len(image.cells)
          BY <1>1, <3>1
        <4> QED
          BY <4>1
      <3>3. NotesIn(image, h) = WalkNoteSegment(data)
        BY DEF NotesIn
      <3>4. data \in Seq(Nat)
        <4> HIDE DEF a, b
        <4> QED
          BY <3>1, <3>2, SubSeqProperties
      <3> HIDE DEF data
      <3> QED
        BY <2>1, <3>3, <3>4, WalkType
    <2>2. CASE ~ Walkable(image, h)
      <3>1. part(h) = <<>>
        BY <2>2
      <3> HIDE DEF part
      <3> QED
        BY <3>1
    <2> QED
      BY <2>1, <2>2
  <1>2. WalkAllNotes(image) = FlattenSeq(parts)
    BY DEF WalkAllNotes
  <1> HIDE DEF part
  <1>3. parts \in [1 .. n -> Seq(Notes)]
    BY <1>1
  <1>4. parts \in Seq(Seq(Notes))
    BY <1>3
  <1> HIDE DEF parts
  <1> QED
    BY <1>2, <1>4, FlattenType

LEMMA RecordType ==
  ASSUME NEW n, IsNote(n)
  PROVE  RecordOf(n) \in Records
  <1> DEFINE r == RecordOf(n)
  <1>1. r.name \in Seq(Nat)
    <2>1. r.name = IF n.kind = "other" /\ ~ n.whole
                     THEN <<BadByte, CORE, NUL>> ELSE <<CORE, NUL>>
      BY DEF RecordOf
    <2>2. <<3, 2, 0>> \in Seq(Nat) /\ <<2, 0>> \in Seq(Nat)
      OBVIOUS
    <2> HIDE DEF r
    <2> QED
      BY <2>1, <2>2 DEF BadByte, CORE, NUL
  <1>2. r.desc \in Seq(Nat)
    <2>1. r.desc = IF n.whole THEN <<n.owner, n.tp>> ELSE <<n.owner>>
      BY DEF RecordOf
    <2>2. n.owner \in Nat /\ n.tp \in Nat
      BY DEF IsNote
    <2>3. <<n.owner, n.tp>> \in Seq(Nat) /\ <<n.owner>> \in Seq(Nat)
      BY <2>2
    <2> HIDE DEF r
    <2> QED
      BY <2>1, <2>3
  <1>3. r.type \in Nat
    <2>1. r.type = NoteTypes[n.kind] /\ n.kind \in Kinds
      BY DEF RecordOf, IsNote
    <2>2. \A kind \in Kinds : NoteTypes[kind] \in Nat
      BY DEF NoteTypes, Kinds
    <2> QED
      BY <2>1, <2>2
  <1>4. r = [name |-> r.name, type |-> r.type, desc |-> r.desc]
    BY DEF RecordOf
  <1> HIDE DEF r
  <1>5. r \in Records
    BY <1>1, <1>2, <1>3, <1>4 DEF Records
  <1> QED
    BY <1>5 DEF r

LEMMA RecordsType ==
  ASSUME NEW notes, IsSequence(notes), \A j \in 1 .. Len(notes) : IsNote(notes[j])
  PROVE  /\ RecordsOf(notes) \in Seq(Records) /\ Len(RecordsOf(notes)) = Len(notes)
         /\ Laid(RecordsOf(notes)) \in Seq(Nat)
         /\ \A j \in 1 .. Len(notes) : RecordsOf(notes)[j] = RecordOf(notes[j])
  <1> DEFINE n == Len(notes)
             records == [j \in 1 .. n |-> RecordOf(notes[j])]
  <1>1. n \in Nat /\ DOMAIN notes = 1 .. n
    BY DEF IsSequence
  <1>2. RecordsOf(notes) = records
    BY <1>1 DEF RecordsOf
  <1>3. \A j \in 1 .. n : RecordOf(notes[j]) \in Records
    BY RecordType
  <1>4. records \in [1 .. n -> Records]
    BY <1>3
  <1>5. records \in Seq(Records) /\ Len(records) = n
    BY <1>1, <1>4
  <1>6. \A j \in 1 .. n : records[j] = RecordOf(notes[j])
    OBVIOUS
  <1> HIDE DEF records
  <1> QED
    BY <1>2, <1>5, <1>6, LaidType

\* The records of the m notes behind the first c.
AreRecords(records, notes, c, m) ==
  /\ records \in Seq(Records) /\ Len(records) = m
  /\ Laid(records) \in Seq(Nat)
  /\ \A j \in 1 .. m : records[j] = RecordOf(notes[c + j])

LEMMA PartRecords ==
  ASSUME NEW notes, IsSequence(notes), \A j \in 1 .. Len(notes) : IsNote(notes[j]),
         NEW c \in Nat, NEW m \in Nat, c + m <= Len(notes)
  PROVE  AreRecords(RecordsOf(SubSeq(notes, c + 1, c + m)), notes, c, m)
  <1> DEFINE part == SubSeq(notes, c + 1, c + m)
  <1>1. /\ IsSequence(part) /\ Len(part) = m
        /\ \A j \in 1 .. m : part[j] = notes[c + j]
    BY PartIs
  <1>2. Len(notes) \in Nat /\ \A j \in 1 .. m : c + j \in 1 .. Len(notes)
    <2>1. Len(notes) \in Nat
      BY DEF IsSequence
    <2> QED
      BY <2>1
  <1> HIDE DEF part
  <1>3. \A j \in 1 .. Len(part) : IsNote(part[j])
    BY <1>1, <1>2
  <1>4. /\ RecordsOf(part) \in Seq(Records) /\ Len(RecordsOf(part)) = m
        /\ Laid(RecordsOf(part)) \in Seq(Nat)
        /\ \A j \in 1 .. m : RecordsOf(part)[j] = RecordOf(part[j])
    BY <1>1, <1>3, RecordsType
  <1>5. AreRecords(RecordsOf(part), notes, c, m)
    BY <1>1, <1>4 DEF AreRecords
  <1> QED
    BY <1>5 DEF part

(* The image of a stored dump is made of numbers, and so the notes the     *)
(* reader has of it are a sequence, whatever cut the image.                *)
LEMMA ImageType ==
  ASSUME IsStored(stored)
  PROVE  /\ First \in Seq(Records) /\ Rest \in Seq(Records)
         /\ Len(First) = stored.split /\ Len(Rest) = Len(stored.dump.notes) - stored.split
         /\ Len(stored.dump.notes) \in Nat /\ stored.split \in 0 .. Len(stored.dump.notes)
         /\ \A j \in 1 .. Len(stored.dump.notes) : IsNote(stored.dump.notes[j])
         /\ \A j \in 1 .. Len(First) : First[j] = RecordOf(stored.dump.notes[j])
         /\ \A j \in 1 .. Len(Rest) :
              Rest[j] = RecordOf(stored.dump.notes[stored.split + j])
         /\ Laid(First) \in Seq(Nat) /\ Laid(Rest) \in Seq(Nat)
         /\ Image.cells \in Seq(Nat)
  <1> DEFINE notes == stored.dump.notes
             n == Len(notes)
             m == stored.split
  <1>1. /\ IsSequence(notes) /\ n \in Nat /\ m \in 0 .. n
        /\ \A j \in 1 .. n : IsNote(notes[j])
    BY ThreadsAssumption DEF IsStored, IsDump, IsSequence
  <1>d. notes = stored.dump.notes /\ n = Len(notes) /\ m = stored.split
    OBVIOUS
  <1> HIDE DEF notes, n, m
  <1>3. /\ First \in Seq(Records) /\ Len(First) = m /\ Laid(First) \in Seq(Nat)
        /\ \A j \in 1 .. m : First[j] = RecordOf(notes[j])
    <2> DEFINE zero == 0
    <2>1. /\ zero \in Nat /\ m \in Nat /\ zero + m <= Len(notes) /\ zero + 1 = 1 /\ zero + m = m
          /\ \A j \in 1 .. m : zero + j = j
      BY <1>1, <1>d
    <2>2. First = RecordsOf(SubSeq(notes, 1, m))
      BY <1>d DEF First, FirstOf
    <2>3. \A j \in 1 .. Len(notes) : IsNote(notes[j])
      BY <1>1, <1>d
    <2> HIDE DEF zero
    <2>4. AreRecords(RecordsOf(SubSeq(notes, zero + 1, zero + m)), notes, zero, m)
      BY <1>1, <2>1, <2>3, PartRecords
    <2>5. AreRecords(First, notes, zero, m)
      BY <2>1, <2>2, <2>4
    <2> QED
      BY <2>1, <2>5 DEF AreRecords
  <1>4. /\ Rest \in Seq(Records) /\ Len(Rest) = n - m /\ Laid(Rest) \in Seq(Nat)
        /\ \A j \in 1 .. n - m : Rest[j] = RecordOf(notes[m + j])
    <2> DEFINE l == n - m
    <2>1. m \in Nat /\ l \in Nat /\ m + l <= Len(notes) /\ n = m + l
      BY <1>1, <1>d
    <2>2. Rest = RecordsOf(SubSeq(notes, m + 1, n))
      BY <1>d DEF Rest, RestOf
    <2>3. \A j \in 1 .. Len(notes) : IsNote(notes[j])
      BY <1>1, <1>d
    <2>4. l = n - m
      OBVIOUS
    <2> HIDE DEF l
    <2>5. AreRecords(RecordsOf(SubSeq(notes, m + 1, m + l)), notes, m, l)
      BY <1>1, <2>1, <2>3, PartRecords
    <2>6. AreRecords(Rest, notes, m, l)
      BY <2>1, <2>2, <2>5
    <2> QED
      BY <2>4, <2>6 DEF AreRecords
  <1>5. Image.cells \in Seq(Nat)
    <2> DEFINE whole == Laid(First) \o Laid(Rest)
               keep == stored.keep
    <2>1. whole \in Seq(Nat)
      BY <1>3, <1>4, ConcatProperties
    <2>2. keep \in 0 .. Len(whole)
      BY DEF IsStored, First, Rest
    <2>3. Image.cells = SubSeq(whole, 1, keep)
      BY DEF Image
    <2> HIDE DEF whole, keep
    <2>4. \A j \in 1 .. keep : whole[j] \in Nat
      BY <2>1, <2>2
    <2>5. keep \in Int /\ 1 \in Int
      BY <2>1, <2>2
    <2> QED
      BY <2>3, <2>4, <2>5, SubSeqProperties
  <1> QED
    BY <1>1, <1>3, <1>4, <1>5, <1>d

LEMMA StoredNotesType ==
  ASSUME IsStored(stored)
  PROVE  WalkAllNotes(Image) \in Seq(Notes)
  <1> DEFINE headers == Image.headers
  <1>1. Len(Laid(First)) \in Nat /\ Image.cells \in Seq(Nat) /\ stored.size \in Nat
    BY ImageType DEF IsStored
  <1>2. headers = <<[note |-> TRUE, start |-> 0, size |-> Len(Laid(First))],
                    [note |-> FALSE, start |-> 0, size |-> Len(Laid(First)) + 1],
                    [note |-> TRUE, start |-> Len(Laid(First)), size |-> stored.size]>>
    BY DEF Image
  <1> HIDE DEF headers
  <1>3. DOMAIN headers = 1 .. 3
    BY <1>2
  <1>4. \A j \in 1 .. 3 : headers[j].start \in Nat /\ headers[j].size \in Nat
    <2> SUFFICES ASSUME NEW j \in 1 .. 3
                 PROVE  headers[j].start \in Nat /\ headers[j].size \in Nat
      OBVIOUS
    <2>1. j = 1 \/ j = 2 \/ j = 3
      OBVIOUS
    <2> QED
      BY <1>1, <1>2, <2>1
  <1> QED
    BY <1>1, <1>3, <1>4, AllNotesType DEF headers

-----------------------------------------------------------------------------
(* The notes of the core: what was written and is inside its segment.      *)

InFirst ==
  IF Len(Laid(First)) <= stored.keep THEN NotesOf(First, Len(Laid(First))) ELSE <<>>

InRest ==
  IF Len(Laid(First)) + stored.size <= stored.keep THEN NotesOf(Rest, stored.size) ELSE <<>>

LEMMA NotesOfType ==
  ASSUME NEW records \in Seq(Records), NEW len \in Nat
  PROVE  NotesOf(records, len) \in Seq(Records)
  <1>1. PICK c \in 0 .. Len(records) : NotesOf(records, len) = Flat(KeptOf(records), c)
    BY WholeAreFirst
  <1>2. c \in Nat /\ \A j \in 1 .. c : KeptOf(records)[j] \in Seq(Records)
    <2>1. \A j \in 1 .. Len(records) : KeptOf(records)[j] \in Seq(Records)
      BY KeptType DEF KeptOf
    <2>2. c \in Nat /\ \A j \in 1 .. c : j \in 1 .. Len(records)
      OBVIOUS
    <2> QED
      BY <2>1, <2>2
  <1> QED
    BY <1>1, <1>2, FlatType

\* A segment read out of the cells it was laid in has the notes laid there.
LEMMA SegmentNotes ==
  ASSUME NEW records \in Seq(Records), NEW cells \in Seq(Nat),
         NEW start \in Nat, NEW size \in Nat, start + size <= Len(cells),
         size <= Len(Laid(records)),
         \A x \in 1 .. size : cells[start + x] = Laid(records)[x]
  PROVE  WalkNoteSegment(SubSeq(cells, start + 1, start + size)) = NotesOf(records, size)
  <1> DEFINE data == SubSeq(cells, start + 1, start + size)
  <1>1. IsSequence(cells)
    BY DEF IsSequence
  <1>2. /\ IsSequence(data) /\ Len(data) = size
        /\ \A x \in 1 .. size : data[x] = cells[start + x]
    BY <1>1, PartIs
  <1>3. data \in Seq(Nat)
    <2> DEFINE a == start + 1
               b == start + size
    <2>1. a \in Int /\ b \in Int /\ \A x \in a .. b : x \in 1 .. Len(cells)
      OBVIOUS
    <2>2. \A x \in a .. b : cells[x] \in Nat
      BY <2>1
    <2> HIDE DEF a, b
    <2>3. SubSeq(cells, a, b) \in Seq(Nat)
      BY <2>1, <2>2, SubSeqProperties
    <2> QED
      BY <2>3 DEF a, b
  <1> HIDE DEF data
  <1>4. WalkNoteSegment(data) = NotesOf(records, Len(data))
    BY <1>2, <1>3, WalkIs
  <1> QED
    BY <1>2, <1>4 DEF data

LEMMA ImageNotes ==
  ASSUME IsStored(stored)
  PROVE  /\ InFirst \in Seq(Records) /\ InRest \in Seq(Records)
         /\ WalkAllNotes(Image) = InFirst \o InRest
  <1> DEFINE a == Laid(First)
             b == Laid(Rest)
             whole == a \o b
             cells == Image.cells
             headers == Image.headers
             first == Len(a)
             keep == stored.keep
             size == stored.size
             f == [x \in 1 .. 3 |-> IF Walkable(Image, headers[x])
                                      THEN NotesIn(Image, headers[x]) ELSE <<>>]
  <1>1. /\ First \in Seq(Records) /\ Rest \in Seq(Records)
        /\ a \in Seq(Nat) /\ b \in Seq(Nat) /\ cells \in Seq(Nat)
        /\ first \in Nat /\ Len(b) \in Nat /\ size \in Nat
    BY ImageType DEF IsStored
  <1>2. /\ whole \in Seq(Nat) /\ Len(whole) = first + Len(b)
        /\ \A x \in 1 .. first : whole[x] = a[x]
        /\ \A x \in 1 .. Len(b) : whole[first + x] = b[x]
    <2>1. a \in Seq(Nat) /\ b \in Seq(Nat)
      BY <1>1
    <2> HIDE DEF a, b
    <2> QED
      BY <2>1, Concat
  <1>3. keep \in Nat /\ keep <= first + Len(b)
    <2>1. keep \in 0 .. Len(whole)
      BY DEF IsStored, First, Rest
    <2> HIDE DEF whole, keep, first, b
    <2> QED
      BY <1>1, <1>2, <2>1
  <1>4. Len(cells) = keep /\ \A x \in 1 .. keep : cells[x] = whole[x]
    <2>1. cells = SubSeq(whole, 1, keep)
      BY DEF Image
    <2> HIDE DEF whole, keep, first, b, cells
    <2>2. keep <= Len(whole)
      BY <1>2, <1>3
    <2> QED
      BY <1>2, <1>3, <2>1, <2>2
  <1>5. headers = <<[note |-> TRUE, start |-> 0, size |-> first],
                    [note |-> FALSE, start |-> 0, size |-> first + 1],
                    [note |-> TRUE, start |-> first, size |-> size]>>
    BY DEF Image
  <1> DEFINE h1 == [note |-> TRUE, start |-> 0, size |-> first]
             h2 == [note |-> FALSE, start |-> 0, size |-> first + 1]
             h3 == [note |-> TRUE, start |-> first, size |-> size]
  <1>6. headers[1] = h1 /\ headers[2] = h2 /\ headers[3] = h3 /\ DOMAIN headers = 1 .. 3
    BY <1>5
  <1>7. f[1] = InFirst
    <2>1. Walkable(Image, h1) <=> first <= keep
      <3>1. 0 + first = first
        BY <1>1
      <3> QED
        BY <1>4, <3>1 DEF Walkable, InCells
    <2>2. ASSUME first <= keep PROVE NotesIn(Image, h1) = NotesOf(First, first)
      <3> DEFINE start == 0
      <3>1. NotesIn(Image, h1) = WalkNoteSegment(SubSeq(cells, start + 1, start + first))
        BY DEF NotesIn
      <3>2. /\ start \in Nat /\ start + first <= Len(cells) /\ first <= Len(Laid(First))
            /\ \A x \in 1 .. first : cells[start + x] = Laid(First)[x]
        <4>1. start + first = first /\ first <= first /\ start \in Nat
          BY <1>1
        <4>2. \A x \in 1 .. first : start + x = x /\ x \in 1 .. keep
          BY <1>1, <1>3, <2>2
        <4> HIDE DEF start, whole
        <4> QED
          BY <1>2, <1>4, <2>2, <4>1, <4>2
      <3> HIDE DEF start, cells, first
      <3>3. WalkNoteSegment(SubSeq(cells, start + 1, start + first)) = NotesOf(First, first)
        BY <1>1, <3>2, SegmentNotes
      <3> QED
        BY <3>1, <3>3
    <2> HIDE DEF h1, headers
    <2> QED
      BY <1>6, <2>1, <2>2 DEF InFirst
  <1>8. f[2] = <<>>
    <2>1. ~ Walkable(Image, h2)
      BY DEF Walkable
    <2> HIDE DEF h2, headers
    <2> QED
      BY <1>6, <2>1
  <1>9. f[3] = InRest
    <2>1. Walkable(Image, h3) <=> first + size <= keep
      BY <1>4 DEF Walkable, InCells
    <2>2. ASSUME first + size <= keep PROVE NotesIn(Image, h3) = NotesOf(Rest, size)
      <3>1. NotesIn(Image, h3) = WalkNoteSegment(SubSeq(cells, first + 1, first + size))
        BY DEF NotesIn
      <3>2. /\ first + size <= Len(cells) /\ size <= Len(Laid(Rest))
            /\ \A x \in 1 .. size : cells[first + x] = Laid(Rest)[x]
        <4>1. size <= Len(b)
          <5> HIDE DEF first, size, keep, b
          <5> QED
            BY <1>1, <1>3, <2>2
        <4>2. \A x \in 1 .. size : first + x \in 1 .. keep /\ x \in 1 .. Len(b)
          <5> HIDE DEF first, size, keep, b
          <5> QED
            BY <1>1, <1>3, <2>2, <4>1
        <4> HIDE DEF whole
        <4> QED
          BY <1>2, <1>4, <2>2, <4>1, <4>2
      <3> HIDE DEF cells, first, size
      <3>3. WalkNoteSegment(SubSeq(cells, first + 1, first + size)) = NotesOf(Rest, size)
        BY <1>1, <3>2, SegmentNotes
      <3> QED
        BY <3>1, <3>3
    <2> HIDE DEF h3, headers
    <2> QED
      BY <1>6, <2>1, <2>2 DEF InRest
  <1>10. InFirst \in Seq(Records) /\ InRest \in Seq(Records)
    <2>1. NotesOf(First, first) \in Seq(Records) /\ NotesOf(Rest, size) \in Seq(Records)
      <3> HIDE DEF first, size
      <3> QED
        BY <1>1, NotesOfType
    <2>2. <<>> \in Seq(Records)
      OBVIOUS
    <2> QED
      BY <2>1, <2>2 DEF InFirst, InRest
  <1>11. WalkAllNotes(Image) = Flat(f, 3)
    <2>1. [x \in 1 .. 3 |-> f[x]] = f
      OBVIOUS
    <2> QED
      BY <1>6, <2>1 DEF WalkAllNotes, Flat
  <1> HIDE DEF f
  <1>12. f[1] \in Seq(Records) /\ f[2] \in Seq(Records) /\ f[3] \in Seq(Records)
    BY <1>7, <1>8, <1>9, <1>10
  <1>13. Flat(f, 3) = ((<<>> \o f[1]) \o f[2]) \o f[3]
    <2> DEFINE none == 0
               one == 1
               two == 2
    <2>1. /\ none \in Nat /\ one \in Nat /\ two \in Nat
          /\ none + 1 = 1 /\ one + 1 = 2 /\ two + 1 = 3
          /\ none = 0 /\ one = 1 /\ two = 2
      OBVIOUS
    <2> HIDE DEF none, one, two
    <2>2. /\ \A x \in 1 .. none + 1 : f[x] \in Seq(Records)
          /\ \A x \in 1 .. one + 1 : f[x] \in Seq(Records)
          /\ \A x \in 1 .. two + 1 : f[x] \in Seq(Records)
      BY <1>12, <2>1
    <2>3. /\ Flat(f, none + 1) = Flat(f, none) \o f[none + 1]
          /\ Flat(f, one + 1) = Flat(f, one) \o f[one + 1]
          /\ Flat(f, two + 1) = Flat(f, two) \o f[two + 1]
      BY <2>1, <2>2, FlatMore
    <2>4. Flat(f, 0) = <<>>
      BY FlatNone
    <2>5. Flat(f, 1) = Flat(f, 0) \o f[1] /\ Flat(f, 2) = Flat(f, 1) \o f[2]
          /\ Flat(f, 3) = Flat(f, 2) \o f[3]
      BY <2>1, <2>3
    <2> QED
      BY <2>4, <2>5, Zenon
  <1>14. (<<>> \o f[1]) \o f[2] = InFirst
    <2>1. <<>> \o f[1] = f[1] /\ f[1] \o <<>> = f[1]
      BY <1>12
    <2> QED
      BY <1>7, <1>8, <2>1
  <1> QED
    BY <1>9, <1>10, <1>11, <1>13, <1>14

LEMMA SeenJoined ==
  ASSUME NEW a \in Seq(Records), NEW b \in Seq(Records)
  PROVE  Seen(a \o b) = Seen(a) \o Seen(b)
  <1> DEFINE S == {NoteSeen(r) : r \in Records}
             c == a \o b
  <1>1. \A s \in Seq(Records) :
          /\ Seen(s) \in Seq(S) /\ Len(Seen(s)) = Len(s)
          /\ \A j \in 1 .. Len(s) : Seen(s)[j] = NoteSeen(s[j])
    <2> SUFFICES ASSUME NEW s \in Seq(Records)
                 PROVE  /\ Seen(s) \in Seq(S) /\ Len(Seen(s)) = Len(s)
                        /\ \A j \in 1 .. Len(s) : Seen(s)[j] = NoteSeen(s[j])
      OBVIOUS
    <2>1. Seen(s) = [j \in 1 .. Len(s) |-> NoteSeen(s[j])]
      BY DEF Seen
    <2>2. \A j \in 1 .. Len(s) : NoteSeen(s[j]) \in S
      OBVIOUS
    <2> HIDE DEF S
    <2>3. Seen(s) \in [1 .. Len(s) -> S]
      BY <2>1, <2>2
    <2>4. Seen(s) \in Seq(S) /\ Len(Seen(s)) = Len(s)
      BY <2>3
    <2> QED
      BY <2>1, <2>4
  <1> HIDE DEF S
  <1>2. /\ c \in Seq(Records) /\ Len(c) = Len(a) + Len(b)
        /\ \A x \in 1 .. Len(a) : c[x] = a[x]
        /\ \A x \in 1 .. Len(b) : c[Len(a) + x] = b[x]
    BY Concat
  <1> HIDE DEF c
  <1> DEFINE d == Seen(a) \o Seen(b)
  <1>3. Seen(a) \in Seq(S) /\ Seen(b) \in Seq(S)
    BY <1>1
  <1>4. /\ d \in Seq(S) /\ Len(d) = Len(Seen(a)) + Len(Seen(b))
        /\ \A x \in 1 .. Len(Seen(a)) : d[x] = Seen(a)[x]
        /\ \A x \in 1 .. Len(Seen(b)) : d[Len(Seen(a)) + x] = Seen(b)[x]
    BY <1>3, Concat
  <1>5. Len(Seen(a)) = Len(a) /\ Len(Seen(b)) = Len(b) /\ Len(a) \in Nat /\ Len(b) \in Nat
    BY <1>1
  <1> HIDE DEF d
  <1>6. Seen(c) \in Seq(S) /\ Len(Seen(c)) = Len(d)
    BY <1>1, <1>2, <1>4, <1>5
  <1>7. ASSUME NEW x \in 1 .. Len(d) PROVE Seen(c)[x] = d[x]
    <2>1. CASE x <= Len(a)
      <3>1. x \in 1 .. Len(a) /\ x \in 1 .. Len(c)
        BY <1>2, <1>4, <1>5, <2>1
      <3> QED
        BY <1>1, <1>2, <1>4, <1>5, <3>1
    <2>2. CASE ~ x <= Len(a)
      <3> DEFINE y == x - Len(a)
      <3>1. y \in 1 .. Len(b) /\ x = Len(a) + y /\ x \in 1 .. Len(c)
        BY <1>2, <1>4, <1>5, <2>2
      <3> HIDE DEF y
      <3>2. Seen(c)[x] = NoteSeen(b[y])
        BY <1>1, <1>2, <3>1
      <3>3. d[x] = NoteSeen(b[y])
        BY <1>1, <1>4, <1>5, <3>1
      <3> QED
        BY <3>2, <3>3
    <2> QED
      BY <2>1, <2>2
  <1>8. IsSequence(Seen(c)) /\ IsSequence(d)
    BY <1>4, <1>6 DEF IsSequence
  <1>9. Seen(c) = d
    BY <1>6, <1>7, <1>8, SameSequence
  <1> QED
    BY <1>9 DEF c, d

-----------------------------------------------------------------------------
(* A step of the core file is a step of one part and leaves the others.    *)
LEMMA PartSteps == [CoreNext]_all => [C!Next]_imageVars /\ [M!Next]_fileVars
  <1> SUFFICES ASSUME [CoreNext]_all PROVE [C!Next]_imageVars /\ [M!Next]_fileVars
    OBVIOUS
  <1>1. CASE UNCHANGED all
    BY <1>1 DEF all
  <1>2. CASE ReadNotes
    BY <1>2 DEF ReadNotes
  <1>3. CASE ReadThreads
    BY <1>3 DEF ReadThreads
  <1>4. CASE ReadFiles
    BY <1>4 DEF ReadFiles
  <1>5. CASE ReadMemory
    BY <1>5 DEF ReadMemory
  <1> QED
    BY <1>1, <1>2, <1>3, <1>4, <1>5 DEF CoreNext

LEMMA ImageAlways == CoreSpec => []ImageInv
  <1>1. ImageInv /\ [CoreNext]_all => ImageInv'
    BY PartSteps, StepImage
  <1> QED
    BY InitImage, <1>1, PTL DEF CoreSpec, all

LEMMA FilesAlways == CoreSpec => []FilesInv
  <1>1. FilesInv /\ [CoreNext]_all => FilesInv'
    BY PartSteps, StepFiles
  <1> QED
    BY InitFiles, <1>1, PTL DEF CoreSpec, all

-----------------------------------------------------------------------------
(* What a read of memory returns are bytes of the file, each where one     *)
(* loaded header says its address is; and it answers that there are none   *)
(* only if no header has them all in the file (read_bytes of Image).       *)
THEOREM ReadAlwaysRight == CoreSpec => []ReadIsRight
  <1>1. ImageInv => ReadIsRight
    BY DEF ImageInv, ReadIsRight
  <1> QED
    BY ImageAlways, <1>1, PTL

(* segment_bounds answers with the range of a loaded segment that has the  *)
(* address, and with none only if there is none or a header in front of it *)
(* runs off the address space, which ends the scan.                        *)
THEOREM BoundsAlwaysRight == CoreSpec => []BoundsAreRight
  <1>1. ImageInv => BoundsAreRight
    BY DEF ImageInv, BoundsAreRight
  <1> QED
    BY ImageAlways, <1>1, PTL

(* mapped_files joins each range with its own path, misses no mapping that *)
(* is there when the table is whole, and never makes a range out of two,   *)
(* wherever the NT_FILE note is cut and whatever count it claims.          *)
THEOREM WholeMappingsAlways == CoreSpec => []WholeMappingsOnly
  BY FilesAlways, FilesAreWhole, PTL
-----------------------------------------------------------------------------
(* Threads.  The notes passed so far, and the threads made of them.        *)

Read == {j \in Prstatus : j < k}

Tps == {dump.notes[j].tp : j \in DOMAIN dump.notes} \cup {0}

ThreadList ==
  /\ k \in 1 .. Len(dump.notes) + 1
  /\ threads \in Seq([id : Owners, tp : Tps])
  /\ pendingTp \subseteq Tps
  /\ failed => \E j \in Read : ~ dump.notes[j].whole
  /\ ~ failed =>
       /\ \A j \in Read : dump.notes[j].whole
       /\ Len(threads) = Cardinality(Read)
       /\ \A j \in Read : threads[Rank(j)].id = dump.notes[j].owner

Unstarted ==
  dump.notes = <<>> /\ k = 1 /\ threads = <<>> /\ pendingTp = {} /\ ~ failed

ThreadsInv ==
  /\ IsStored(stored)
  /\ DOMAIN dump = {"arch", "order", "notes"}
  /\ IsSequence(dump.notes)
  /\ ~ walked => Unstarted
  /\ ThreadList
  /\ ~ (walked /\ Done /\ ~ failed) => files = <<>> /\ answer = C!Pending

LEMMA RankIn ==
  ASSUME IsSequence(dump.notes), k \in 1 .. Len(dump.notes) + 1
  PROVE  /\ IsFiniteSet(Read) /\ Cardinality(Read) \in Nat
         /\ \A j \in Read : Rank(j) \in 1 .. Cardinality(Read)
  <1>0. Len(dump.notes) \in Nat /\ DOMAIN dump.notes = 1 .. Len(dump.notes)
    BY DEF IsSequence
  <1>1. IsFiniteSet(1 .. Len(dump.notes))
    BY <1>0, FS_Interval
  <1>2. Read \subseteq 1 .. Len(dump.notes)
    BY <1>0 DEF Read, Prstatus, Of
  <1>3. IsFiniteSet(Read)
    BY <1>1, <1>2, FS_Subset
  <1>4. Cardinality(Read) \in Nat
    BY <1>3, FS_CardinalityType
  <1>5. ASSUME NEW j \in Read PROVE Rank(j) \in 1 .. Cardinality(Read)
    <2> DEFINE upTo == {l \in Prstatus : l <= j}
    <2>1. j \in upTo /\ upTo \subseteq Read
      BY <1>0, <1>2 DEF Read, Prstatus, Of
    <2>2. IsFiniteSet(upTo) /\ Cardinality(upTo) <= Cardinality(Read)
      BY <1>3, <2>1, FS_Subset
    <2>3. Cardinality(upTo) \in Nat /\ Cardinality(upTo) # 0
      BY <2>1, <2>2, FS_CardinalityType, FS_EmptySet
    <2>4. Rank(j) = Cardinality(upTo)
      BY DEF Rank
    <2> HIDE DEF upTo
    <2> QED
      BY <1>4, <2>2, <2>3, <2>4
  <1> QED
    BY <1>3, <1>4, <1>5

\* What one note adds to those passed.
LEMMA ReadMore ==
  ASSUME IsSequence(dump.notes), k \in 1 .. Len(dump.notes), k' = k + 1, dump' = dump
  PROVE  /\ NoteIn.kind # "prstatus" => Read' = Read
         /\ NoteIn.kind = "prstatus" =>
              /\ Read' = Read \cup {k} /\ k \notin Read
              /\ Cardinality(Read') = Cardinality(Read) + 1
              /\ Rank(k) = Cardinality(Read) + 1
         /\ k' \in 1 .. Len(dump'.notes) + 1
         /\ \A j : Rank(j)' = Rank(j)
  <1>0. /\ Len(dump.notes) \in Nat /\ DOMAIN dump.notes = 1 .. Len(dump.notes)
        /\ k \in Nat
    BY DEF IsSequence
  <1>1. Prstatus' = Prstatus /\ Prstatus \subseteq Nat
    BY <1>0 DEF Prstatus, Of
  <1>2. k \in Prstatus <=> NoteIn.kind = "prstatus"
    BY <1>0 DEF Prstatus, Of, NoteIn
  <1>3. \A l \in Nat : l < k' <=> l < k \/ l = k
    BY <1>0
  <1>4. NoteIn.kind # "prstatus" => Read' = Read
    BY <1>1, <1>2, <1>3 DEF Read
  <1>5. ASSUME NoteIn.kind = "prstatus"
        PROVE  Read' = Read \cup {k} /\ k \notin Read
    <2>1. k \notin Read
      BY <1>0 DEF Read
    <2>2. Read' = {j \in Prstatus : j < k'}
      BY <1>1 DEF Read
    <2>3. \A j \in Prstatus : j < k' <=> j \in Read \/ j = k
      BY <1>1, <1>3 DEF Read
    <2>4. Read \subseteq Prstatus /\ k \in Prstatus
      BY <1>2, <1>5 DEF Read
    <2> QED
      BY <2>1, <2>2, <2>3, <2>4
  <1>6. ASSUME NoteIn.kind = "prstatus"
        PROVE  /\ Cardinality(Read') = Cardinality(Read) + 1
               /\ Rank(k) = Cardinality(Read) + 1
    <2>1. IsFiniteSet(Read)
      BY <1>0, RankIn
    <2>2. Cardinality(Read \cup {k}) = Cardinality(Read) + 1
      BY <1>5, <1>6, <2>1, FS_AddElement
    <2>3. {l \in Prstatus : l <= k} = Read \cup {k}
      <3>1. \A l \in Nat : l <= k <=> l < k \/ l = k
        BY <1>0
      <3> QED
        BY <1>1, <1>2, <1>6, <3>1 DEF Read
    <2> QED
      BY <1>5, <1>6, <2>2, <2>3 DEF Rank
  <1>7. \A j : Rank(j)' = Rank(j)
    BY <1>1 DEF Rank
  <1> QED
    BY <1>0, <1>4, <1>5, <1>6, <1>7

LEMMA StepThreads ==
  ASSUME IsSequence(dump.notes), ThreadList, Next
  PROVE  ThreadList' /\ dump' = dump
  <1>0. /\ dump' = dump /\ k' = k + 1 /\ k \in 1 .. Len(dump.notes) /\ ~ failed
        /\ Owners' = Owners /\ Tps' = Tps
    <2>1. dump' = dump /\ k' = k + 1 /\ k <= Len(dump.notes) /\ ~ failed
      BY DEF Next, MalformedPrstatus, PushThread, FillLast, KeepPending, SkipNote, Reading
    <2> QED
      BY <2>1 DEF ThreadList, IsSequence, Owners, Tps
  <1> DEFINE n == Len(threads)
  <1>1. /\ threads \in Seq([id : Owners, tp : Tps]) /\ n \in Nat
        /\ pendingTp \subseteq Tps
        /\ \A j \in Read : dump.notes[j].whole
        /\ n = Cardinality(Read)
        /\ \A j \in Read : threads[Rank(j)].id = dump.notes[j].owner
        /\ \A j \in Read : Rank(j) \in 1 .. n
    <2>1. /\ threads \in Seq([id : Owners, tp : Tps]) /\ pendingTp \subseteq Tps
          /\ k \in 1 .. Len(dump.notes) + 1
      BY DEF ThreadList
    <2>2. /\ \A j \in Read : dump.notes[j].whole
          /\ n = Cardinality(Read)
          /\ \A j \in Read : threads[Rank(j)].id = dump.notes[j].owner
      BY <1>0 DEF ThreadList
    <2>3. \A j \in Read : Rank(j) \in 1 .. n
      BY <2>1, <2>2, RankIn
    <2> QED
      BY <2>1, <2>2, <2>3
  <1>2. /\ NoteIn.owner \in Owners /\ NoteIn.tp \in Tps /\ 0 \in Tps
    <2>1. k \in DOMAIN dump.notes
      BY <1>0 DEF IsSequence
    <2> QED
      BY <2>1 DEF NoteIn, Owners, Tps
  <1>3. /\ k' \in 1 .. Len(dump'.notes) + 1 /\ \A j : Rank(j)' = Rank(j)
        /\ NoteIn.kind # "prstatus" => Read' = Read
        /\ NoteIn.kind = "prstatus" =>
             /\ Read' = Read \cup {k} /\ k \notin Read
             /\ Cardinality(Read') = n + 1 /\ Rank(k) = n + 1
    BY <1>0, <1>1, ReadMore
  <1>4. CASE MalformedPrstatus
    <2>1. /\ NoteIn.kind = "prstatus" /\ ~ NoteIn.whole /\ failed' = TRUE
          /\ threads' = threads /\ pendingTp' = pendingTp
      BY <1>4 DEF MalformedPrstatus, Of, Reading
    <2>2. k \in Read' /\ ~ dump'.notes[k].whole
      BY <1>0, <1>3, <2>1 DEF NoteIn
    <2> QED
      BY <1>0, <1>1, <1>3, <2>1, <2>2 DEF ThreadList
  <1>5. CASE PushThread
    <2>1. /\ NoteIn.kind = "prstatus" /\ NoteIn.whole /\ failed' = failed
          /\ threads' = Append(threads, Pushed)
          /\ pendingTp' = IF TakesPending THEN {} ELSE pendingTp
      BY <1>5 DEF PushThread, Reading
    <2>2. Pushed \in [id : Owners, tp : Tps] /\ Pushed.id = NoteIn.owner
      <3>1. (CHOOSE tp \in pendingTp : TRUE) \in Tps \/ ~ TakesPending
        BY <1>1 DEF TakesPending
      <3>2. RegsTp \in Tps
        BY <1>2 DEF RegsTp
      <3> QED
        BY <1>2, <3>1, <3>2 DEF Pushed
    <2>3. /\ threads' \in Seq([id : Owners, tp : Tps]) /\ Len(threads') = n + 1
          /\ threads'[n + 1] = Pushed
          /\ \A j \in 1 .. n : threads'[j] = threads[j]
      BY <1>1, <2>1, <2>2
    <2>4. pendingTp' \subseteq Tps
      BY <1>1, <2>1
    <2>5. ASSUME NEW j \in Read' PROVE threads'[Rank(j)].id = dump.notes[j].owner
      <3>1. CASE j \in Read
        BY <1>1, <2>3, <3>1
      <3>2. CASE j = k
        BY <1>3, <2>1, <2>2, <2>3, <3>2 DEF NoteIn
      <3> QED
        BY <1>3, <2>1, <3>1, <3>2
    <2>6. \A j \in Read' : dump.notes[j].whole
      BY <1>1, <1>3, <2>1 DEF NoteIn
    <2> QED
      BY <1>0, <1>3, <2>1, <2>3, <2>4, <2>5, <2>6 DEF ThreadList
  <1>6. CASE FillLast
    <2>1. /\ NoteIn.kind = "tls" /\ threads # <<>>
          /\ threads' = [threads EXCEPT ![n].tp = NoteIn.tp]
          /\ pendingTp' = pendingTp /\ failed' = failed
      BY <1>6 DEF FillLast, Reading, LastLacksTp
    <2>2. /\ threads' \in Seq([id : Owners, tp : Tps]) /\ Len(threads') = n
          /\ \A j \in 1 .. n : threads'[j].id = threads[j].id
      <3>a. n # 0
        BY <1>1, <2>1
      <3>1. n \in 1 .. n /\ \A j \in 1 .. n : threads[j] \in [id : Owners, tp : Tps]
        <4> DEFINE T == [id : Owners, tp : Tps]
        <4>1. threads \in Seq(T) /\ n \in Nat /\ n = Len(threads)
          BY <1>1
        <4> HIDE DEF n, T
        <4>2. n \in 1 .. n
          BY <3>a, <4>1
        <4>3. \A j \in 1 .. n : threads[j] \in T
          BY <4>1
        <4> QED
          BY <4>2, <4>3 DEF T
      <3> DEFINE filled == [threads[n] EXCEPT !.tp = NoteIn.tp]
      <3>2. filled \in [id : Owners, tp : Tps] /\ filled.id = threads[n].id
        BY <1>2, <3>1
      <3>3. threads' = [threads EXCEPT ![n] = filled]
        BY <2>1
      <3> HIDE DEF filled
      <3> QED
        BY <1>1, <3>1, <3>2, <3>3
    <2>3. Read' = Read
      BY <1>3, <2>1
    <2> QED
      BY <1>0, <1>1, <1>3, <2>1, <2>2, <2>3 DEF ThreadList
  <1>7. CASE KeepPending \/ SkipNote
    <2>1. /\ NoteIn.kind # "prstatus" /\ threads' = threads /\ failed' = failed
          /\ pendingTp' \in {pendingTp, {NoteIn.tp}}
      BY <1>7 DEF KeepPending, SkipNote, Reading
    <2>2. Read' = Read /\ pendingTp' \subseteq Tps
      BY <1>1, <1>2, <1>3, <2>1
    <2> QED
      BY <1>0, <1>1, <1>3, <2>1, <2>2 DEF ThreadList
  <1> QED
    BY <1>0, <1>4, <1>5, <1>6, <1>7 DEF Next

LEMMA InitThreads == CoreInit => ThreadsInv
  <1> SUFFICES ASSUME CoreInit PROVE ThreadsInv
    OBVIOUS
  <1>1. PICK f \in Files : stored = f.stored
    BY DEF CoreInit
  <1>2. IsStored(stored)
    BY <1>1, CoreFileAssumption
  <1>3. DOMAIN stored.dump = {"arch", "order", "notes"}
    BY <1>2, ThreadsAssumption DEF IsStored, IsDump
  <1>4. DOMAIN dump = {"arch", "order", "notes"} /\ Unstarted
    <2>1. dump = [stored.dump EXCEPT !.notes = <<>>]
      BY DEF CoreInit
    <2>2. DOMAIN dump = DOMAIN stored.dump /\ dump.notes = <<>>
      BY <1>3, <2>1
    <2> QED
      BY <1>3, <2>2 DEF CoreInit, Unstarted
  <1>5. Len(dump.notes) = 0 /\ IsSequence(dump.notes)
    BY <1>4, EmptyIsSequence DEF Unstarted
  <1>6. ThreadList
    <2>1. Read = {}
      BY <1>4 DEF Unstarted, Read, Prstatus, Of
    <2>2. Cardinality(Read) = 0
      BY <2>1, FS_EmptySet
    <2>3. threads \in Seq([id : Owners, tp : Tps]) /\ Len(threads) = 0
      BY <1>4 DEF Unstarted
    <2> QED
      BY <1>4, <1>5, <2>1, <2>2, <2>3 DEF ThreadList, Unstarted
  <1>7. files = <<>> /\ answer = C!Pending /\ ~ walked
    BY DEF CoreInit, M!Init, C!Init
  <1> QED
    BY <1>2, <1>4, <1>5, <1>6, <1>7 DEF ThreadsInv

LEMMA ReadNotesThreads == ThreadsInv /\ ReadNotes => ThreadsInv'
  <1> SUFFICES ASSUME ThreadsInv, ReadNotes PROVE ThreadsInv'
    OBVIOUS
  <1>1. /\ ~ walked /\ stored' = stored /\ k' = k /\ threads' = threads
        /\ pendingTp' = pendingTp /\ failed' = failed
        /\ files' = files /\ answer' = answer
        /\ dump' = [dump EXCEPT !.notes = Seen(WalkAllNotes(Image))]
    BY DEF ReadNotes, fileVars, imageVars
  <1>2. Unstarted /\ files = <<>> /\ answer = C!Pending
    BY <1>1 DEF ThreadsInv
  <1> DEFINE notes == WalkAllNotes(Image)
  <1>3. DOMAIN dump' = {"arch", "order", "notes"} /\ dump'.notes = Seen(notes)
    BY <1>1 DEF ThreadsInv
  <1>4. notes \in Seq(Notes)
    BY StoredNotesType DEF ThreadsInv
  <1> HIDE DEF notes
  <1>5. IsSequence(Seen(notes)) /\ Len(Seen(notes)) \in Nat
    <2>1. Len(notes) \in Nat /\ DOMAIN notes = 1 .. Len(notes)
      BY <1>4
    <2>2. Seen(notes) = [j \in 1 .. Len(notes) |-> NoteSeen(notes[j])]
      BY <2>1 DEF Seen
    <2>3. DOMAIN Seen(notes) = 1 .. Len(notes)
      BY <2>2
    <2>4. Seen(notes) = [j \in 1 .. Len(notes) |-> Seen(notes)[j]]
      BY <2>2
    <2> QED
      BY <2>1, <2>3, <2>4, FunctionIsSequence
  <1>6. ThreadList'
    <2>1. Read' = {}
      <3>1. DOMAIN dump'.notes \subseteq Nat \ {0}
        BY <1>3, <1>5 DEF IsSequence
      <3>2. k' = 1
        BY <1>1, <1>2 DEF Unstarted
      <3> QED
        BY <3>1, <3>2 DEF Read, Prstatus, Of
    <2>2. Cardinality(Read') = 0
      BY <2>1, FS_EmptySet
    <2>3. threads' \in Seq([id : Owners', tp : Tps']) /\ Len(threads') = 0
      BY <1>1, <1>2 DEF Unstarted
    <2>4. k' \in 1 .. Len(dump'.notes) + 1 /\ pendingTp' = {} /\ ~ failed'
      BY <1>1, <1>2, <1>3, <1>5 DEF Unstarted
    <2> QED
      BY <2>1, <2>2, <2>3, <2>4 DEF ThreadList
  <1>7. walked' = TRUE /\ files' = <<>> /\ answer' = C!Pending
    BY <1>1, <1>2 DEF ReadNotes
  <1>8. IsStored(stored)' /\ IsSequence(dump.notes)'
    BY <1>1, <1>3, <1>5 DEF ThreadsInv, IsStored
  <1> QED
    BY <1>3, <1>6, <1>7, <1>8 DEF ThreadsInv, C!Pending

LEMMA ThreadsStep == ThreadsInv /\ [CoreNext]_all => ThreadsInv'
  <1> SUFFICES ASSUME ThreadsInv, [CoreNext]_all PROVE ThreadsInv'
    OBVIOUS
  <1>1. CASE ReadNotes
    BY <1>1, ReadNotesThreads
  <1>2. CASE ReadThreads
    <2>1. /\ Next /\ walked /\ walked' = walked /\ stored' = stored
          /\ files' = files /\ answer' = answer
      BY <1>2 DEF ReadThreads, fileVars, imageVars
    <2>2. ~ Done
      <3>1. k <= Len(dump.notes) /\ ~ failed
        BY <2>1 DEF Next, MalformedPrstatus, PushThread, FillLast, KeepPending,
                    SkipNote, Reading
      <3>2. k \in Nat /\ Len(dump.notes) \in Nat
        BY DEF ThreadsInv, ThreadList, IsSequence
      <3> QED
        BY <3>1, <3>2 DEF Done
    <2>3. ThreadList' /\ dump' = dump
      BY <2>1, StepThreads DEF ThreadsInv
    <2> QED
      BY <2>1, <2>2, <2>3 DEF ThreadsInv, C!Pending, IsStored
  <1>3. CASE ReadFiles \/ ReadMemory \/ UNCHANGED all
    <2>1. stored' = stored /\ walked' = walked /\ UNCHANGED vars
      BY <1>3 DEF ReadFiles, ReadMemory, all
    <2>2. ThreadList' /\ (Unstarted' <=> Unstarted) /\ (Done' <=> Done)
      BY <2>1 DEF ThreadsInv, ThreadList, Read, Prstatus, Of, Rank, Owners, Tps, Unstarted,
                  Done, vars
    <2>3. (walked /\ Done /\ ~ failed) \/ (files' = files /\ answer' = answer)
      BY <1>3 DEF ReadFiles, ReadMemory, all, fileVars, imageVars
    <2> QED
      BY <2>1, <2>2, <2>3 DEF ThreadsInv, C!Pending, IsStored, vars
  <1> QED
    BY <1>1, <1>2, <1>3 DEF CoreNext

(* The thread list is that of the prstatus notes in their order, and all   *)
(* of them; a malformed one, wherever it stands, ends the analysis before  *)
(* the mapped files or memory are read.                                    *)
THEOREM ThreadsAlwaysOrNothing == CoreSpec => []ThreadsOrNothing
  <1>1. ASSUME ThreadsInv PROVE ThreadsOrNothing
    <2>1. failed => files = <<>> /\ answer = C!Pending
      BY <1>1 DEF ThreadsInv
    <2>2. ASSUME walked, Done PROVE AllThreadsOrNone
      <3>1. CASE failed
        BY <1>1, <3>1 DEF ThreadsInv, ThreadList, Read, AllThreadsOrNone
      <3>2. CASE ~ failed
        <4>1. k > Len(dump.notes) /\ k \in Nat /\ Len(dump.notes) \in Nat
          BY <1>1, <2>2, <3>2 DEF Done, ThreadsInv, ThreadList, IsSequence
        <4>2. DOMAIN dump.notes = 1 .. Len(dump.notes)
          BY <1>1 DEF ThreadsInv, IsSequence
        <4>3. Read = Prstatus
          BY <4>1, <4>2 DEF Read, Prstatus, Of
        <4> QED
          BY <1>1, <3>2, <4>3 DEF ThreadsInv, ThreadList, AllThreadsOrNone
      <3> QED
        BY <3>1, <3>2
    <2> QED
      BY <2>1, <2>2 DEF ThreadsOrNothing, AllThreadsOrNone
  <1> QED
    BY InitThreads, ThreadsStep, <1>1, PTL DEF CoreSpec, all

(* The notes are those of the image from the moment they are read.         *)
NotesInv ==
  /\ IsStored(stored)
  /\ walked => dump = [stored.dump EXCEPT !.notes = Seen(WalkAllNotes(Image))]
  /\ ~ walked => dump = [stored.dump EXCEPT !.notes = <<>>]

LEMMA NotesInit == CoreInit => NotesInv
  <1> SUFFICES ASSUME CoreInit PROVE NotesInv
    OBVIOUS
  <1>1. PICK f \in Files : stored = f.stored
    BY DEF CoreInit
  <1>2. IsStored(stored)
    BY <1>1, CoreFileAssumption
  <1> QED
    BY <1>2 DEF CoreInit, NotesInv

LEMMA NotesStep == NotesInv /\ [CoreNext]_all => NotesInv'
  <1> SUFFICES ASSUME NotesInv, [CoreNext]_all PROVE NotesInv'
    OBVIOUS
  <1>0. IsStored(stored)
    BY DEF NotesInv
  <1>1. CASE ReadNotes
    <2>1. /\ stored' = stored /\ ~ walked /\ walked' = TRUE
          /\ dump' = [dump EXCEPT !.notes = Seen(WalkAllNotes(Image))]
      BY <1>1 DEF ReadNotes
    <2>2. DOMAIN stored.dump = {"arch", "order", "notes"}
      BY <1>0, ThreadsAssumption DEF IsStored, IsDump
    <2>3. dump = [stored.dump EXCEPT !.notes = <<>>]
      BY <2>1 DEF NotesInv
    <2> DEFINE seen == Seen(WalkAllNotes(Image))
    <2> HIDE DEF seen
    <2>4. [[stored.dump EXCEPT !.notes = <<>>] EXCEPT !.notes = seen]
            = [stored.dump EXCEPT !.notes = seen]
      BY <2>2
    <2>5. Seen(WalkAllNotes(Image))' = seen
      BY <2>1 DEF seen, Image, First, Rest
    <2>6. dump' = [stored'.dump EXCEPT !.notes = seen]
      BY <2>1, <2>3, <2>4 DEF seen
    <2>7. IsStored(stored)'
      BY <1>0, <2>1 DEF IsStored
    <2> QED
      BY <2>1, <2>5, <2>6, <2>7 DEF NotesInv
  <1>2. CASE ReadThreads \/ ReadFiles \/ ReadMemory \/ UNCHANGED all
    <2>1. stored' = stored /\ walked' = walked /\ dump' = dump
      BY <1>2 DEF ReadThreads, ReadFiles, ReadMemory, all, vars, Next, MalformedPrstatus,
                  PushThread, FillLast, KeepPending, SkipNote, Reading
    <2>2. WalkAllNotes(Image)' = WalkAllNotes(Image) /\ (IsStored(stored) <=> IsStored(stored)')
      BY <2>1 DEF Image, First, Rest
    <2>3. Seen(WalkAllNotes(Image))' = Seen(WalkAllNotes(Image))
      BY <2>2
    <2> QED
      BY <2>1, <2>2, <2>3 DEF NotesInv
  <1> QED
    BY <1>1, <1>2 DEF CoreNext

LEMMA NotesAlways == CoreSpec => []NotesInv
  BY NotesInit, NotesStep, PTL DEF CoreSpec, all

(* The reader has the notes that were written and whose descriptors end    *)
(* inside their segment, in their order and with their contents, and no    *)
(* others, for every padding, size and cut of the file (walk_note_segment  *)
(* and walk_all_notes).                                                    *)
THEOREM NotesAlwaysWhole == CoreSpec => []NotesAreWhole
  <1>1. ASSUME NotesInv PROVE NotesAreWhole
    <2>1. IsStored(stored) /\ (walked => dump.notes = Seen(WalkAllNotes(Image)))
      <3>1. IsStored(stored)
        BY <1>1 DEF NotesInv
      <3>2. DOMAIN stored.dump = {"arch", "order", "notes"}
        BY <3>1, ThreadsAssumption DEF IsStored, IsDump
      <3> QED
        BY <1>1, <3>1, <3>2 DEF NotesInv
    <2>2. /\ InFirst \in Seq(Records) /\ InRest \in Seq(Records)
          /\ WalkAllNotes(Image) = InFirst \o InRest
      BY <2>1, ImageNotes
    <2>3. Seen(WalkAllNotes(Image)) = Seen(InFirst) \o Seen(InRest)
      BY <2>2, SeenJoined
    <2>4. Seen(<<>>) = <<>>
      BY DEF Seen
    <2>5. Seen(InFirst) = IF Len(Laid(First)) <= stored.keep
                            THEN Seen(NotesOf(First, Len(Laid(First)))) ELSE <<>>
      BY <2>4 DEF InFirst
    <2>6. Seen(InRest) = IF Len(Laid(First)) + stored.size <= stored.keep
                           THEN Seen(NotesOf(Rest, stored.size)) ELSE <<>>
      BY <2>4 DEF InRest
    <2> QED
      BY <2>1, <2>3, <2>5, <2>6 DEF NotesAreWhole
  <1> QED
    BY NotesAlways, <1>1, PTL

-----------------------------------------------------------------------------
(* The notes read are some of the first ones written, in their order; only *)
(* `other` notes are missing in between.                                   *)

\* All the notes of the dump as records.
All == RecordsOf(stored.dump.notes)

Continues(f, g, m, n) == \A j \in 1 .. n : g[j] = f[m + j]

LEMMA FlatSplit ==
  ASSUME NEW S, NEW m \in Nat, NEW n \in Nat, NEW f, NEW g,
         \A j \in 1 .. m + n : f[j] \in Seq(S),
         Continues(f, g, m, n)
  PROVE  Flat(f, m + n) = Flat(f, m) \o Flat(g, n)
  <1> DEFINE Splits(l) == Flat(f, m + l) = Flat(f, m) \o Flat(g, l)
             P == {l \in Nat : l <= n => Splits(l)}
  <1>1. 0 \in P
    <2>1. Flat(g, 0) = <<>> /\ m + 0 = m
      BY FlatNone
    <2>2. \A j \in 1 .. m : f[j] \in Seq(S)
      <3>1. \A j \in 1 .. m : j \in 1 .. m + n
        OBVIOUS
      <3> QED
        BY <3>1
    <2>3. Flat(f, m) \in Seq(S)
      BY <2>2, FlatType
    <2>4. Flat(f, m) \o <<>> = Flat(f, m)
      BY <2>3
    <2> QED
      BY <2>1, <2>4
  <1>2. ASSUME NEW l \in Nat, l \in P PROVE l + 1 \in P
    <2> SUFFICES ASSUME l + 1 <= n PROVE Splits(l + 1)
      OBVIOUS
    <2> DEFINE e == m + l
    <2>1. /\ e \in Nat /\ m + (l + 1) = e + 1 /\ l <= n
          /\ \A j \in 1 .. e + 1 : j \in 1 .. m + n
          /\ \A j \in 1 .. m : j \in 1 .. m + n
          /\ \A j \in 1 .. l + 1 : j \in 1 .. n /\ m + j \in 1 .. m + n
          /\ l + 1 \in 1 .. n /\ \A j \in 1 .. l : j \in 1 .. l + 1
      OBVIOUS
    <2>2. /\ \A j \in 1 .. e + 1 : f[j] \in Seq(S)
          /\ \A j \in 1 .. m : f[j] \in Seq(S)
          /\ \A j \in 1 .. l + 1 : g[j] \in Seq(S)
          /\ \A j \in 1 .. l : g[j] \in Seq(S)
          /\ g[l + 1] = f[m + (l + 1)]
      BY <2>1 DEF Continues
    <2>3. Splits(l)
      BY <1>2, <2>1
    <2>4. Flat(f, e + 1) = Flat(f, e) \o f[e + 1]
      <3> HIDE DEF e
      <3> QED
        BY <2>1, <2>2, FlatMore
    <2>5. Flat(g, l + 1) = Flat(g, l) \o g[l + 1]
      BY <2>2, FlatMore
    <2>6. Flat(f, m) \in Seq(S) /\ Flat(g, l) \in Seq(S) /\ g[l + 1] \in Seq(S)
      <3>1. l + 1 \in 1 .. l + 1
        OBVIOUS
      <3> QED
        BY <2>2, <3>1, FlatType
    <2>7. (Flat(f, m) \o Flat(g, l)) \o g[l + 1] = Flat(f, m) \o (Flat(g, l) \o g[l + 1])
      <3> DEFINE x == Flat(f, m)
                 y == Flat(g, l)
                 z == g[l + 1]
      <3>1. x \in Seq(S) /\ y \in Seq(S) /\ z \in Seq(S)
        BY <2>6
      <3> HIDE DEF x, y, z
      <3>2. (x \o y) \o z = x \o (y \o z)
        BY <3>1, ConcatAssociative
      <3> QED
        BY <3>2 DEF x, y, z
    <2>8. Flat(f, e) = Flat(f, m) \o Flat(g, l)
      BY <2>3
    <2>9. f[e + 1] = g[l + 1]
      BY <2>1, <2>2
    <2> HIDE DEF e
    <2>10. Flat(f, m + (l + 1)) = Flat(f, m) \o Flat(g, l + 1)
      BY <2>1, <2>4, <2>5, <2>7, <2>8, <2>9
    <2> QED
      BY <2>10
  <1>3. n \in P
    <2> HIDE DEF P
    <2> QED
      BY <1>1, <1>2, NatSetInduction
  <1> QED
    BY <1>3

LEMMA ReadOfAll ==
  ASSUME IsStored(stored)
  PROVE  /\ All \in Seq(Records) /\ Len(All) = Len(stored.dump.notes)
         /\ \A j \in 1 .. Len(All) :
              IsNote(stored.dump.notes[j]) /\ All[j] = RecordOf(stored.dump.notes[j])
         /\ \E m \in 0 .. Len(All) : WalkAllNotes(Image) = Flat(KeptOf(All), m)
  <1> DEFINE notes == stored.dump.notes
             n == Len(All)
             s == stored.split
             first == Len(Laid(First))
             f == KeptOf(All)
  <1>1. /\ First \in Seq(Records) /\ Rest \in Seq(Records)
        /\ Len(First) = s /\ Len(Rest) = Len(notes) - s
        /\ Len(notes) \in Nat /\ s \in 0 .. Len(notes)
        /\ \A j \in 1 .. Len(notes) : IsNote(notes[j])
        /\ \A j \in 1 .. Len(First) : First[j] = RecordOf(notes[j])
        /\ \A j \in 1 .. Len(Rest) : Rest[j] = RecordOf(notes[s + j])
        /\ first \in Nat /\ stored.size \in Nat
    BY ImageType DEF IsStored
  <1>2. /\ All \in Seq(Records) /\ n = Len(notes)
        /\ \A j \in 1 .. n : All[j] = RecordOf(notes[j])
    <2>1. IsSequence(notes)
      BY ThreadsAssumption DEF IsStored, IsDump, IsSequence
    <2>2. \A j \in 1 .. Len(notes) : IsNote(notes[j])
      BY <1>1
    <2> QED
      BY <2>1, <2>2, RecordsType DEF All
  <1>3. \A j \in 1 .. n : f[j] = Kept(All[j]) /\ f[j] \in Seq(Records)
    BY <1>2, KeptType DEF KeptOf
  <1>4. WalkAllNotes(Image) = InFirst \o InRest
    BY ImageNotes
  <1> HIDE DEF f
  <1>5. CASE ~ first <= stored.keep
    <2>1. ~ first + stored.size <= stored.keep
      <3>1. stored.keep \in Nat
        <4>1. Len(Laid(FirstOf(stored)) \o Laid(RestOf(stored))) \in Nat
          BY ImageType, Concat DEF First, Rest
        <4> QED
          BY <4>1 DEF IsStored
      <3> HIDE DEF first
      <3> QED
        BY <1>1, <1>5, <3>1
    <2>2. InFirst = <<>> /\ InRest = <<>>
      BY <1>5, <2>1 DEF InFirst, InRest
    <2>3. WalkAllNotes(Image) = Flat(f, 0)
      BY <1>4, <2>2, FlatNone
    <2>4. 0 \in 0 .. n
      BY <1>1, <1>2
    <2> QED
      BY <1>1, <1>2, <2>3, <2>4 DEF f
  <1>6. CASE first <= stored.keep
    <2> DEFINE a == KeptOf(First)
               b == KeptOf(Rest)
    <2>1. InFirst = Flat(a, s)
      BY <1>1, <1>6, WholeLaid DEF InFirst
    <2>2. PICK c \in 0 .. Len(Rest) : InRest = Flat(b, c)
      <3>1. CASE InRest = <<>>
        <4>1. 0 \in 0 .. Len(Rest) /\ Flat(b, 0) = <<>>
          BY <1>1, FlatNone
        <4> QED
          BY <3>1, <4>1
      <3>2. CASE InRest = NotesOf(Rest, stored.size)
        <4>1. \E c \in 0 .. Len(Rest) : NotesOf(Rest, stored.size) = Flat(b, c)
          BY <1>1, WholeAreFirst
        <4> QED
          BY <3>2, <4>1
      <3> QED
        BY <3>1, <3>2 DEF InRest
    <2>3. s \in Nat /\ c \in Nat /\ s + c \in 0 .. n /\ s <= n
      BY <1>1, <1>2, <2>2
    <2>4. Flat(a, s) = Flat(f, s)
      <3>1. \A j \in 1 .. s : a[j] = f[j]
        <4> SUFFICES ASSUME NEW j \in 1 .. s PROVE a[j] = f[j]
          OBVIOUS
        <4>1. j \in 1 .. n /\ j \in 1 .. Len(First)
          BY <1>1, <1>2, <2>3
        <4>2. a[j] = Kept(First[j])
          BY <4>1 DEF KeptOf
        <4>3. First[j] = All[j]
          BY <1>1, <1>2, <4>1
        <4> QED
          BY <1>3, <4>1, <4>2, <4>3
      <3>2. [j \in 1 .. s |-> a[j]] = [j \in 1 .. s |-> f[j]]
        <4> HIDE DEF a
        <4> QED
          BY <3>1
      <3> QED
        BY <3>2 DEF Flat
    <2>5. Continues(f, b, s, c)
      <3> SUFFICES ASSUME NEW j \in 1 .. c PROVE b[j] = f[s + j]
        BY DEF Continues
      <3>1. s + j \in 1 .. n /\ j \in 1 .. Len(Rest)
        <4>1. Len(Rest) \in Nat /\ n \in Nat
          BY <1>1, <1>2
        <4> HIDE DEF s, n, a, b
        <4> QED
          BY <2>3, <4>1
      <3>2. b[j] = Kept(Rest[j])
        BY <3>1 DEF KeptOf
      <3>3. Rest[j] = All[s + j]
        BY <1>1, <1>2, <3>1
      <3> QED
        BY <1>3, <3>1, <3>2, <3>3
    <2>6. Flat(f, s + c) = Flat(f, s) \o Flat(b, c)
      <3>1. \A j \in 1 .. s + c : f[j] \in Seq(Records)
        <4>1. \A j \in 1 .. s + c : j \in 1 .. n
          BY <1>1, <1>2, <2>3
        <4> QED
          BY <1>3, <4>1
      <3> HIDE DEF b, s
      <3> QED
        BY <1>2, <2>3, <2>5, <3>1, FlatSplit
    <2> QED
      BY <1>1, <1>2, <1>4, <2>1, <2>2, <2>3, <2>4, <2>6 DEF f
  <1> QED
    BY <1>5, <1>6

\* The record as it is read back.
ReadBack(r) == [name |-> Trimmed(r.name), type |-> r.type, desc |-> r.desc]

\* e says which of the first m records each note read is; texts are not missed.
Embeds(e, notes, records, m) ==
  /\ notes \in Seq(Records)
  /\ \A x \in 1 .. Len(notes) : e[x] \in 1 .. m /\ notes[x] = ReadBack(records[e[x]])
  /\ \A x, y \in 1 .. Len(notes) : x < y => e[x] < e[y]
  /\ \A j \in 1 .. m :
       IsText(Trimmed(records[j].name)) => \E x \in 1 .. Len(notes) : e[x] = j

LEMMA KeptEmbeds ==
  ASSUME NEW records \in Seq(Records), NEW m \in 0 .. Len(records)
  PROVE  \E e : Embeds(e, Flat(KeptOf(records), m), records, m)
  <1> DEFINE n == Len(records)
             f == KeptOf(records)
             P == {l \in Nat : l <= n => \E e : Embeds(e, Flat(f, l), records, l)}
  <1>1. n \in Nat /\ \A j \in 1 .. n : records[j] \in Records
    OBVIOUS
  <1>2. \A j \in 1 .. n :
          /\ f[j] = IF IsText(Trimmed(records[j].name)) THEN <<ReadBack(records[j])>> ELSE <<>>
          /\ f[j] \in Seq(Records)
    BY <1>1, KeptType DEF KeptOf, Kept, ReadBack
  <1> HIDE DEF f
  <1>3. 0 \in P
    <2> DEFINE none == Flat(f, 0)
    <2>1. none = <<>>
      BY FlatNone
    <2> HIDE DEF none
    <2>2. none \in Seq(Records) /\ Len(none) = 0 /\ 1 .. 0 = {}
      BY <2>1
    <2>3. ASSUME NEW e PROVE Embeds(e, none, records, 0)
      BY <2>2 DEF Embeds
    <2> QED
      BY <2>3 DEF none
  <1>4. ASSUME NEW l \in Nat, l \in P PROVE l + 1 \in P
    <2> SUFFICES ASSUME l + 1 <= n PROVE \E g : Embeds(g, Flat(f, l + 1), records, l + 1)
      OBVIOUS
    <2>1. l <= n /\ l + 1 \in 1 .. n /\ \A j \in 1 .. l + 1 : j \in 1 .. n
      BY <1>1
    <2> DEFINE a == Flat(f, l)
               r == records[l + 1]
    <2>2. PICK e : Embeds(e, a, records, l)
      BY <1>4, <2>1
    <2>3. /\ a \in Seq(Records) /\ Len(a) \in Nat
          /\ \A x \in 1 .. Len(a) : e[x] \in 1 .. l /\ a[x] = ReadBack(records[e[x]])
          /\ \A x, y \in 1 .. Len(a) : x < y => e[x] < e[y]
          /\ \A j \in 1 .. l :
               IsText(Trimmed(records[j].name)) => \E x \in 1 .. Len(a) : e[x] = j
      BY <2>2 DEF Embeds
    <2>4. Flat(f, l + 1) = a \o f[l + 1]
      BY <1>2, <2>1, FlatMore
    <2>5. \A j \in 1 .. l + 1 : j \in 1 .. l \/ j = l + 1
      OBVIOUS
    <2> HIDE DEF a
    <2>6. CASE ~ IsText(Trimmed(r.name))
      <3>1. f[l + 1] = <<>>
        BY <1>2, <2>1, <2>6
      <3>2. Flat(f, l + 1) = a
        BY <2>3, <2>4, <3>1
      <3>3. \A x \in 1 .. Len(a) : e[x] \in 1 .. l + 1
        <4> SUFFICES ASSUME NEW x \in 1 .. Len(a) PROVE e[x] \in 1 .. l + 1
          OBVIOUS
        <4>1. e[x] \in 1 .. l
          BY <2>3
        <4> QED
          BY <4>1
      <3>4. Embeds(e, a, records, l + 1)
        BY <2>3, <2>5, <2>6, <3>3 DEF Embeds
      <3> QED
        BY <3>2, <3>4
    <2>7. CASE IsText(Trimmed(r.name))
      <3> DEFINE one == <<ReadBack(r)>>
                 b == a \o one
                 N == Len(a)
                 g == [x \in 1 .. N + 1 |-> IF x = N + 1 THEN l + 1 ELSE e[x]]
      <3>1. f[l + 1] = one /\ one \in Seq(Records) /\ Len(one) = 1 /\ one[1] = ReadBack(r)
        <4>1. f[l + 1] = one /\ f[l + 1] \in Seq(Records)
          BY <1>2, <2>1, <2>7
        <4> QED
          BY <4>1
      <3>2. /\ b \in Seq(Records) /\ Len(b) = N + 1 /\ N \in Nat
            /\ \A x \in 1 .. N : b[x] = a[x]
            /\ b[N + 1] = ReadBack(r)
        <4>1. a \in Seq(Records) /\ one \in Seq(Records)
          BY <2>3, <3>1
        <4> HIDE DEF one
        <4>2. /\ b \in Seq(Records) /\ Len(b) = N + Len(one)
              /\ \A x \in 1 .. N : b[x] = a[x]
              /\ \A x \in 1 .. Len(one) : b[N + x] = one[x]
          BY <4>1, Concat
        <4>3. 1 \in 1 .. Len(one)
          BY <3>1
        <4> HIDE DEF b
        <4> QED
          BY <2>3, <3>1, <4>2, <4>3
      <3>3. g[N + 1] = l + 1 /\ \A x \in 1 .. N : g[x] = e[x]
        BY <3>2
      <3>4. \A x \in 1 .. N + 1 : x \in 1 .. N \/ x = N + 1
        BY <3>2
      <3> HIDE DEF b, N, g
      <3>5. \A x \in 1 .. N : g[x] \in 1 .. l /\ b[x] = ReadBack(records[g[x]])
        BY <2>3, <3>2, <3>3 DEF N
      <3>6. ASSUME NEW x \in 1 .. N + 1
            PROVE  g[x] \in 1 .. l + 1 /\ b[x] = ReadBack(records[g[x]])
        <4>1. CASE x \in 1 .. N
          <5>1. g[x] \in 1 .. l
            BY <3>5, <4>1
          <5> QED
            BY <3>5, <4>1, <5>1
        <4>2. CASE x = N + 1
          BY <3>2, <3>3, <4>2
        <4> QED
          BY <3>4, <4>1, <4>2
      <3>7. ASSUME NEW x \in 1 .. N + 1, NEW y \in 1 .. N + 1, x < y PROVE g[x] < g[y]
        <4>1. x \in 1 .. N
          BY <3>2, <3>7
        <4>2. CASE y \in 1 .. N
          BY <2>3, <3>3, <3>7, <4>1, <4>2 DEF N
        <4>3. CASE y = N + 1
          <5>1. g[x] \in 1 .. l /\ g[y] = l + 1
            BY <3>3, <3>5, <4>1, <4>3
          <5> QED
            BY <5>1
        <4> QED
          BY <3>4, <4>2, <4>3
      <3>8. ASSUME NEW j \in 1 .. l + 1, IsText(Trimmed(records[j].name))
            PROVE  \E x \in 1 .. N + 1 : g[x] = j
        <4>1. CASE j \in 1 .. l
          <5>1. PICK x \in 1 .. N : e[x] = j
            BY <2>3, <3>8, <4>1 DEF N
          <5>2. x \in 1 .. N + 1 /\ g[x] = j
            BY <3>2, <3>3, <5>1
          <5> QED
            BY <5>2
        <4>2. CASE j = l + 1
          <5>1. N + 1 \in 1 .. N + 1
            BY <3>2
          <5> QED
            BY <3>3, <4>2, <5>1
        <4> QED
          BY <2>5, <4>1, <4>2
      <3>9. Embeds(g, b, records, l + 1)
        BY <3>2, <3>6, <3>7, <3>8 DEF Embeds
      <3>10. Flat(f, l + 1) = b
        BY <2>4, <3>1 DEF b
      <3> QED
        BY <3>9, <3>10
    <2> QED
      BY <2>6, <2>7
  <1>5. m \in P
    <2>1. m \in Nat
      OBVIOUS
    <2> HIDE DEF P
    <2> QED
      BY <1>3, <1>4, <2>1, NatSetInduction
  <1>6. m <= n
    BY <1>1
  <1> QED
    BY <1>5, <1>6 DEF f

LEMMA TrimmedIs ==
  ASSUME NEW s \in Seq(Nat)
  PROVE  ToSet(Trimmed(s)) \subseteq ToSet(s)
  <1> DEFINE nuls == {x \in DOMAIN s : s[x] = NUL}
             e == Min(nuls) - 1
  <1>1. CASE nuls = {}
    BY <1>1 DEF Trimmed
  <1>2. CASE nuls # {}
    <2>1. e \in Nat /\ e <= Len(s) /\ Len(s) \in Nat
      <3>1. Min(nuls) \in nuls
        <4>1. nuls \subseteq Nat
          OBVIOUS
        <4> QED
          BY <1>2, <4>1, MinIs
      <3>2. Min(nuls) \in 1 .. Len(s)
        BY <3>1
      <3> QED
        BY <3>2
    <2>2. Trimmed(s) = SubSeq(s, 1, e)
      BY <1>2 DEF Trimmed
    <2> HIDE DEF e
    <2>3. DOMAIN SubSeq(s, 1, e) = 1 .. e /\ \A x \in 1 .. e : SubSeq(s, 1, e)[x] = s[x]
      BY <2>1
    <2>4. \A x \in 1 .. e : x \in DOMAIN s
      BY <2>1
    <2> QED
      BY <2>2, <2>3, <2>4 DEF ToSet
  <1> QED
    BY <1>1, <1>2

\* A thread's note is read back as it was written; only its end may be missing.
LEMMA SeenIs ==
  ASSUME NEW n, IsNote(n)
  PROVE  /\ NoteSeen(ReadBack(RecordOf(n)))
              = [kind |-> n.kind, owner |-> n.owner, whole |-> n.whole,
                 tp |-> IF n.whole THEN n.tp ELSE 0]
         /\ n.kind # "other" => IsText(Trimmed(RecordOf(n).name))
  <1> DEFINE r == RecordOf(n)
             desc == ReadBack(r).desc
             kinds == {kind \in Kinds : NoteTypes[kind] = ReadBack(r).type}
  <1>1. ReadBack(r).type = NoteTypes[n.kind] /\ n.kind \in Kinds
    BY DEF ReadBack, RecordOf, IsNote
  <1>2. (CHOOSE kind \in Kinds : NoteTypes[kind] = ReadBack(r).type) = n.kind
    <2>1. \A kind \in Kinds : NoteTypes[kind] = NoteTypes[n.kind] <=> kind = n.kind
      BY <1>1 DEF NoteTypes, Kinds
    <2> QED
      BY <1>1, <2>1
  <1>3. desc = IF n.whole THEN <<n.owner, n.tp>> ELSE <<n.owner>>
    BY DEF ReadBack, RecordOf
  <1>4. desc[1] = n.owner /\ (Len(desc) >= 2 <=> n.whole) /\ (n.whole => desc[2] = n.tp)
    <2>1. n.whole \in BOOLEAN
      BY DEF IsNote
    <2> HIDE DEF desc
    <2>2. CASE n.whole
      BY <1>3, <2>2
    <2>3. CASE ~ n.whole
      BY <1>3, <2>3
    <2> QED
      BY <2>2, <2>3
  <1>5. NoteSeen(ReadBack(r)) = [kind |-> n.kind, owner |-> n.owner, whole |-> n.whole,
                                 tp |-> IF n.whole THEN n.tp ELSE 0]
    <2>1. n.whole \in BOOLEAN /\ (Len(desc) >= 2) = n.whole
      BY <1>4 DEF IsNote
    <2> HIDE DEF r
    <2> QED
      BY <1>2, <1>4, <2>1 DEF NoteSeen
  <1>6. ASSUME n.kind # "other" PROVE IsText(Trimmed(r.name))
    <2>1. r.name = <<CORE, NUL>>
      BY <1>6 DEF RecordOf
    <2>2. <<CORE, NUL>> \in Seq(Nat) /\ ToSet(<<CORE, NUL>>) = {2, 0}
      BY DEF CORE, NUL, ToSet
    <2>3. ToSet(Trimmed(r.name)) \subseteq {2, 0}
      BY <2>1, <2>2, TrimmedIs
    <2> QED
      BY <2>3 DEF IsText, BadByte
  <1> QED
    BY <1>5, <1>6

-----------------------------------------------------------------------------
(* The thread pointers.  What is read of the notes is still as the kernel  *)
(* writes them: a loss at the end leaves no TLS note without its prstatus  *)
(* when that is in front of it.                                            *)

LikeWritten(d) ==
  /\ IsSequence(d.notes)
  /\ d.arch \in {"x86_64", "aarch64"} /\ d.order \in {"prstatus_first", "tls_first"}
  /\ \A j \in DOMAIN d.notes :
       /\ d.notes[j].kind \in Kinds /\ d.notes[j].owner \in Nat \ {0}
       /\ d.notes[j].tp \in {0, d.notes[j].owner}
  /\ AsWritten(d)

LEMMA SeenLikeWritten ==
  ASSUME IsStored(stored), NEW d, d = [stored.dump EXCEPT !.notes = Seen(WalkAllNotes(Image))]
  PROVE  LikeWritten(d)
  <1> DEFINE w == stored.dump
             notes == WalkAllNotes(Image)
             n == Len(All)
  <1>1. IsDump(w) /\ AsWritten(w)
    BY ThreadsAssumption DEF IsStored
  <1>2. /\ All \in Seq(Records) /\ n = Len(w.notes) /\ DOMAIN w.notes = 1 .. n /\ n \in Nat
        /\ \A j \in 1 .. n : IsNote(w.notes[j]) /\ All[j] = RecordOf(w.notes[j])
    BY <1>1, ReadOfAll DEF IsDump
  <1>3. PICK m \in 0 .. n : notes = Flat(KeptOf(All), m)
    BY ReadOfAll
  <1>4. PICK e : Embeds(e, notes, All, m)
    BY <1>2, <1>3, KeptEmbeds
  <1>d. /\ d.notes = Seen(notes) /\ d.arch = w.arch /\ d.order = w.order
    BY <1>1 DEF IsDump
  <1> HIDE DEF notes, w
  <1> DEFINE L == Len(notes)
  <1>5. /\ notes \in Seq(Records) /\ L \in Nat
        /\ \A x \in 1 .. L : e[x] \in 1 .. m /\ e[x] \in 1 .. n
                             /\ notes[x] = ReadBack(RecordOf(w.notes[e[x]]))
        /\ \A x, y \in 1 .. L : x < y => e[x] < e[y]
        /\ \A j \in 1 .. m : w.notes[j].kind # "other" => \E x \in 1 .. L : e[x] = j
    <2>1. \A j \in 1 .. m : j \in 1 .. n
      BY <1>2
    <2>2. \A j \in 1 .. m : w.notes[j].kind # "other" => IsText(Trimmed(All[j].name))
      BY <1>2, <2>1, SeenIs
    <2> QED
      BY <1>2, <1>4, <2>1, <2>2 DEF Embeds
  <1>6. /\ IsSequence(d.notes) /\ DOMAIN d.notes = 1 .. L
        /\ \A x \in 1 .. L : d.notes[x] = NoteSeen(notes[x])
    <2>1. d.notes = [j \in 1 .. L |-> NoteSeen(notes[j])]
      BY <1>5, <1>d DEF Seen
    <2>2. DOMAIN d.notes = 1 .. L /\ \A x \in 1 .. L : d.notes[x] = NoteSeen(notes[x])
      BY <2>1
    <2>3. d.notes = [j \in 1 .. L |-> d.notes[j]]
      BY <2>1
    <2> QED
      BY <1>5, <2>2, <2>3, FunctionIsSequence
  <1>7. \A x \in 1 .. L :
          d.notes[x] = [kind |-> w.notes[e[x]].kind, owner |-> w.notes[e[x]].owner,
                        whole |-> w.notes[e[x]].whole,
                        tp |-> IF w.notes[e[x]].whole THEN w.notes[e[x]].tp ELSE 0]
    BY <1>2, <1>5, <1>6, SeenIs
  <1>8. \A x \in 1 .. L :
          /\ e[x] \in DOMAIN w.notes /\ IsNote(w.notes[e[x]])
          /\ d.notes[x].kind = w.notes[e[x]].kind /\ d.notes[x].owner = w.notes[e[x]].owner
          /\ d.notes[x].tp \in {0, w.notes[e[x]].tp}
    <2> SUFFICES ASSUME NEW x \in 1 .. L
                 PROVE  /\ e[x] \in DOMAIN w.notes /\ IsNote(w.notes[e[x]])
                        /\ d.notes[x].kind = w.notes[e[x]].kind
                        /\ d.notes[x].owner = w.notes[e[x]].owner
                        /\ d.notes[x].tp \in {0, w.notes[e[x]].tp}
      OBVIOUS
    <2> DEFINE v == w.notes[e[x]]
    <2>1. e[x] \in DOMAIN w.notes /\ IsNote(v)
      BY <1>2, <1>5
    <2>2. d.notes[x] = [kind |-> v.kind, owner |-> v.owner, whole |-> v.whole,
                        tp |-> IF v.whole THEN v.tp ELSE 0]
      BY <1>7
    <2> HIDE DEF v
    <2>3. d.notes[x].kind = v.kind /\ d.notes[x].owner = v.owner /\ d.notes[x].tp \in {0, v.tp}
      BY <2>2
    <2> QED
      BY <2>1, <2>3 DEF v
  <1>9. \A x, y \in 1 .. L : (x < y <=> e[x] < e[y]) /\ (e[x] = e[y] => x = y)
    <2> SUFFICES ASSUME NEW x \in 1 .. L, NEW y \in 1 .. L
                 PROVE  (x < y <=> e[x] < e[y]) /\ (e[x] = e[y] => x = y)
      OBVIOUS
    <2>1. x \in Nat /\ y \in Nat /\ e[x] \in Nat /\ e[y] \in Nat
      BY <1>2, <1>5
    <2>2. (x < y => e[x] < e[y]) /\ (y < x => e[y] < e[x])
      BY <1>5
    <2> QED
      BY <2>1, <2>2
  <1>10. \A kind : \A x \in Of(d, kind) : x \in 1 .. L /\ e[x] \in Of(w, kind)
    BY <1>6, <1>8 DEF Of
  <1>11. AsWritten(d)
    <2>1. ASSUME NEW x \in DOMAIN d.notes, NEW y \in DOMAIN d.notes, NEW z \in DOMAIN d.notes,
                 x < y, y < z, d.notes[x].owner = d.notes[z].owner
          PROVE  d.notes[y].owner = d.notes[x].owner
      <3>1. /\ e[x] \in DOMAIN w.notes /\ e[y] \in DOMAIN w.notes /\ e[z] \in DOMAIN w.notes
            /\ e[x] < e[y] /\ e[y] < e[z] /\ w.notes[e[x]].owner = w.notes[e[z]].owner
        BY <1>6, <1>8, <1>9, <2>1
      <3>2. w.notes[e[y]].owner = w.notes[e[x]].owner
        BY <1>1, <3>1 DEF AsWritten
      <3> QED
        BY <1>6, <1>8, <3>2
    <2>2. ASSUME NEW kind \in {"prstatus", "tls"}, NEW x \in Of(d, kind), NEW y \in Of(d, kind),
                 d.notes[x].owner = d.notes[y].owner
          PROVE  x = y
      <3>1. /\ x \in 1 .. L /\ y \in 1 .. L /\ e[x] \in Of(w, kind) /\ e[y] \in Of(w, kind)
            /\ w.notes[e[x]].owner = w.notes[e[y]].owner
        BY <1>8, <1>10, <2>2
      <3>2. e[x] = e[y]
        BY <1>1, <3>1 DEF AsWritten
      <3> QED
        BY <1>9, <3>1, <3>2
    <2>3. ASSUME NEW x \in Of(d, "prstatus"), NEW y \in Of(d, "tls"),
                 d.notes[x].owner = d.notes[y].owner
          PROVE  x < y <=> d.order = "prstatus_first"
      <3>1. /\ x \in 1 .. L /\ y \in 1 .. L /\ e[x] \in Of(w, "prstatus") /\ e[y] \in Of(w, "tls")
            /\ w.notes[e[x]].owner = w.notes[e[y]].owner
        BY <1>8, <1>10, <2>3
      <3>2. e[x] < e[y] <=> w.order = "prstatus_first"
        BY <1>1, <3>1 DEF AsWritten
      <3> QED
        BY <1>9, <1>d, <3>1, <3>2
    <2>4. ASSUME d.order = "prstatus_first", NEW y \in Of(d, "tls")
          PROVE  \E x \in Of(d, "prstatus") : d.notes[x].owner = d.notes[y].owner
      <3>1. y \in 1 .. L /\ e[y] \in Of(w, "tls") /\ w.order = "prstatus_first"
        BY <1>10, <1>d, <2>4
      <3>2. PICK p \in Of(w, "prstatus") : w.notes[p].owner = w.notes[e[y]].owner
        BY <1>1, <3>1 DEF AsWritten
      <3>3. p < e[y]
        BY <1>1, <3>1, <3>2 DEF AsWritten
      <3>4. p \in 1 .. m /\ w.notes[p].kind = "prstatus"
        <4>1. p \in 1 .. n /\ w.notes[p].kind = "prstatus" /\ e[y] \in 1 .. m /\ m \in Nat
          BY <1>2, <1>3, <1>5, <3>1, <3>2 DEF Of
        <4> QED
          BY <3>3, <4>1
      <3>5. PICK x \in 1 .. L : e[x] = p
        BY <1>5, <3>4
      <3> QED
        BY <1>6, <1>8, <3>1, <3>2, <3>4, <3>5 DEF Of
    <2> QED
      BY <2>1, <2>2, <2>3, <2>4 DEF AsWritten
  <1>12. \A x \in 1 .. L :
           /\ d.notes[x].kind \in Kinds /\ d.notes[x].owner \in Nat \ {0}
           /\ d.notes[x].tp \in {0, d.notes[x].owner}
    BY <1>8 DEF IsNote
  <1>13. w.arch \in {"x86_64", "aarch64"} /\ w.order \in {"prstatus_first", "tls_first"}
    BY <1>1 DEF IsDump
  <1> QED
    BY <1>6, <1>11, <1>12, <1>13, <1>d DEF LikeWritten

\* The whole TLS notes of the thread id in front of the m-th note.
PassedTls(d, m, id) ==
  {j \in Of(d, "tls") : j < m /\ d.notes[j].whole /\ d.notes[j].owner = id}

\* A whole TLS note passed, its prstatus not yet; all behind it is of its thread.
Waiting(j) ==
  /\ j \in Of(dump, "tls") /\ j < k /\ dump.notes[j].whole
  /\ \A r \in DOMAIN dump.notes :
       j < r /\ r < k => dump.notes[r].owner = dump.notes[j].owner
                         /\ dump.notes[r].kind # "prstatus"

Ranked == \A t \in 1 .. Len(threads) : \E r \in Read : Rank(r) = t

FromRegs ==
  /\ pendingTp = {}
  /\ \A t \in 1 .. Len(threads) :
       \E r \in Read : Rank(r) = t /\ threads[t].tp = dump.notes[r].tp

FromBehind ==
  /\ pendingTp = {}
  /\ \A t \in 1 .. Len(threads) :
       /\ PassedTls(dump, k, threads[t].id) = {} => threads[t].tp = 0
       /\ \A j \in PassedTls(dump, k, threads[t].id) : threads[t].tp = dump.notes[j].tp

FromFront ==
  /\ \A t \in 1 .. Len(threads) : threads[t].tp = threads[t].id
  /\ \A j : Waiting(j) => pendingTp = {dump.notes[j].tp}

PointersInv ==
  ~ failed =>
    /\ Ranked
    /\ dump.arch = "x86_64" => FromRegs
    /\ dump.arch = "aarch64" /\ dump.order = "prstatus_first" => FromBehind
    /\ dump.arch = "aarch64" /\ dump.order = "tls_first" /\ Complete => FromFront

\* With its prstatus in front of it, a TLS note is the last thread's.
LEMMA LastOwns ==
  ASSUME LikeWritten(dump), ThreadList, ~ failed, Ranked,
         k \in Of(dump, "tls"), dump.order = "prstatus_first"
  PROVE  /\ Len(threads) \in Nat \ {0}
         /\ threads[Len(threads)].id = NoteIn.owner
         /\ \A t \in 1 .. Len(threads) : threads[t].id = NoteIn.owner => t = Len(threads)
         /\ PassedTls(dump, k, NoteIn.owner) = {}
  <1> DEFINE n == Len(threads)
             id == NoteIn.owner
  <1>0. /\ IsSequence(dump.notes) /\ AsWritten(dump)
        /\ DOMAIN dump.notes = 1 .. Len(dump.notes) /\ Len(dump.notes) \in Nat /\ k \in Nat
    BY DEF LikeWritten, IsSequence, ThreadList
  <1>1. PICK p \in Of(dump, "prstatus") : dump.notes[p].owner = id
    BY <1>0 DEF AsWritten, NoteIn
  <1>2. p < k /\ p \in Nat
    BY <1>0, <1>1 DEF AsWritten, NoteIn, Of
  <1>3. p \in Read
    BY <1>1, <1>2 DEF Read, Prstatus
  <1>4. \A r \in Read : dump.notes[r].owner = id => r = p
    BY <1>0, <1>1 DEF AsWritten, Read, Prstatus
  <1>5. ASSUME NEW r \in Read PROVE r <= p
    <2> SUFFICES ASSUME ~ r <= p PROVE FALSE
      OBVIOUS
    <2>1. r \in DOMAIN dump.notes /\ r < k /\ r \in Nat
      BY <1>0 DEF Read, Prstatus, Of
    <2>2. p < r
      BY <1>2, <2>1
    <2>3. p \in DOMAIN dump.notes /\ k \in DOMAIN dump.notes
      BY <1>1 DEF Of
    <2>4. dump.notes[r].owner = dump.notes[p].owner
      BY <1>0, <1>1, <2>1, <2>2, <2>3 DEF AsWritten, NoteIn
    <2>5. r = p
      BY <1>1, <1>4, <2>4
    <2> QED
      BY <1>2, <2>2, <2>5
  <1>6. {l \in Prstatus : l <= p} = Read
    <2>1. \A l \in Prstatus : l <= p => l < k
      BY <1>0, <1>2 DEF Prstatus, Of
    <2> QED
      BY <1>5, <2>1 DEF Read
  <1>7. /\ n = Cardinality(Read) /\ \A r \in Read : threads[Rank(r)].id = dump.notes[r].owner
        /\ \A r \in Read : Rank(r) \in 1 .. Cardinality(Read)
        /\ Cardinality(Read) \in Nat
    BY <1>0, RankIn DEF ThreadList
  <1>8. Rank(p) = n
    BY <1>6, <1>7 DEF Rank
  <1>9. n \in Nat \ {0}
    BY <1>3, <1>7, <1>8
  <1>10. ASSUME NEW t \in 1 .. n, threads[t].id = id PROVE t = n
    <2>1. PICK r \in Read : Rank(r) = t
      BY DEF Ranked
    <2>2. r = p
      BY <1>4, <1>7, <1>10, <2>1
    <2> QED
      BY <1>8, <2>1, <2>2
  <1>11. PassedTls(dump, k, id) = {}
    <2> SUFFICES ASSUME NEW j \in PassedTls(dump, k, id) PROVE FALSE
      OBVIOUS
    <2>1. j \in Of(dump, "tls") /\ dump.notes[j].owner = id /\ j < k
      BY DEF PassedTls
    <2>2. j = k
      BY <1>0, <2>1 DEF AsWritten, NoteIn
    <2> QED
      BY <1>0, <2>1, <2>2
  <1>12. threads[n].id = id
    BY <1>1, <1>3, <1>7, <1>8
  <1> QED
    BY <1>9, <1>10, <1>11, <1>12

\* With the TLS note in front, it still waits when the prstatus is next.
LEMMA OwnWaits ==
  ASSUME LikeWritten(dump), ThreadList, k \in Of(dump, "prstatus"),
         dump.arch = "aarch64", dump.order = "tls_first", Complete
  PROVE  \E j : Waiting(j) /\ dump.notes[j].tp = NoteIn.owner
  <1> DEFINE id == NoteIn.owner
  <1>0. /\ IsSequence(dump.notes) /\ AsWritten(dump)
        /\ DOMAIN dump.notes = 1 .. Len(dump.notes) /\ Len(dump.notes) \in Nat /\ k \in Nat
    BY DEF LikeWritten, IsSequence, ThreadList
  <1>1. id \in Owners
    BY DEF NoteIn, Owners, Of
  <1>2. PICK j \in Of(dump, "tls") :
          dump.notes[j].owner = id /\ dump.notes[j].whole /\ dump.notes[j].tp = id
    <2>1. id \in KnownTps(id)
      BY <1>1 DEF Complete
    <2> QED
      BY <2>1 DEF KnownTps, Of
  <1>3. j < k
    <2>1. ~ k < j
      BY <1>0, <1>2 DEF AsWritten, NoteIn
    <2>2. j # k
      BY DEF Of
    <2>3. j \in Nat
      BY <1>0 DEF Of
    <2> QED
      BY <1>0, <2>1, <2>2, <2>3
  <1>4. ASSUME NEW r \in DOMAIN dump.notes, j < r, r < k
        PROVE  dump.notes[r].owner = dump.notes[j].owner /\ dump.notes[r].kind # "prstatus"
    <2>1. j \in DOMAIN dump.notes /\ k \in DOMAIN dump.notes
      BY DEF Of
    <2>2. dump.notes[r].owner = dump.notes[j].owner
      BY <1>0, <1>2, <1>4, <2>1 DEF AsWritten, NoteIn
    <2>3. ASSUME dump.notes[r].kind = "prstatus" PROVE FALSE
      <3>1. r \in Of(dump, "prstatus") /\ dump.notes[r].owner = dump.notes[k].owner
        BY <1>2, <2>2, <2>3 DEF Of, NoteIn
      <3>2. r = k
        BY <1>0, <3>1 DEF AsWritten
      <3> QED
        BY <1>0, <1>4, <3>2
    <2> QED
      BY <2>2, <2>3
  <1>5. Waiting(j)
    BY <1>2, <1>3, <1>4 DEF Waiting
  <1> QED
    BY <1>2, <1>5

\* A thread has one TLS note: the one read is all that are passed then.
LEMMA PassedOwn ==
  ASSUME LikeWritten(dump), k \in Of(dump, "tls"), NoteIn.whole
  PROVE  PassedTls(dump, k + 1, NoteIn.owner) = {k}
  <1>0. AsWritten(dump) /\ k \in Nat
    BY DEF LikeWritten, IsSequence, Of
  <1>1. k \in PassedTls(dump, k + 1, NoteIn.owner)
    BY <1>0 DEF PassedTls, NoteIn
  <1>2. ASSUME NEW j \in PassedTls(dump, k + 1, NoteIn.owner) PROVE j = k
    BY <1>0 DEF PassedTls, NoteIn, AsWritten
  <1> QED
    BY <1>1, <1>2

LEMMA PassedOther ==
  ASSUME LikeWritten(dump), k \in DOMAIN dump.notes, NEW id, id # NoteIn.owner
  PROVE  PassedTls(dump, k + 1, id) = PassedTls(dump, k, id)
  <1>1. \A j \in Of(dump, "tls") : j \in Nat
    BY DEF LikeWritten, IsSequence, Of
  <1>2. k \in Nat
    BY DEF LikeWritten, IsSequence
  <1>3. ASSUME NEW j \in Of(dump, "tls"), dump.notes[j].owner = id PROVE j < k + 1 <=> j < k
    <2>1. j # k
      BY <1>3 DEF NoteIn
    <2> QED
      BY <1>1, <1>2, <2>1
  <1> QED
    BY <1>3 DEF PassedTls

LEMMA StepPointers ==
  ASSUME LikeWritten(dump), ThreadList, PointersInv, Next
  PROVE  PointersInv'
  <1> DEFINE n == Len(threads)
             T == [id : Owners, tp : Tps]
  <1>0. /\ dump' = dump /\ k' = k + 1 /\ k \in 1 .. Len(dump.notes) /\ ~ failed
        /\ k \in Nat /\ k \in DOMAIN dump.notes
        /\ IsSequence(dump.notes) /\ AsWritten(dump)
        /\ Complete' = Complete
    <2>1. dump' = dump /\ k' = k + 1 /\ k <= Len(dump.notes) /\ ~ failed
      BY DEF Next, MalformedPrstatus, PushThread, FillLast, KeepPending, SkipNote, Reading
    <2>2. IsSequence(dump.notes) /\ AsWritten(dump) /\ k \in 1 .. Len(dump.notes) + 1
      BY DEF LikeWritten, ThreadList
    <2>3. Complete' = Complete
      BY <2>1 DEF Complete, Owners, KnownTps
    <2> QED
      BY <2>1, <2>2, <2>3 DEF IsSequence
  <1>1. /\ threads \in Seq(T) /\ n \in Nat
        /\ \A t \in 1 .. n : threads[t] \in T
        /\ \A t \in 1 .. n : threads[t].id \in Owners
    <2>1. threads \in Seq(T)
      BY DEF ThreadList
    <2> HIDE DEF T
    <2>2. n \in Nat /\ \A t \in 1 .. n : threads[t] \in T
      BY <2>1
    <2> QED
      BY <2>1, <2>2 DEF T
  <1>2. /\ Ranked
        /\ dump.arch = "x86_64" => FromRegs
        /\ dump.arch = "aarch64" /\ dump.order = "prstatus_first" => FromBehind
        /\ dump.arch = "aarch64" /\ dump.order = "tls_first" /\ Complete => FromFront
    BY <1>0 DEF PointersInv
  <1>3. /\ \A j : Rank(j)' = Rank(j)
        /\ NoteIn.kind # "prstatus" => Read' = Read
        /\ NoteIn.kind = "prstatus" =>
             Read' = Read \cup {k} /\ Rank(k) = Cardinality(Read) + 1
        /\ n = Cardinality(Read)
    BY <1>0, ReadMore DEF ThreadList
  <1>4. \A j \in DOMAIN dump.notes : j < k' <=> j < k \/ j = k
    BY <1>0 DEF IsSequence
  <1>5. \A kind : Of(dump, kind)' = Of(dump, kind)
    BY <1>0 DEF Of
  <1>6. ASSUME ~ (NoteIn.kind = "tls" /\ NoteIn.whole) 
        PROVE \A id : PassedTls(dump, k + 1, id) = PassedTls(dump, k, id)
    <2>1. ~ (k \in Of(dump, "tls") /\ dump.notes[k].whole)
      BY <1>6 DEF Of, NoteIn
    <2>2. \A j \in Of(dump, "tls") : j \in DOMAIN dump.notes
      BY DEF Of
    <2>3. \A j \in DOMAIN dump.notes : j < k + 1 <=> j < k \/ j = k
      BY <1>0, <1>4
    <2> QED
      BY <2>1, <2>2, <2>3 DEF PassedTls
  <1>7. ASSUME NEW j, Waiting(j)', j # k PROVE Waiting(j)
    <2>1. j \in Of(dump, "tls") /\ j < k' /\ dump.notes[j].whole /\ j \in DOMAIN dump.notes
      BY <1>0, <1>5, <1>7 DEF Waiting, Of
    <2>2. j < k
      BY <1>4, <1>7, <2>1
    <2>3. \A r \in DOMAIN dump.notes : r < k => r < k'
      BY <1>4
    <2> QED
      BY <1>0, <1>7, <2>1, <2>2, <2>3 DEF Waiting
  <1>8. \A t \in 1 .. n : threads[t].id # 0
    BY <1>1 DEF LikeWritten, Owners
  <1>9. CASE MalformedPrstatus
    BY <1>9 DEF MalformedPrstatus, PointersInv
  <1>10. CASE PushThread
    <2>1. /\ NoteIn.kind = "prstatus" /\ NoteIn.whole /\ k \in Of(dump, "prstatus")
          /\ threads' = Append(threads, Pushed)
          /\ pendingTp' = IF TakesPending THEN {} ELSE pendingTp
          /\ Pushed.id = NoteIn.owner
          /\ Pushed.tp = IF TakesPending THEN CHOOSE tp \in pendingTp : TRUE ELSE RegsTp
      BY <1>0, <1>10 DEF PushThread, Reading, Pushed, Of, NoteIn
    <2>2. /\ Len(threads') = n + 1 /\ threads'[n + 1] = Pushed
          /\ \A t \in 1 .. n : threads'[t] = threads[t]
          /\ \A t \in 1 .. n + 1 : t \in 1 .. n \/ t = n + 1
          /\ n + 1 \in 1 .. n + 1
      BY <1>1, <2>1
    <2>p. PICK p : p = k
      OBVIOUS
    <2>3. /\ \A id : PassedTls(dump, k + 1, id) = PassedTls(dump, k, id)
          /\ p \in Read' /\ Rank(p)' = n + 1
          /\ \A r \in Read : r \in Read' /\ Rank(r)' = Rank(r)
      <3>1. Rank(p) = n + 1 /\ Read' = Read \cup {p}
        BY <1>3, <2>1, <2>p
      <3> QED
        BY <1>3, <1>6, <2>1, <3>1
    <2>4. Ranked'
      <3> SUFFICES ASSUME NEW t \in 1 .. n + 1 PROVE \E r \in Read' : Rank(r)' = t
        BY <2>2 DEF Ranked
      <3>1. CASE t \in 1 .. n
        BY <1>2, <2>3, <3>1 DEF Ranked
      <3>2. CASE t = n + 1
        BY <2>3, <3>2
      <3> QED
        BY <2>2, <3>1, <3>2
    <2>5. ASSUME dump.arch = "x86_64" PROVE FromRegs'
      <3>1. pendingTp = {} /\ pendingTp' = {} /\ Pushed.tp = dump.notes[k].tp
        BY <1>2, <2>1, <2>5 DEF FromRegs, TakesPending, RegsTp, NoteIn
      <3>2. ASSUME NEW t \in 1 .. n + 1
            PROVE  \E r \in Read' : Rank(r)' = t /\ threads'[t].tp = dump.notes[r].tp
        <4>1. CASE t \in 1 .. n
          <5>1. PICK r \in Read : Rank(r) = t /\ threads[t].tp = dump.notes[r].tp
            BY <1>2, <2>5, <4>1 DEF FromRegs
          <5> QED
            BY <2>2, <2>3, <4>1, <5>1
        <4>2. CASE t = n + 1
          <5>1. threads'[t].tp = dump.notes[p].tp
            BY <2>2, <2>p, <3>1, <4>2
          <5> QED
            BY <2>3, <4>2, <5>1
        <4> QED
          BY <2>2, <4>1, <4>2
      <3> QED
        BY <1>0, <2>2, <3>1, <3>2 DEF FromRegs
    <2>6. ASSUME dump.arch = "aarch64", dump.order = "prstatus_first" PROVE FromBehind'
      <3>1. pendingTp = {} /\ pendingTp' = {} /\ Pushed.tp = 0
        BY <1>2, <2>1, <2>6 DEF FromBehind, TakesPending, RegsTp
      <3>2. PassedTls(dump, k, NoteIn.owner) = {}
        <4> SUFFICES ASSUME NEW j \in PassedTls(dump, k, NoteIn.owner) PROVE FALSE
          OBVIOUS
        <4>1. j \in Of(dump, "tls") /\ dump.notes[j].owner = dump.notes[k].owner /\ j < k
          BY DEF PassedTls, NoteIn
        <4>2. k < j
          BY <1>0, <2>1, <2>6, <4>1 DEF AsWritten
        <4>3. j \in Nat
          BY <1>0, <4>1 DEF Of, IsSequence
        <4> QED
          BY <1>0, <4>1, <4>2, <4>3
      <3>3. ASSUME NEW t \in 1 .. n + 1
            PROVE  LET passed == PassedTls(dump, k + 1, threads'[t].id)
                   IN  /\ passed = {} => threads'[t].tp = 0
                       /\ \A j \in passed : threads'[t].tp = dump.notes[j].tp
        <4>1. CASE t \in 1 .. n
          BY <1>2, <2>2, <2>3, <2>6, <4>1 DEF FromBehind
        <4>2. CASE t = n + 1
          BY <2>1, <2>2, <2>3, <3>1, <3>2, <4>2
        <4> QED
          BY <2>2, <4>1, <4>2
      <3> QED
        BY <1>0, <2>2, <3>1, <3>3 DEF FromBehind
    <2>7. ASSUME dump.arch = "aarch64", dump.order = "tls_first", Complete PROVE FromFront'
      <3>1. PICK j : Waiting(j) /\ dump.notes[j].tp = NoteIn.owner
        BY <2>1, <2>7, OwnWaits
      <3>2. pendingTp = {NoteIn.owner}
        BY <1>2, <2>7, <3>1 DEF FromFront
      <3>3. TakesPending /\ (CHOOSE tp \in pendingTp : TRUE) = NoteIn.owner
        BY <2>7, <3>2 DEF TakesPending, RegsTp
      <3>4. Pushed.tp = Pushed.id
        BY <2>1, <3>3
      <3>5. \A t \in 1 .. n + 1 : threads'[t].tp = threads'[t].id
        BY <1>2, <2>2, <2>7, <3>4 DEF FromFront
      <3>6. ASSUME NEW l, Waiting(l)' PROVE FALSE
        <4>1. l # k
          BY <1>5, <2>1, <3>6 DEF Waiting, Of, NoteIn
        <4>2. l < k
          BY <1>7, <3>6, <4>1 DEF Waiting
        <4>3. k < k'
          BY <1>0
        <4> QED
          BY <1>0, <2>1, <3>6, <4>2, <4>3 DEF Waiting, NoteIn
      <3> QED
        BY <2>2, <3>5, <3>6 DEF FromFront
    <2> QED
      BY <1>0, <2>4, <2>5, <2>6, <2>7 DEF PointersInv
  <1>11. CASE FillLast
    <2>1. /\ NoteIn.kind = "tls" /\ NoteIn.whole /\ dump.arch = "aarch64"
          /\ k \in Of(dump, "tls") /\ threads # <<>> /\ threads[n].tp = 0
          /\ threads' = [threads EXCEPT ![n].tp = NoteIn.tp]
          /\ pendingTp' = pendingTp
      BY <1>0, <1>1, <1>11 DEF FillLast, Reading, IsTlsNote, LastLacksTp, Last, Of, NoteIn
    <2>2. n \in 1 .. n
      <3>1. n # 0
        <4>1. threads \in Seq(T) /\ threads # <<>>
          BY <1>1, <2>1
        <4> HIDE DEF T
        <4> QED
          BY <4>1
      <3> HIDE DEF n
      <3> QED
        BY <1>1, <3>1
    <2>3. /\ Len(threads') = n
          /\ \A t \in 1 .. n : threads'[t].id = threads[t].id
          /\ \A t \in 1 .. n : t # n => threads'[t] = threads[t]
          /\ threads'[n].tp = NoteIn.tp
      <3> DEFINE filled == [threads[n] EXCEPT !.tp = NoteIn.tp]
      <3>1. filled.id = threads[n].id /\ filled.tp = NoteIn.tp
        BY <1>1, <2>2
      <3>2. threads' = [threads EXCEPT ![n] = filled]
        BY <2>1
      <3> HIDE DEF filled, T
      <3> QED
        BY <1>1, <2>2, <3>1, <3>2
    <2>4. Read' = Read
      BY <1>3, <2>1
    <2>5. Ranked'
      BY <1>2, <1>3, <2>3, <2>4 DEF Ranked
    <2>6. ASSUME dump.order = "prstatus_first" PROVE FromBehind'
      <3>1. /\ threads[n].id = NoteIn.owner
            /\ \A t \in 1 .. n : threads[t].id = NoteIn.owner => t = n
        BY <1>0, <1>2, <2>1, <2>6, LastOwns
      <3>2. PassedTls(dump, k + 1, NoteIn.owner) = {k}
        BY <1>0, <2>1, PassedOwn
      <3>3. ASSUME NEW t \in 1 .. n
            PROVE  LET passed == PassedTls(dump, k + 1, threads'[t].id)
                   IN  /\ passed = {} => threads'[t].tp = 0
                       /\ \A j \in passed : threads'[t].tp = dump.notes[j].tp
        <4>1. CASE t = n
          BY <2>3, <3>1, <3>2, <4>1 DEF NoteIn
        <4>2. CASE t # n
          <5>1. /\ threads'[t] = threads[t] /\ threads[t].id # NoteIn.owner
            BY <2>3, <3>1, <4>2
          <5>2. PassedTls(dump, k + 1, threads[t].id) = PassedTls(dump, k, threads[t].id)
            BY <1>0, <5>1, PassedOther
          <5>3. FromBehind
            BY <1>2, <2>1, <2>6
          <5>4. /\ PassedTls(dump, k, threads[t].id) = {} => threads[t].tp = 0
                /\ \A j \in PassedTls(dump, k, threads[t].id) :
                     threads[t].tp = dump.notes[j].tp
            BY <5>3 DEF FromBehind
          <5> QED
            BY <5>1, <5>2, <5>4
        <4> QED
          BY <4>1, <4>2
      <3>4. pendingTp' = {}
        BY <1>2, <2>1, <2>6 DEF FromBehind
      <3> QED
        BY <1>0, <2>3, <3>3, <3>4 DEF FromBehind
    <2>7. ASSUME dump.order = "tls_first", Complete PROVE FALSE
      BY <1>2, <1>8, <2>1, <2>2, <2>7 DEF FromFront
    <2> QED
      BY <1>0, <2>1, <2>5, <2>6, <2>7 DEF PointersInv
  <1>12. CASE KeepPending
    <2>1. /\ NoteIn.kind = "tls" /\ NoteIn.whole /\ dump.arch = "aarch64"
          /\ k \in Of(dump, "tls") /\ threads' = threads
          /\ threads = <<>> \/ threads[n].tp # 0
          /\ pendingTp' = {NoteIn.tp}
      BY <1>0, <1>1, <1>12 DEF KeepPending, Reading, IsTlsNote, LastLacksTp, Last, Of, NoteIn
    <2>2. Ranked'
      BY <1>2, <1>3, <2>1 DEF Ranked
    <2>3. ASSUME dump.order = "prstatus_first" PROVE FALSE
      <3>1. /\ n \in Nat \ {0} /\ threads[n].id = NoteIn.owner
            /\ PassedTls(dump, k, NoteIn.owner) = {}
        BY <1>0, <1>2, <2>1, <2>3, LastOwns
      <3>2. n \in 1 .. n /\ threads # <<>>
        BY <3>1
      <3>3. threads[n].tp = 0
        BY <1>2, <2>1, <2>3, <3>1, <3>2 DEF FromBehind
      <3> QED
        BY <2>1, <3>2, <3>3
    <2>4. ASSUME dump.order = "tls_first", Complete PROVE FromFront'
      <3>1. \A t \in 1 .. Len(threads') : threads'[t].tp = threads'[t].id
        BY <1>2, <2>1, <2>4 DEF FromFront
      <3>p. PICK p : p = k
        OBVIOUS
      <3>2. ASSUME NEW j, Waiting(j)' PROVE pendingTp' = {dump'.notes[j].tp}
        <4>1. CASE j = p
          BY <1>0, <2>1, <3>p, <4>1 DEF NoteIn
        <4>2. CASE j # p
          <5>1. Waiting(j)
            BY <1>7, <3>2, <3>p, <4>2
          <5>2. dump.notes[k].owner = dump.notes[j].owner
            BY <1>0, <3>2, <5>1 DEF Waiting
          <5>3. j = k
            BY <1>0, <2>1, <5>1, <5>2 DEF AsWritten, Waiting
          <5> QED
            BY <3>p, <4>2, <5>3
        <4> QED
          BY <4>1, <4>2
      <3> QED
        BY <3>1, <3>2 DEF FromFront
    <2> QED
      BY <1>0, <2>1, <2>2, <2>3, <2>4 DEF PointersInv
  <1>13. CASE SkipNote
    <2>1. /\ NoteIn.kind # "prstatus" /\ threads' = threads /\ pendingTp' = pendingTp
          /\ dump.arch = "aarch64" => ~ (NoteIn.kind = "tls" /\ NoteIn.whole)
      BY <1>0, <1>13 DEF SkipNote, Reading, IsTlsNote, NoteIn
    <2>2. Ranked'
      BY <1>2, <1>3, <2>1 DEF Ranked
    <2>3. ASSUME dump.arch = "x86_64" PROVE FromRegs'
      BY <1>0, <1>2, <1>3, <2>1, <2>3 DEF FromRegs
    <2>4. ASSUME dump.arch = "aarch64", dump.order = "prstatus_first" PROVE FromBehind'
      <3>1. \A id : PassedTls(dump, k + 1, id) = PassedTls(dump, k, id)
        BY <1>6, <2>1, <2>4
      <3> QED
        BY <1>0, <1>2, <2>1, <2>4, <3>1 DEF FromBehind
    <2>5. ASSUME dump.arch = "aarch64", dump.order = "tls_first", Complete PROVE FromFront'
      <3>p. PICK p : p = k
        OBVIOUS
      <3>1. ASSUME NEW j, Waiting(j)' PROVE pendingTp' = {dump'.notes[j].tp}
        <4>1. j # p
          BY <1>0, <1>5, <2>1, <2>5, <3>1, <3>p DEF Waiting, Of, NoteIn
        <4>2. Waiting(j)
          BY <1>7, <3>1, <3>p, <4>1
        <4> QED
          BY <1>0, <1>2, <2>1, <2>5, <4>2 DEF FromFront
      <3> QED
        BY <1>2, <2>1, <2>5, <3>1 DEF FromFront
    <2> QED
      BY <1>0, <2>2, <2>3, <2>4, <2>5 DEF PointersInv
  <1> QED
    BY <1>9, <1>10, <1>11, <1>12, <1>13 DEF Next

\* The notes a thread pointer is read from, and the pointers of those passed.
Sources(d) == Of(d, IF d.arch = "x86_64" THEN "prstatus" ELSE "tls")

Spent(d, m) == {d.notes[j].owner : j \in {l \in Sources(d) : l < m}}

(* A pointer is with one thread or waits, and its note is passed.          *)
Apart ==
  /\ dump.arch = "x86_64" => pendingTp = {}
  /\ \A tp \in pendingTp \ {0} :
       tp \in Spent(dump, k) /\ \A t \in 1 .. Len(threads) : threads[t].tp # tp
  /\ \A t \in 1 .. Len(threads) : threads[t].tp # 0 => threads[t].tp \in Spent(dump, k)
  /\ \A s, t \in 1 .. Len(threads) :
       threads[s].tp = threads[t].tp => s = t \/ threads[t].tp = 0

LEMMA StepApart ==
  ASSUME LikeWritten(dump), ThreadList, Apart, Next
  PROVE  Apart'
  <1> DEFINE n == Len(threads)
             T == [id : Owners, tp : Tps]
             old == Spent(dump, k)
             new == Spent(dump, k + 1)
  <1>1. /\ dump' = dump /\ k' = k + 1 /\ k \in DOMAIN dump.notes
        /\ DOMAIN dump.notes \subseteq Nat /\ AsWritten(dump)
    <2>1. dump' = dump /\ k' = k + 1 /\ k <= Len(dump.notes)
      BY DEF Next, MalformedPrstatus, PushThread, FillLast, KeepPending, SkipNote, Reading
    <2>2. IsSequence(dump.notes) /\ AsWritten(dump) /\ k \in 1 .. Len(dump.notes) + 1
      BY DEF LikeWritten, ThreadList
    <2> QED
      BY <2>1, <2>2 DEF IsSequence
  <1>2. threads \in Seq(T) /\ n \in Nat /\ \A t \in 1 .. n : threads[t] \in T
    <2>1. threads \in Seq(T)
      BY DEF ThreadList
    <2> HIDE DEF T
    <2> QED
      BY <2>1
  <1>3. old \subseteq new /\ Spent(dump, k)' = new
    <2>1. \A j \in Sources(dump) : j < k => j < k + 1
      BY <1>1 DEF Sources, Of
    <2> QED
      BY <1>1, <2>1 DEF Spent
  <1>4. ASSUME k \in Sources(dump), NoteIn.tp # 0
        PROVE  NoteIn.tp \in new \ old
    <2>1. NoteIn.owner = NoteIn.tp
      BY <1>1, <1>4 DEF LikeWritten, NoteIn
    <2>2. NoteIn.owner \in new
      BY <1>1, <1>4 DEF Spent, NoteIn
    <2>3. ASSUME NEW j \in Sources(dump), j < k, dump.notes[j].owner = NoteIn.owner PROVE FALSE
      <3>1. j = k
        BY <1>1, <1>4, <2>3 DEF AsWritten, Sources, NoteIn
      <3> QED
        BY <1>1, <2>3, <3>1
    <2> QED
      BY <2>1, <2>2, <2>3 DEF Spent
  <1>0. /\ dump.arch = "x86_64" => pendingTp = {}
        /\ \A tp \in pendingTp \ {0} : tp \in old /\ \A t \in 1 .. n : threads[t].tp # tp
        /\ \A t \in 1 .. n : threads[t].tp # 0 => threads[t].tp \in old
        /\ \A s, t \in 1 .. n :
             threads[s].tp = threads[t].tp => s = t \/ threads[t].tp = 0
    BY DEF Apart
  <1> HIDE DEF old, new
  <1>5. CASE PushThread
    <2>1. /\ NoteIn.kind = "prstatus" /\ threads' = Append(threads, Pushed)
          /\ pendingTp' = IF TakesPending THEN {} ELSE pendingTp
          /\ Pushed.tp = IF TakesPending THEN CHOOSE tp \in pendingTp : TRUE ELSE RegsTp
      BY <1>5 DEF PushThread, Reading, Pushed
    <2>2. /\ Len(threads') = n + 1 /\ threads'[n + 1] = Pushed
          /\ \A t \in 1 .. n : threads'[t] = threads[t]
          /\ \A t \in 1 .. n + 1 : t \in 1 .. n \/ t = n + 1
      BY <1>2, <2>1
    <2>x. PICK x : x = Pushed.tp
      OBVIOUS
    <2>3. x # 0 => x \in new /\ \A t \in 1 .. n : threads[t].tp # x
      <3>1. ASSUME TakesPending, x # 0 PROVE x \in pendingTp \ {0}
        BY <2>1, <2>x, <3>1 DEF TakesPending
      <3>2. ASSUME ~ TakesPending, x # 0 PROVE x \in new \ old
        <4>1. dump.arch = "x86_64" /\ x = NoteIn.tp
          BY <2>1, <2>x, <3>2 DEF RegsTp
        <4>2. k \in Sources(dump)
          BY <1>1, <2>1, <4>1 DEF Sources, Of, NoteIn
        <4> QED
          BY <1>4, <3>2, <4>1, <4>2
      <3> QED
        BY <1>0, <1>3, <3>1, <3>2
    <2>4. \A tp \in pendingTp' \ {0} : tp # x /\ tp \in pendingTp
      <3> SUFFICES ASSUME NEW tp \in pendingTp' \ {0} PROVE tp # x /\ tp \in pendingTp
        OBVIOUS
      <3>1. ~ TakesPending /\ pendingTp # {} /\ tp \in pendingTp
        BY <2>1
      <3>2. RegsTp # 0
        BY <3>1 DEF TakesPending
      <3>3. dump.arch = "x86_64"
        BY <3>2 DEF RegsTp
      <3> QED
        BY <1>0, <3>1, <3>3
    <2>5. dump'.arch = "x86_64" => pendingTp' = {}
      BY <1>0, <1>1, <2>1
    <2>6. \A tp \in pendingTp' \ {0} :
            tp \in new /\ \A t \in 1 .. n + 1 : threads'[t].tp # tp
      BY <1>0, <1>3, <2>2, <2>x, <2>4
    <2>7. \A t \in 1 .. n + 1 : threads'[t].tp # 0 => threads'[t].tp \in new
      BY <1>0, <1>3, <2>2, <2>x, <2>3
    <2>8. \A s, t \in 1 .. n + 1 :
            threads'[s].tp = threads'[t].tp => s = t \/ threads'[t].tp = 0
      BY <1>0, <2>2, <2>x, <2>3
    <2> QED
      BY <1>3, <2>2, <2>5, <2>6, <2>7, <2>8 DEF Apart
  <1>6. CASE FillLast
    <2>1. /\ NoteIn.kind = "tls" /\ dump.arch = "aarch64" /\ threads # <<>>
          /\ threads' = [threads EXCEPT ![n].tp = NoteIn.tp]
          /\ pendingTp' = pendingTp
      BY <1>6 DEF FillLast, Reading, IsTlsNote, LastLacksTp, Last
    <2>2. n \in 1 .. n
      <3>1. n # 0
        <4>1. threads \in Seq(T) /\ threads # <<>>
          BY <1>2, <2>1
        <4> HIDE DEF T
        <4> QED
          BY <4>1
      <3> HIDE DEF n
      <3> QED
        BY <1>2, <3>1
    <2>x. PICK x : x = NoteIn.tp
      OBVIOUS
    <2>3. /\ Len(threads') = n
          /\ \A t \in 1 .. n : t # n => threads'[t] = threads[t]
          /\ threads'[n].tp = x
      <3> DEFINE filled == [threads[n] EXCEPT !.tp = NoteIn.tp]
      <3>1. filled.tp = x
        BY <1>2, <2>2, <2>x
      <3>2. threads' = [threads EXCEPT ![n] = filled]
        BY <2>1
      <3> HIDE DEF filled, T
      <3> QED
        BY <1>2, <2>2, <3>1, <3>2
    <2>4. k \in Sources(dump)
      BY <1>1, <2>1 DEF Sources, Of, NoteIn
    <2>5. x # 0 => x \in new /\ x \notin old
      BY <1>4, <2>4, <2>x
    <2> HIDE DEF n
    <2>6. \A tp \in pendingTp' \ {0} :
            tp \in new /\ \A t \in 1 .. n : threads'[t].tp # tp
      BY <1>0, <1>3, <2>1, <2>3, <2>5
    <2>7. \A t \in 1 .. n : threads'[t].tp # 0 => threads'[t].tp \in new
      BY <1>0, <1>3, <2>3, <2>5
    <2>8. \A s, t \in 1 .. n :
            threads'[s].tp = threads'[t].tp => s = t \/ threads'[t].tp = 0
      BY <1>0, <2>3, <2>5
    <2>9. dump'.arch = "x86_64" => pendingTp' = {}
      BY <1>1, <2>1
    <2> QED
      BY <1>3, <2>3, <2>6, <2>7, <2>8, <2>9 DEF Apart
  <1>7. CASE KeepPending
    <2>1. /\ NoteIn.kind = "tls" /\ dump.arch = "aarch64"
          /\ threads' = threads /\ pendingTp' = {NoteIn.tp}
      BY <1>7 DEF KeepPending, Reading, IsTlsNote
    <2>2. k \in Sources(dump)
      BY <1>1, <2>1 DEF Sources, Of, NoteIn
    <2>3. NoteIn.tp # 0 =>
            NoteIn.tp \in new /\ \A t \in 1 .. n : threads[t].tp # NoteIn.tp
      BY <1>0, <1>4, <2>2
    <2>4. \A tp \in pendingTp' \ {0} : tp \in new /\ \A t \in 1 .. n : threads[t].tp # tp
      BY <2>1, <2>3
    <2>5. dump'.arch = "x86_64" => pendingTp' = {}
      BY <1>1, <2>1
    <2> QED
      BY <1>0, <1>3, <2>1, <2>4, <2>5 DEF Apart
  <1>8. CASE MalformedPrstatus \/ SkipNote
    <2>1. threads' = threads /\ pendingTp' = pendingTp
      BY <1>8 DEF MalformedPrstatus, SkipNote
    <2> QED
      BY <1>0, <1>1, <1>3, <2>1 DEF Apart
  <1> QED
    BY <1>5, <1>6, <1>7, <1>8 DEF Next

OwnInv == ThreadsInv /\ NotesInv /\ (walked => PointersInv /\ Apart)

LEMMA OwnInit == CoreInit => OwnInv
  BY InitThreads, NotesInit DEF OwnInv, CoreInit

LEMMA ReadNotesPointers ==
  ASSUME ThreadsInv, ThreadsInv', ReadNotes
  PROVE  PointersInv' /\ Apart'
  <1>1. /\ k' = 1 /\ threads' = <<>> /\ pendingTp' = {} /\ Len(threads') = 0
    BY DEF ReadNotes, ThreadsInv, Unstarted
  <1>2. \A t \in 1 .. Len(threads') : FALSE
    BY <1>1
  <1>3. ASSUME NEW j, Waiting(j)' PROVE FALSE
    <2>1. j \in DOMAIN dump'.notes /\ j < 1
      BY <1>1, <1>3 DEF Waiting, Of
    <2>2. DOMAIN dump'.notes = 1 .. Len(dump'.notes)
      BY DEF ThreadsInv, IsSequence
    <2> QED
      BY <2>1, <2>2
  <1> QED
    BY <1>1, <1>2, <1>3 DEF PointersInv, Ranked, FromRegs, FromBehind, FromFront, Apart

LEMMA OwnStep == OwnInv /\ [CoreNext]_all => OwnInv'
  <1> SUFFICES ASSUME OwnInv, [CoreNext]_all PROVE OwnInv'
    OBVIOUS
  <1>1. ThreadsInv /\ NotesInv /\ ThreadsInv' /\ NotesInv'
    BY ThreadsStep, NotesStep DEF OwnInv
  <1>2. ASSUME walked' PROVE PointersInv' /\ Apart'
    <2>1. CASE ReadNotes
      BY <1>1, <2>1, ReadNotesPointers
    <2>2. CASE ReadThreads
      <3>1. Next /\ walked
        BY <2>2 DEF ReadThreads
      <3>2. IsStored(stored) /\ dump = [stored.dump EXCEPT !.notes = Seen(WalkAllNotes(Image))]
        BY <1>1, <3>1 DEF NotesInv
      <3>3. LikeWritten(dump)
        BY <3>2, SeenLikeWritten
      <3>4. ThreadList /\ PointersInv /\ Apart
        BY <1>1, <3>1 DEF ThreadsInv, OwnInv
      <3> QED
        BY <3>1, <3>3, <3>4, StepPointers, StepApart
    <2>3. CASE ReadFiles \/ ReadMemory \/ UNCHANGED all
      <3>1. UNCHANGED vars /\ walked' = walked
        BY <2>3 DEF ReadFiles, ReadMemory, all
      <3>2. dump' = dump /\ k' = k /\ threads' = threads /\ pendingTp' = pendingTp
            /\ failed' = failed
        BY <3>1 DEF vars
      <3>3. /\ Read' = Read /\ \A j : Rank(j)' = Rank(j)
            /\ \A j : Waiting(j)' <=> Waiting(j)
        BY <3>2 DEF Read, Prstatus, Of, Rank, Waiting
      <3>4. (Ranked' <=> Ranked) /\ (FromRegs' <=> FromRegs)
        BY <3>2, <3>3 DEF Ranked, FromRegs
      <3>5. (FromBehind' <=> FromBehind) /\ (FromFront' <=> FromFront)
        BY <3>2, <3>3 DEF FromBehind, FromFront
      <3>6. Complete' <=> Complete
        BY <3>2 DEF Complete, Owners, KnownTps
      <3>7. Apart' <=> Apart
        BY <3>2 DEF Apart, Spent, Sources, Of
      <3> QED
        BY <1>2, <3>1, <3>2, <3>4, <3>5, <3>6, <3>7 DEF OwnInv, PointersInv
    <2> QED
      BY <2>1, <2>2, <2>3 DEF CoreNext
  <1> QED
    BY <1>1, <1>2 DEF OwnInv

\* In the end the TLS notes passed are all of them.
LEMMA OwnEnd ==
  ASSUME LikeWritten(dump), ThreadList, PointersInv, Apart, Done, ~ failed
  PROVE  OwnThreadPointer
  <1>0. /\ DOMAIN dump.notes = 1 .. Len(dump.notes) /\ k \in Nat /\ Len(dump.notes) \in Nat
        /\ k > Len(dump.notes)
    BY DEF LikeWritten, IsSequence, ThreadList, Done
  <1>1. \A j \in DOMAIN dump.notes : j < k
    BY <1>0
  <1>2. \A r \in Read : dump.notes[r].whole /\ threads[Rank(r)].id = dump.notes[r].owner
                        /\ r \in DOMAIN dump.notes /\ dump.notes[r].kind = "prstatus"
    BY DEF ThreadList, Read, Prstatus, Of
  <1>3. DOMAIN threads = 1 .. Len(threads)
    BY DEF ThreadList
  <1>4. ASSUME NEW t \in 1 .. Len(threads)
        PROVE  /\ dump.order = "prstatus_first" \/ Complete => threads[t].tp \in {0, threads[t].id}
               /\ Complete => threads[t].tp = threads[t].id
    <2> DEFINE id == threads[t].id
    <2>1. PICK r \in Read : Rank(r) = t
      BY DEF PointersInv, Ranked
    <2>2. id = dump.notes[r].owner /\ id \in Owners
      BY <1>2, <2>1 DEF Owners
    <2>3. Complete => KnownTps(id) = {id}
      BY <2>2 DEF Complete
    <2>4. CASE dump.arch = "x86_64"
      <3>1. PICK p \in Read : Rank(p) = t /\ threads[t].tp = dump.notes[p].tp
        BY <2>4 DEF PointersInv, FromRegs
      <3>2. id = dump.notes[p].owner /\ dump.notes[p].tp \in {0, id}
        BY <1>2, <3>1 DEF LikeWritten
      <3>3. dump.notes[p].tp \in KnownTps(id)
        BY <1>2, <2>4, <3>2 DEF KnownTps
      <3> QED
        BY <2>3, <3>1, <3>2, <3>3
    <2>5. CASE dump.arch = "aarch64" /\ dump.order = "prstatus_first"
      <3>1. /\ PassedTls(dump, k, id) = {} => threads[t].tp = 0
            /\ \A j \in PassedTls(dump, k, id) : threads[t].tp = dump.notes[j].tp
        BY <2>5 DEF PointersInv, FromBehind
      <3>2. \A j \in PassedTls(dump, k, id) : dump.notes[j].tp \in {0, id}
        BY DEF PassedTls, Of, LikeWritten
      <3>3. \A tp \in KnownTps(id) : \E j \in PassedTls(dump, k, id) : dump.notes[j].tp = tp
        BY <1>1, <2>5 DEF KnownTps, PassedTls, Of
      <3>4. Complete => threads[t].tp = id
        BY <2>3, <3>1, <3>3
      <3> QED
        BY <3>1, <3>2, <3>4
    <2>6. CASE dump.arch = "aarch64" /\ dump.order = "tls_first"
      BY <2>6 DEF PointersInv, FromFront
    <2> QED
      BY <2>4, <2>5, <2>6 DEF LikeWritten
  <1> QED
    BY <1>3, <1>4 DEF OwnThreadPointer, Apart

(* No thread gets another thread's pointer, whatever notes are lost behind *)
(* a prstatus, each gets its own when all of them have one, in either      *)
(* order, and no pointer ever goes to two threads: the pass of threads     *)
(* over the notes joins an aarch64 TLS note with one prstatus.             *)
THEOREM ThreadPointersAlwaysOwn == CoreSpec => []ThreadPointersAreOwn
  <1>1. ASSUME OwnInv PROVE ThreadPointersAreOwn
    <2> SUFFICES ASSUME walked, Done, ~ failed PROVE OwnThreadPointer
      BY DEF ThreadPointersAreOwn, OwnThreadPointer
    <2>1. /\ IsStored(stored) /\ dump = [stored.dump EXCEPT !.notes = Seen(WalkAllNotes(Image))]
          /\ ThreadList /\ PointersInv /\ Apart
      BY <1>1 DEF OwnInv, NotesInv, ThreadsInv
    <2>2. LikeWritten(dump)
      BY <2>1, SeenLikeWritten
    <2> QED
      BY <2>1, <2>2, OwnEnd
  <1> QED
    BY OwnInit, OwnStep, <1>1, PTL DEF CoreSpec, all

-----------------------------------------------------------------------------
(* The check command.  A file shows its build-id where HoldsId says, and   *)
(* what elf_build_id makes of it is that.                                  *)

LEMMA ShownId ==
  ASSUME NEW f, HoldsId(f), f.id \in Nat,
         f.idIn \in {"none", "segment", "section", "both", "shadowed"}
  PROVE  /\ FirstId(WalkAllNotes(f.image)) = NoId <=> f.idIn \in {"none", "section"}
         /\ ElfBuildId(f) = IF Shown(f) THEN <<f.id>> ELSE NoId
  <1> DEFINE inSegments == GivenId(f.image, f.image.headers, f.image.written)
             inSections == GivenId(f.image, f.image.sections, f.image.sectionsWritten)
  <1>1. /\ FirstId(WalkAllNotes(f.image)) = inSegments
        /\ BuildIdFromNoteSections(f.image) = inSections
    BY SegmentsId, SectionsId DEF HoldsId
  <1>2. /\ f.idIn \in {"segment", "both"} => inSegments = <<f.id>>
        /\ f.idIn = "shadowed" => inSegments = <<>>
        /\ f.idIn \in {"none", "section"} => inSegments = NoId
        /\ f.idIn = "section" => inSections = <<f.id>>
        /\ f.idIn = "none" => inSections = NoId
    BY DEF HoldsId
  <1>3. <<f.id>> # NoId /\ <<>> # NoId /\ <<f.id>> # <<>>
    <2>1. <<f.id>> \in Seq(Nat) /\ <<>> \in Seq(Nat) /\ <<f.id>> # <<>>
      OBVIOUS
    <2> QED
      BY <2>1, NoteWalkAssumption
  <1> HIDE DEF inSegments, inSections
  <1>4. ElfBuildId(f) =
          LET id == IF inSegments # NoId THEN inSegments ELSE inSections
          IN  IF id = <<>> THEN NoId ELSE id
    BY <1>1 DEF ElfBuildId
  <1> QED
    BY <1>1, <1>2, <1>3, <1>4 DEF Shown

\* The evidence decides: what matches is of the same build, and an own file
\* that does not match could not be compared.
LEMMA MatchesIs ==
  ASSUME IsInput(input), Evidence(input), input.debug # None
  PROVE  /\ Matches => input.debug.own
         /\ ~ Matches /\ input.debug.own =>
              \/ ~ input.debug.sameAbi
              \/ ~ (Shown(input.libc) /\ Shown(input.debug)) /\ ~ LinkMatches
  <1>1. /\ HoldsId(input.libc) /\ input.libc.id \in Nat
        /\ input.libc.idIn \in {"none", "segment", "section", "both", "shadowed"}
        /\ HoldsId(input.debug) /\ input.debug.id \in Nat
        /\ input.debug.idIn \in {"none", "segment", "section", "both", "shadowed"}
        /\ input.debug.own \in BOOLEAN /\ input.debug.sameAbi \in BOOLEAN
    BY CheckAssumption DEF IsInput, IsFile
  <1>2. /\ LibcId = IF Shown(input.libc) THEN <<input.libc.id>> ELSE NoId
        /\ DebugId = IF Shown(input.debug) THEN <<input.debug.id>> ELSE NoId
    BY <1>1, ShownId DEF LibcId, DebugId
  <1>3. <<input.libc.id>> # NoId /\ <<input.debug.id>> # NoId
    <2>1. <<input.libc.id>> \in Seq(Nat) /\ <<input.debug.id>> \in Seq(Nat)
      BY <1>1
    <2> QED
      BY <2>1, NoteWalkAssumption
  <1>4. <<input.libc.id>> = <<input.debug.id>> <=> input.libc.id = input.debug.id
    OBVIOUS
  <1>5. Matches <=>
          /\ input.debug.sameAbi
          /\ IF Shown(input.libc) /\ Shown(input.debug) THEN input.libc.id = input.debug.id
             ELSE LinkMatches
    BY <1>2, <1>3, <1>4 DEF Matches
  <1>6. IF input.debug.own THEN input.libc.id = input.debug.id
        ELSE \/ ~ input.debug.sameAbi
             \/ Shown(input.libc) /\ Shown(input.debug) /\ input.libc.id # input.debug.id
             \/ ~ (Shown(input.libc) /\ Shown(input.debug)) /\ input.debug.crc # input.libc.linkCrc
    BY DEF Evidence
  <1> QED
    BY <1>1, <1>5, <1>6 DEF LinkMatches


-----------------------------------------------------------------------------
(* What is told, as a set: the order of the problems does not matter.      *)

ProblemKinds ==
  {"unsupported_arch", "missing_build_id", "duplicate_symbol", "missing_symbol",
   "missing_relocation", "unknown_glibc_version", "dwarf_layout_fallback"}

AnyProblem == [kind : ProblemKinds, of : Slots \cup {None}]

Listed == ToSet(problems)

LEMMA AppendListed ==
  ASSUME NEW s \in Seq(AnyProblem), NEW p \in AnyProblem
  PROVE  /\ Append(s, p) \in Seq(AnyProblem) /\ ToSet(Append(s, p)) = ToSet(s) \cup {p}
         /\ s \o <<p>> = Append(s, p) /\ s \o <<>> = s
  <1> DEFINE n == Len(s)
             more == Append(s, p)
  <1>1. /\ more \in Seq(AnyProblem) /\ DOMAIN more = 1 .. n + 1 /\ n \in Nat
        /\ DOMAIN s = 1 .. n
        /\ more[n + 1] = p /\ \A j \in 1 .. n : more[j] = s[j]
    OBVIOUS
  <1>2. \A j \in 1 .. n + 1 : j \in 1 .. n \/ j = n + 1
    BY <1>1
  <1>3. n + 1 \in 1 .. n + 1 /\ \A j \in 1 .. n : j \in 1 .. n + 1
    BY <1>1
  <1>4. s \o <<p>> = more /\ s \o <<>> = s
    OBVIOUS
  <1> HIDE DEF more, n
  <1>5. ToSet(more) = ToSet(s) \cup {p}
    BY <1>1, <1>2, <1>3 DEF ToSet
  <1> QED
    BY <1>1, <1>4, <1>5 DEF more

LEMMA ProblemsAre ==
  /\ \A kind \in ProblemKinds \ {"duplicate_symbol", "missing_symbol"} :
       Problem(kind, None) \in AnyProblem
  /\ \A s \in Slots :
       Problem("duplicate_symbol", s) \in AnyProblem /\ Problem("missing_symbol", s) \in AnyProblem
  BY DEF ProblemKinds, Problem, AnyProblem

LEMMA KindsAre ==
  {"unsupported_arch", "missing_build_id", "missing_relocation", "unknown_glibc_version",
   "dwarf_layout_fallback"} = ProblemKinds \ {"duplicate_symbol", "missing_symbol"}
  BY DEF ProblemKinds

\* The problems that Missing and MissingBuildId add.
MissingOf(name) == IF slot[name] = None THEN {Problem("missing_symbol", name)} ELSE {}

NoSegmentId == FirstId(WalkAllNotes(input.libc.image)) = NoId

MissingIdOf == IF NoSegmentId THEN {Problem("missing_build_id", None)} ELSE {}

LEMMA MissingListed ==
  ASSUME NEW s \in Seq(AnyProblem), NEW name \in Slots
  PROVE  /\ s \o Missing(name) \in Seq(AnyProblem)
         /\ ToSet(s \o Missing(name)) = ToSet(s) \cup MissingOf(name)
  <1> DEFINE p == Problem("missing_symbol", name)
  <1>1. p \in AnyProblem
    BY ProblemsAre
  <1>2. Missing(name) = IF slot[name] = None THEN <<p>> ELSE <<>>
    BY DEF Missing
  <1>3. MissingOf(name) = IF slot[name] = None THEN {p} ELSE {}
    BY DEF MissingOf
  <1> HIDE DEF p
  <1>4. /\ Append(s, p) \in Seq(AnyProblem) /\ ToSet(Append(s, p)) = ToSet(s) \cup {p}
        /\ s \o <<p>> = Append(s, p) /\ s \o <<>> = s
    BY <1>1, AppendListed
  <1>5. CASE slot[name] = None
    BY <1>2, <1>3, <1>4, <1>5
  <1>6. CASE slot[name] # None
    BY <1>2, <1>3, <1>4, <1>6
  <1> QED
    BY <1>5, <1>6

LEMMA MissingIdListed ==
  ASSUME NEW s \in Seq(AnyProblem)
  PROVE  /\ s \o MissingBuildId \in Seq(AnyProblem)
         /\ ToSet(s \o MissingBuildId) = ToSet(s) \cup MissingIdOf
  <1> DEFINE p == Problem("missing_build_id", None)
  <1>1. p \in AnyProblem
    BY ProblemsAre, KindsAre
  <1>2. MissingBuildId = IF NoSegmentId THEN <<p>> ELSE <<>>
    BY DEF MissingBuildId, NoSegmentId
  <1>3. MissingIdOf = IF NoSegmentId THEN {p} ELSE {}
    BY DEF MissingIdOf
  <1> HIDE DEF p
  <1> QED
    BY <1>1, <1>2, <1>3, AppendListed

\* Of a step that tells of p when cond holds.
LEMMA ToldListed ==
  ASSUME problems \in Seq(AnyProblem), NEW p \in AnyProblem,
         problems' = problems \/ problems' = Append(problems, p)
  PROVE  /\ problems' \in Seq(AnyProblem)
         /\ problems' = problems => Listed' = Listed
         /\ problems' = Append(problems, p) => Listed' = Listed \cup {p}
  BY AppendListed DEF Listed

\* What each step adds to the problems.
LEMMA Listing ==
  ASSUME problems \in Seq(AnyProblem), stage = "arch" => problems = <<>>,
         AtSymbol => Sym.slot \in Slots, [CheckNext]_checkVars
  PROVE  /\ problems' \in Seq(AnyProblem)
         /\ UnsupportedArch =>
              Listed' = {Problem("unsupported_arch", None)} \cup MissingIdOf
         /\ SecondDefinition =>
              Listed' = IF Differs THEN Listed \cup {Problem("duplicate_symbol", Sym.slot)}
                        ELSE Listed
         /\ SymbolsScanned =>
              Listed' = Listed \cup MissingOf("main_arena") \cup MissingOf("mp_")
         /\ Relocation =>
              Listed' = IF input.libc.tpOff THEN Listed
                        ELSE Listed \cup {Problem("missing_relocation", None)}
         /\ Capabilities =>
              Listed' = IF input.libc.version # "unknown" THEN Listed
                        ELSE Listed \cup {Problem("unknown_glibc_version", None)}
         /\ NoDwarf =>
              Listed' = IF Silent THEN Listed
                        ELSE Listed \cup {Problem("dwarf_layout_fallback", None)}
         /\ Judge => Listed' = Listed \cup MissingIdOf
         /\ \/ UnsupportedArch \/ SecondDefinition \/ SymbolsScanned \/ Relocation
            \/ Capabilities \/ NoDwarf \/ Judge \/ problems' = problems
  <1>1. ASSUME UnsupportedArch
        PROVE  /\ problems' \in Seq(AnyProblem)
               /\ Listed' = {Problem("unsupported_arch", None)} \cup MissingIdOf
    <2> DEFINE p == Problem("unsupported_arch", None)
               s == <<p>>
    <2>1. problems' = s \o MissingBuildId
      BY <1>1 DEF UnsupportedArch
    <2>2. p \in AnyProblem
      BY ProblemsAre, KindsAre
    <2> HIDE DEF p
    <2>3. s \in Seq(AnyProblem) /\ ToSet(s) = {p}
      BY <2>2 DEF ToSet
    <2> HIDE DEF s
    <2> QED
      BY <2>1, <2>3, MissingIdListed DEF p, Listed
  <1>2. ASSUME SecondDefinition
        PROVE  /\ problems' \in Seq(AnyProblem)
               /\ Listed' = IF Differs THEN Listed \cup {Problem("duplicate_symbol", Sym.slot)}
                            ELSE Listed
    <2>1. Problem("duplicate_symbol", Sym.slot) \in AnyProblem
      BY <1>2, ProblemsAre DEF SecondDefinition
    <2>2. problems' = IF Differs THEN Append(problems, Problem("duplicate_symbol", Sym.slot))
                      ELSE problems
      BY <1>2 DEF SecondDefinition
    <2> QED
      BY <2>1, <2>2, ToldListed
  <1>3. ASSUME SymbolsScanned
        PROVE  /\ problems' \in Seq(AnyProblem)
               /\ Listed' = Listed \cup MissingOf("main_arena") \cup MissingOf("mp_")
    <2> DEFINE r == problems \o Missing("main_arena")
    <2>1. problems' = r \o Missing("mp_")
      BY <1>3 DEF SymbolsScanned
    <2>2. "main_arena" \in Slots /\ "mp_" \in Slots
      BY DEF Slots
    <2>3. r \in Seq(AnyProblem) /\ ToSet(r) = Listed \cup MissingOf("main_arena")
      BY <2>2, MissingListed DEF Listed
    <2> HIDE DEF r
    <2> QED
      BY <2>1, <2>2, <2>3, MissingListed DEF Listed
  <1>4. ASSUME Relocation
        PROVE  /\ problems' \in Seq(AnyProblem)
               /\ Listed' = IF input.libc.tpOff THEN Listed
                            ELSE Listed \cup {Problem("missing_relocation", None)}
    <2>1. Problem("missing_relocation", None) \in AnyProblem
      BY ProblemsAre, KindsAre
    <2>2. problems' = IF input.libc.tpOff THEN problems
                      ELSE Append(problems, Problem("missing_relocation", None))
      BY <1>4 DEF Relocation
    <2> QED
      BY <2>1, <2>2, ToldListed
  <1>5. ASSUME Capabilities
        PROVE  /\ problems' \in Seq(AnyProblem)
               /\ Listed' = IF input.libc.version # "unknown" THEN Listed
                            ELSE Listed \cup {Problem("unknown_glibc_version", None)}
    <2>1. Problem("unknown_glibc_version", None) \in AnyProblem
      BY ProblemsAre, KindsAre
    <2>2. problems' = IF input.libc.version # "unknown" THEN problems
                      ELSE Append(problems, Problem("unknown_glibc_version", None))
      BY <1>5 DEF Capabilities
    <2> QED
      BY <2>1, <2>2, ToldListed
  <1>6. ASSUME NoDwarf
        PROVE  /\ problems' \in Seq(AnyProblem)
               /\ Listed' = IF Silent THEN Listed
                            ELSE Listed \cup {Problem("dwarf_layout_fallback", None)}
    <2>1. Problem("dwarf_layout_fallback", None) \in AnyProblem
      BY ProblemsAre, KindsAre
    <2>2. problems' = IF Silent THEN problems
                      ELSE Append(problems, Problem("dwarf_layout_fallback", None))
      BY <1>6 DEF NoDwarf
    <2> QED
      BY <2>1, <2>2, ToldListed
  <1>7. ASSUME Judge
        PROVE  /\ problems' \in Seq(AnyProblem)
               /\ Listed' = Listed \cup MissingIdOf
    <2>1. problems' = problems \o MissingBuildId
      BY <1>7 DEF Judge
    <2> QED
      BY <2>1, MissingIdListed DEF Listed
  <1>8. \/ UnsupportedArch \/ SecondDefinition \/ SymbolsScanned \/ Relocation
        \/ Capabilities \/ NoDwarf \/ Judge \/ problems' = problems
    BY DEF CheckNext, SupportedArch, LibcUnusable, DebugUnusable, DebugRefused, DebugVerified,
         FillSymbol, SkipUndefined, DebugTable, ApplyDwarf, Write, WriteFails, NewlineFails,
         checkVars
  <1>9. problems' \in Seq(AnyProblem)
    BY <1>1, <1>2, <1>3, <1>4, <1>5, <1>6, <1>7, <1>8
  <1> QED
    BY <1>1, <1>2, <1>3, <1>4, <1>5, <1>6, <1>7, <1>8, <1>9

-----------------------------------------------------------------------------
(* The scan of the symbol tables, as one over both of them.                *)

\* The symbols passed, and the definitions among them.
Upto == IF table = "libc" THEN entry - 1 ELSE Len(input.libc.syms) + entry - 1

Found(s) == {j \in Definitions(s) : j <= Upto}

InTables ==
  /\ table \in {"libc", "debug"} /\ (table = "debug" => input.debug # None)
  /\ entry \in 1 .. Len(Table) + 1

LEMMA TablesType ==
  ASSUME IsInput(input), InTables
  PROVE  /\ Len(input.libc.syms) \in Nat /\ Len(Table) \in Nat /\ Len(AllSymbols) \in Nat
         /\ DOMAIN AllSymbols = 1 .. Len(AllSymbols)
         /\ \A j \in DOMAIN AllSymbols : IsSymbol(AllSymbols[j])
         /\ Upto \in 0 .. Len(AllSymbols)
         /\ entry = Len(Table) + 1 /\ (table = "debug" \/ input.debug = None)
              => Upto = Len(AllSymbols)
         /\ entry <= Len(Table) =>
              Upto + 1 \in DOMAIN AllSymbols /\ AllSymbols[Upto + 1] = Sym /\ IsSymbol(Sym)
  <1> DEFINE f == input.libc.syms
             g == IF input.debug = None THEN <<>> ELSE input.debug.syms
             m == Len(f)
             n == Len(g)
             S == ToSet(f) \cup ToSet(g)
  <1>1. /\ f \in Seq(S) /\ g \in Seq(S)
        /\ \A j \in DOMAIN f : IsSymbol(f[j])
        /\ \A j \in DOMAIN g : IsSymbol(g[j])
        /\ AllSymbols = f \o g
    <2>1. f \in Seq(ToSet(f)) /\ \A j \in DOMAIN f : IsSymbol(f[j])
      BY DEF IsInput, IsFile
    <2>2. g \in Seq(ToSet(g)) /\ \A j \in DOMAIN g : IsSymbol(g[j])
      BY DEF IsInput, IsFile, ToSet
    <2>3. \A s, U, V : s \in Seq(U) => s \in Seq(U \cup V) /\ s \in Seq(V \cup U)
      OBVIOUS
    <2>4. AllSymbols = f \o g
      BY DEF AllSymbols
    <2> QED
      BY <2>1, <2>2, <2>3, <2>4
  <1>2. Table = IF table = "libc" THEN f ELSE g
    BY DEF InTables, Table
  <1>3. input.debug = None => n = 0
    OBVIOUS
  <1> HIDE DEF f, g, S
  <1>4. /\ m \in Nat /\ n \in Nat /\ DOMAIN f = 1 .. m /\ DOMAIN g = 1 .. n
        /\ Len(f \o g) = m + n /\ DOMAIN (f \o g) = 1 .. m + n
        /\ \A j \in 1 .. m + n : (f \o g)[j] = IF j <= m THEN f[j] ELSE g[j - m]
    BY <1>1
  <1> HIDE DEF m, n
  <1>5. ASSUME NEW j \in 1 .. m + n PROVE IsSymbol(AllSymbols[j])
    <2>1. CASE j <= m
      BY <1>1, <1>4, <2>1
    <2>2. CASE ~ j <= m
      <3>1. j - m \in 1 .. n
        BY <1>4, <2>2
      <3> QED
        BY <1>1, <1>4, <2>2, <3>1
    <2> QED
      BY <2>1, <2>2
  <1>6. CASE table = "libc"
    <2>1. Table = f /\ Len(Table) = m /\ Upto = entry - 1 /\ entry \in 1 .. m + 1
      BY <1>2, <1>6 DEF InTables, Upto, m
    <2>2. entry <= m => entry \in 1 .. m /\ entry \in 1 .. m + n /\ (f \o g)[entry] = f[entry]
      BY <1>4, <2>1
    <2>3. Upto + 1 = entry
      BY <1>4, <2>1
    <2>4. entry <= m => Sym = f[entry] /\ AllSymbols[entry] = Sym
      BY <1>1, <2>1, <2>2 DEF Sym
    <2>5. Upto \in 0 .. m + n /\ (entry = m + 1 /\ n = 0 => Upto = m + n)
      BY <1>4, <2>1
    <2>6. m = Len(input.libc.syms)
      BY DEF m, f
    <2>7. table # "debug"
      BY <1>6
    <2>8. Len(AllSymbols) = m + n /\ DOMAIN AllSymbols = 1 .. m + n
      BY <1>1, <1>4
    <2>9. entry <= m => Upto + 1 \in DOMAIN AllSymbols /\ AllSymbols[Upto + 1] = Sym
                        /\ IsSymbol(Sym)
      <3> SUFFICES ASSUME entry <= m
                   PROVE  Upto + 1 \in DOMAIN AllSymbols /\ AllSymbols[Upto + 1] = Sym
                          /\ IsSymbol(Sym)
        OBVIOUS
      <3> QED
        BY <1>5, <2>2, <2>3, <2>4, <2>8
    <2>10. entry = m + 1 /\ input.debug = None => Upto = m + n
      BY <1>3, <2>5
    <2>11. m \in Nat /\ m + n \in Nat
      BY <1>4
    <2> QED
      BY <1>5, <2>1, <2>5, <2>6, <2>7, <2>8, <2>9, <2>10, <2>11
  <1>7. CASE table = "debug"
    <2>1. Table = g /\ Len(Table) = n /\ Upto = m + entry - 1 /\ entry \in 1 .. n + 1
      BY <1>2, <1>7 DEF InTables, Upto, m, n, f
    <2>2. entry <= n => entry \in 1 .. n /\ m + entry \in 1 .. m + n
                        /\ (f \o g)[m + entry] = g[entry]
      <3>1. entry <= n => entry \in 1 .. n /\ m + entry \in 1 .. m + n /\ ~ m + entry <= m
                          /\ (m + entry) - m = entry
        BY <1>4, <2>1
      <3> QED
        BY <1>4, <3>1
    <2>3. Upto + 1 = m + entry
      BY <1>4, <2>1
    <2>4. entry <= n => Sym = g[entry] /\ AllSymbols[m + entry] = Sym
      BY <1>1, <2>1, <2>2 DEF Sym
    <2>5. Upto \in 0 .. m + n /\ (entry = n + 1 => Upto = m + n)
      BY <1>4, <2>1
    <2>6. m = Len(input.libc.syms)
      BY DEF m, f
    <2>7. entry <= n => Upto + 1 \in DOMAIN AllSymbols /\ AllSymbols[Upto + 1] = Sym
                        /\ IsSymbol(Sym)
      <3> SUFFICES ASSUME entry <= n
                   PROVE  Upto + 1 \in DOMAIN AllSymbols /\ AllSymbols[Upto + 1] = Sym
                          /\ IsSymbol(Sym)
        OBVIOUS
      <3> QED
        BY <1>1, <1>4, <2>2, <2>3, <2>4
    <2>8. Len(AllSymbols) = m + n /\ DOMAIN AllSymbols = 1 .. m + n
      BY <1>1, <1>4
    <2> QED
      BY <1>4, <1>5, <2>1, <2>5, <2>6, <2>7, <2>8
  <1> QED
    BY <1>6, <1>7 DEF InTables

\* What the scan makes of the definitions passed.
SlotIs(s) ==
  /\ slot[s] = IF Found(s) = {} THEN None ELSE AllSymbols[Min(Found(s))].value
  /\ Problem("duplicate_symbol", s) \in Listed
       <=> \E j, m \in Found(s) : AllSymbols[j].value # AllSymbols[m].value

SlotsAre == DOMAIN slot = Slots /\ \A s \in Slots : SlotIs(s)

LEMMA FoundType ==
  ASSUME IsInput(input), InTables, NEW s \in Slots
  PROVE  /\ Found(s) \subseteq DOMAIN AllSymbols /\ Found(s) \subseteq Nat
         /\ \A j \in Found(s) : j <= Upto /\ AllSymbols[j].value \in Nat
         /\ Found(s) # {} =>
              /\ Min(Found(s)) \in Found(s)
              /\ \A j \in Found(s) : Min(Found(s)) <= j
  <1>1. Found(s) \subseteq DOMAIN AllSymbols /\ \A j \in Found(s) : j <= Upto
    BY DEF Found, Definitions
  <1>2. \A j \in DOMAIN AllSymbols : AllSymbols[j].value \in Nat /\ j \in Nat
    <2>1. /\ DOMAIN AllSymbols = 1 .. Len(AllSymbols) /\ Len(AllSymbols) \in Nat
          /\ \A j \in DOMAIN AllSymbols : IsSymbol(AllSymbols[j])
      BY TablesType
    <2>2. Values \subseteq Nat
      BY CheckAssumption
    <2>3. \A j \in DOMAIN AllSymbols : AllSymbols[j].value \in Values
      BY <2>1 DEF IsSymbol
    <2>4. \A j \in DOMAIN AllSymbols : j \in Nat
      BY <2>1
    <2> QED
      BY <2>2, <2>3, <2>4
  <1>3. Found(s) \subseteq Nat
    BY <1>1, <1>2
  <1> QED
    BY <1>1, <1>2, <1>3, MinIs

\* A slot is empty exactly while nothing defines it.
LEMMA EmptySlot ==
  ASSUME IsInput(input), InTables, NEW s \in Slots, SlotIs(s)
  PROVE  slot[s] = None <=> Found(s) = {}
  <1>1. Found(s) # {} => AllSymbols[Min(Found(s))].value \in Nat
    BY FoundType
  <1> QED
    BY <1>1, CheckAssumption DEF SlotIs

LEMMA FoundMore ==
  ASSUME IsInput(input), InTables, entry <= Len(Table), input' = input, Upto' = Upto + 1,
         NEW s \in Slots
  PROVE  Found(s)' = IF Sym.defined /\ Sym.slot = s THEN Found(s) \cup {Upto + 1} ELSE Found(s)
  <1> DEFINE p == Upto + 1
  <1>1. /\ p \in DOMAIN AllSymbols /\ AllSymbols[p] = Sym /\ Upto \in Nat
        /\ \A j \in DOMAIN AllSymbols : j \in Nat
    BY TablesType
  <1>2. AllSymbols' = AllSymbols /\ Definitions(s)' = Definitions(s)
    BY DEF AllSymbols, Definitions
  <1>3. Found(s)' = {j \in Definitions(s) : j <= p}
    BY <1>2 DEF Found
  <1>4. \A j \in Definitions(s) : j <= p <=> j <= Upto \/ j = p
    BY <1>1 DEF Definitions
  <1>5. p \in Definitions(s) <=> Sym.defined /\ Sym.slot = s
    BY <1>1 DEF Definitions
  <1> HIDE DEF p
  <1>6. Found(s)' = IF p \in Definitions(s) THEN Found(s) \cup {p} ELSE Found(s)
    BY <1>3, <1>4 DEF Found
  <1> QED
    BY <1>5, <1>6 DEF p

LEMMA StepSymbol ==
  ASSUME IsInput(input), InTables, SlotsAre, problems \in Seq(AnyProblem),
         FillSymbol \/ SecondDefinition \/ SkipUndefined
  PROVE  SlotsAre'
  <1>r. PICK c, q : c = Sym.slot /\ q = Upto + 1
    OBVIOUS
  <1>0. /\ AtSymbol /\ entry <= Len(Table) /\ input' = input /\ table' = table
        /\ entry' = entry + 1
    BY DEF FillSymbol, SecondDefinition, SkipUndefined, AtSymbol
  <1>1. /\ Upto \in Nat /\ q \in DOMAIN AllSymbols /\ AllSymbols[q] = Sym /\ IsSymbol(Sym)
        /\ Len(input.libc.syms) \in Nat /\ entry \in Nat /\ q \in Nat
    <2>1. Len(Table) \in Nat /\ entry \in Nat
      BY TablesType DEF InTables
    <2> QED
      BY <1>0, <1>r, <2>1, TablesType
  <1>2. Upto' = Upto + 1
    BY <1>0, <1>1 DEF Upto
  <1>3. c \in Slots /\ Sym.value \in Nat /\ AllSymbols' = AllSymbols
    <2>1. Values \subseteq Nat
      BY CheckAssumption
    <2> QED
      BY <1>0, <1>1, <1>r, <2>1 DEF IsSymbol, AllSymbols
  <1>4. \A s \in Slots : Found(s)' = IF Sym.defined /\ c = s THEN Found(s) \cup {q} ELSE Found(s)
    BY <1>0, <1>2, <1>r, FoundMore
  <1>5. \A s \in Slots : slot[s] = None <=> Found(s) = {}
    BY EmptySlot DEF SlotsAre
  <1>6. DOMAIN slot = Slots /\ \A s \in Slots : SlotIs(s)
    BY DEF SlotsAre
  <1>7. \A s \in Slots : /\ Found(s) \subseteq Nat /\ \A j \in Found(s) : j < q
                         /\ Found(s) # {} => Min(Found(s)) \in Found(s)
                                             /\ \A j \in Found(s) : Min(Found(s)) <= j
    <2>1. \A n \in Nat : n <= Upto => n < q
      BY <1>1, <1>r
    <2> QED
      BY <2>1, FoundType
  <1>8. CASE SkipUndefined
    <2>1. slot' = slot /\ problems' = problems /\ ~ Sym.defined
      BY <1>8 DEF SkipUndefined, Undefined
    <2>2. Listed' = Listed
      BY <2>1 DEF Listed
    <2>3. \A s \in Slots : Found(s)' = Found(s)
      BY <1>4, <2>1
    <2> QED
      BY <1>3, <1>6, <2>1, <2>2, <2>3 DEF SlotsAre, SlotIs
  <1>9. CASE FillSymbol
    <2>1. /\ problems' = problems /\ Sym.defined /\ slot[c] = None
          /\ slot' = [slot EXCEPT ![c] = Sym.value]
      BY <1>9, <1>r DEF FillSymbol, Undefined
    <2>2. Listed' = Listed /\ DOMAIN slot' = Slots
      BY <1>6, <2>1 DEF Listed
    <2>3. Found(c) = {} /\ Found(c)' = {q}
      BY <1>3, <1>4, <1>5, <2>1
    <2>4. Min({q}) = q
      <3>1. {q} \subseteq Nat /\ {q} # {}
        BY <1>1
      <3>2. Min({q}) \in {q}
        BY <3>1, MinIs
      <3> QED
        BY <3>2
    <2>5. SlotIs(c)'
      <3>1. slot'[c] = AllSymbols[q].value
        BY <1>1, <1>3, <1>6, <2>1
      <3>2. Problem("duplicate_symbol", c) \notin Listed'
        BY <1>3, <1>6, <2>2, <2>3 DEF SlotIs
      <3> QED
        BY <1>3, <2>3, <2>4, <3>1, <3>2 DEF SlotIs
    <2>6. ASSUME NEW s \in Slots, s # c PROVE SlotIs(s)'
      <3>1. Found(s)' = Found(s) /\ slot'[s] = slot[s]
        BY <1>4, <1>6, <2>1, <2>6
      <3> QED
        BY <1>3, <1>6, <2>2, <3>1 DEF SlotIs
    <2> QED
      BY <2>2, <2>5, <2>6 DEF SlotsAre
  <1>10. CASE SecondDefinition
    <2>1. /\ Sym.defined /\ slot[c] # None /\ slot' = slot /\ AtSymbol
          /\ problems' = IF Differs THEN Append(problems, Problem("duplicate_symbol", c))
                         ELSE problems
      BY <1>10, <1>r DEF SecondDefinition, Undefined
    <2>2. Listed' = IF Differs THEN Listed \cup {Problem("duplicate_symbol", c)} ELSE Listed
      <3>1. Problem("duplicate_symbol", c) \in AnyProblem
        BY <1>3, ProblemsAre
      <3> QED
        BY <2>1, <3>1, ToldListed
    <2>3. Found(c) # {} /\ Found(c)' = Found(c) \cup {q}
      BY <1>3, <1>4, <1>5, <2>1
    <2> DEFINE first == Min(Found(c))
    <2>4. first \in Found(c) /\ \A j \in Found(c) : first <= j
      BY <1>3, <1>7, <2>3
    <2>5. Min(Found(c) \cup {q}) = first
      <3> DEFINE both == Found(c) \cup {q}
      <3>1. both \subseteq Nat /\ both # {}
        BY <1>1, <1>3, <1>7
      <3> HIDE DEF both
      <3>2. Min(both) \in both /\ \A y \in both : Min(both) <= y
        BY <3>1, MinIs
      <3>3. Min(both) <= first /\ first < q /\ first \in Nat /\ Min(both) \in Nat
        BY <1>3, <1>7, <2>4, <3>1, <3>2 DEF both
      <3>4. first <= Min(both)
        BY <2>4, <3>2, <3>3 DEF both
      <3> HIDE DEF first
      <3>5. Min(both) = first
        BY <3>3, <3>4
      <3> QED
        BY <3>5 DEF both
    <2>6. slot[c] = AllSymbols[first].value
      BY <1>3, <1>6, <2>3 DEF SlotIs
    <2>7. Differs <=> AllSymbols[q].value # AllSymbols[first].value
      BY <1>1, <1>r, <2>6 DEF Differs
    <2> HIDE DEF first
    <2>8. (\E j, m \in Found(c) \cup {q} : AllSymbols[j].value # AllSymbols[m].value)
            <=> \/ Differs
                \/ \E j, m \in Found(c) : AllSymbols[j].value # AllSymbols[m].value
      BY <2>4, <2>7
    <2>9. SlotIs(c)'
      <3>1. Problem("duplicate_symbol", c) \in Listed'
              <=> \E j, m \in Found(c) \cup {q} : AllSymbols[j].value # AllSymbols[m].value
        <4>1. Problem("duplicate_symbol", c) \in Listed
                <=> \E j, m \in Found(c) : AllSymbols[j].value # AllSymbols[m].value
          BY <1>3, <1>6 DEF SlotIs
        <4> QED
          BY <2>2, <2>8, <4>1
      <3>2. slot'[c] = IF Found(c)' = {} THEN None ELSE AllSymbols'[Min(Found(c)')].value
        BY <1>3, <2>1, <2>3, <2>5, <2>6
      <3> QED
        BY <1>3, <2>3, <3>1, <3>2 DEF SlotIs
    <2>10. ASSUME NEW s \in Slots, s # c PROVE SlotIs(s)'
      <3>1. Found(s)' = Found(s) /\ slot'[s] = slot[s]
        BY <1>4, <2>1, <2>10
      <3>2. Problem("duplicate_symbol", s) \in Listed' <=> Problem("duplicate_symbol", s) \in Listed
        BY <2>2, <2>10 DEF Problem
      <3> QED
        BY <1>3, <1>6, <3>1, <3>2 DEF SlotIs
    <2> QED
      BY <1>6, <2>1, <2>9, <2>10 DEF SlotsAre
  <1> QED
    BY <1>8, <1>9, <1>10


-----------------------------------------------------------------------------
(* The command around the scan: what is known in each of its stages.       *)

Stages ==
  {"arch", "verify", "symbols", "relocation", "capabilities", "layout", "identity",
   "write", "done"}

Judged == stage = "write" \/ Delivered

AllRead == Scanned \/ (input.libc.arch /\ Judged)

StagesInv ==
  /\ IsInput(input) /\ Evidence(input)
  /\ stage \in Stages
  /\ stage \notin {"arch", "write", "done"} => input.libc.arch
  /\ stage # "done" => stdout = "empty" /\ code = None
  /\ problems \in Seq(AnyProblem) /\ (stage = "arch" => problems = <<>>)
  /\ InTables
  /\ stage \in {"arch", "verify"} => table = "libc" /\ entry = 1
  /\ AllRead => entry = Len(Table) + 1 /\ (table = "debug" \/ input.debug = None)
  /\ SlotsAre

LEMMA StagesInit == CheckInit => StagesInv
  <1> SUFFICES ASSUME CheckInit PROVE StagesInv
    OBVIOUS
  <1>1. /\ IsInput(input) /\ Evidence(input) /\ stage = "arch" /\ stdout = "empty" /\ code = None
        /\ problems = <<>> /\ table = "libc" /\ entry = 1 /\ slot = [s \in Slots |-> None]
    BY CheckAssumption DEF CheckInit
  <1>2. Len(input.libc.syms) \in Nat
    BY <1>1 DEF IsInput, IsFile
  <1>3. InTables
    BY <1>1, <1>2 DEF InTables, Table
  <1>4. Upto = 0
    BY <1>1 DEF Upto
  <1>5. \A s \in Slots : Found(s) = {}
    <2>1. DOMAIN AllSymbols = 1 .. Len(AllSymbols) /\ Len(AllSymbols) \in Nat
      BY <1>1, <1>3, TablesType
    <2>2. \A j \in DOMAIN AllSymbols : ~ j <= 0
      BY <2>1
    <2> QED
      BY <1>4, <2>2 DEF Found, Definitions
  <1>6. Listed = {} /\ problems \in Seq(AnyProblem)
    BY <1>1 DEF Listed, ToSet
  <1>7. SlotsAre
    BY <1>1, <1>5, <1>6 DEF SlotsAre, SlotIs
  <1> QED
    BY <1>1, <1>3, <1>6, <1>7 DEF StagesInv, Stages, AllRead, Scanned, Judged, Delivered

\* A step other than one over a symbol leaves what the scan has found.
LEMMA KeepSlots ==
  ASSUME SlotsAre, input' = input, slot' = slot, Upto' = Upto,
         \A s \in Slots : Problem("duplicate_symbol", s) \in Listed'
                            <=> Problem("duplicate_symbol", s) \in Listed
  PROVE  SlotsAre'
  <1>1. AllSymbols' = AllSymbols /\ \A s : Found(s)' = Found(s)
    BY DEF AllSymbols, Found, Definitions
  <1> QED
    BY <1>1 DEF SlotsAre, SlotIs

LEMMA SymOfSlots ==
  ASSUME StagesInv
  PROVE  AtSymbol => Sym.slot \in Slots
  BY TablesType DEF StagesInv, AtSymbol, IsSymbol

LEMMA StagesStep == StagesInv /\ [CheckNext]_checkVars => StagesInv'
  <1> SUFFICES ASSUME StagesInv, [CheckNext]_checkVars PROVE StagesInv'
    OBVIOUS
  <1>0. /\ IsInput(input) /\ Evidence(input) /\ InTables /\ SlotsAre
        /\ problems \in Seq(AnyProblem) /\ problems' \in Seq(AnyProblem)
        /\ input' = input
    <2>1. input' = input
      BY DEF CheckNext, UnsupportedArch, SupportedArch, LibcUnusable, DebugUnusable,
           DebugRefused, DebugVerified, FillSymbol, SecondDefinition, SkipUndefined, DebugTable,
           SymbolsScanned, Relocation, Capabilities, ApplyDwarf, NoDwarf, Judge, Write,
           WriteFails, NewlineFails, checkVars
    <2> QED
      BY <2>1, SymOfSlots, Listing DEF StagesInv
  <1>1. IsInput(input)' /\ Evidence(input)'
    BY <1>0
  <1>2. \A s \in Slots : \A kind \in ProblemKinds \ {"duplicate_symbol"} : \A of :
          Problem("duplicate_symbol", s) # Problem(kind, of)
    BY DEF Problem
  <1>3. CASE FillSymbol \/ SecondDefinition \/ SkipUndefined
    <2>1. SlotsAre'
      BY <1>0, <1>3, StepSymbol
    <2>2. /\ stage = "symbols" /\ stage' = stage /\ table' = table /\ entry' = entry + 1
          /\ entry <= Len(Table) /\ UNCHANGED <<stdout, code>>
      BY <1>3 DEF FillSymbol, SecondDefinition, SkipUndefined, AtSymbol, outcome
    <2>3. InTables'
      <3>1. Table' = Table /\ Len(Table) \in Nat
        BY <1>0, <2>2, TablesType DEF Table
      <3> QED
        BY <1>0, <2>2, <3>1 DEF InTables
    <2>4. ~ AllRead'
      BY <2>2 DEF StagesInv, AllRead, Scanned, Judged, Delivered
    <2> QED
      BY <1>0, <2>1, <2>2, <2>3, <2>4 DEF StagesInv
  <1>4. CASE DebugTable
    <2>1. /\ stage = "symbols" /\ stage' = stage /\ table = "libc" /\ table' = "debug"
          /\ input.debug # None /\ entry > Len(Table) /\ entry' = 1
          /\ problems' = problems /\ UNCHANGED <<slot, stdout, code>>
      BY <1>4 DEF DebugTable, outcome
    <2>2. Table' = input.debug.syms /\ Len(input.debug.syms) \in Nat
      BY <1>0, <2>1 DEF Table, IsInput, IsFile
    <2>3. InTables'
      BY <1>0, <2>1, <2>2 DEF InTables
    <2>4. Upto' = Upto
      <3>1. Len(Table) = Len(input.libc.syms) /\ Len(Table) \in Nat /\ entry = Len(Table) + 1
        BY <1>0, <2>1, TablesType DEF Table, InTables
      <3> QED
        BY <1>0, <2>1, <3>1 DEF Upto
    <2>5. SlotsAre'
      BY <1>0, <2>1, <2>4, KeepSlots DEF Listed
    <2>6. ~ AllRead'
      BY <2>1 DEF StagesInv, AllRead, Scanned, Judged, Delivered
    <2> QED
      BY <1>0, <2>1, <2>3, <2>5, <2>6 DEF StagesInv
  <1>5. CASE ~ (FillSymbol \/ SecondDefinition \/ SkipUndefined \/ DebugTable)
    <2>1. UNCHANGED <<table, entry, slot>>
      BY <1>5 DEF CheckNext, UnsupportedArch, SupportedArch, LibcUnusable, DebugUnusable,
           DebugRefused, DebugVerified, SymbolsScanned, Relocation, Capabilities, ApplyDwarf,
           NoDwarf, Judge, Write, WriteFails, NewlineFails, checkVars, scan
    <2>2. Table' = Table /\ InTables' /\ Upto' = Upto
      BY <1>0, <2>1 DEF Table, InTables, Upto
    <2>3. \A s \in Slots : Problem("duplicate_symbol", s) \in Listed'
                             <=> Problem("duplicate_symbol", s) \in Listed
      <3>1. \A s \in Slots : /\ Problem("duplicate_symbol", s) \notin MissingIdOf
                             /\ Problem("duplicate_symbol", s) \notin MissingOf("main_arena")
                             /\ Problem("duplicate_symbol", s) \notin MissingOf("mp_")
        BY DEF Problem, MissingIdOf, MissingOf
      <3>2. \A s \in Slots : \A kind \in {"unsupported_arch", "missing_relocation",
                                          "unknown_glibc_version", "dwarf_layout_fallback"} :
              Problem("duplicate_symbol", s) # Problem(kind, None)
        BY DEF Problem
      <3>3. UnsupportedArch => Listed = {}
        BY DEF UnsupportedArch, StagesInv, Listed, ToSet
      <3>4. problems' = problems => Listed' = Listed
        BY DEF Listed
      <3> QED
        BY <1>5, <3>1, <3>2, <3>3, <3>4, SymOfSlots, Listing DEF StagesInv
    <2>4. SlotsAre'
      BY <1>0, <2>1, <2>2, <2>3, KeepSlots
    <2>5. /\ stage' \in Stages
          /\ stage' \notin {"arch", "write", "done"} => input.libc.arch
          /\ stage' # "done" => stdout' = "empty" /\ code' = None
          /\ stage' = "arch" => problems' = <<>>
          /\ stage' \in {"arch", "verify"} => table' = "libc" /\ entry' = 1
      BY <1>5, <2>1 DEF StagesInv, Stages, CheckNext, UnsupportedArch, SupportedArch,
           LibcUnusable, DebugUnusable, DebugRefused, DebugVerified, SymbolsScanned, Relocation,
           Capabilities, ApplyDwarf, NoDwarf, Judge, Write, WriteFails, NewlineFails, checkVars,
           outcome
    <2>6. AllRead' => entry' = Len(Table') + 1 /\ (table' = "debug" \/ input'.debug = None)
      <3>1. AllRead' => AllRead \/ SymbolsScanned
        BY <1>0, <1>5 DEF StagesInv, AllRead, Scanned, Judged, Delivered, CheckNext,
             UnsupportedArch, SupportedArch, LibcUnusable, DebugUnusable, DebugRefused,
             DebugVerified, SymbolsScanned, Relocation, Capabilities, ApplyDwarf, NoDwarf, Judge,
             Write, WriteFails, NewlineFails, checkVars, outcome
      <3>2. SymbolsScanned => entry = Len(Table) + 1 /\ (table = "debug" \/ input.debug = None)
        <4>1. Len(Table) \in Nat
          BY <1>0, TablesType
        <4> QED
          BY <1>0, <4>1 DEF SymbolsScanned, InTables
      <3> QED
        BY <1>0, <2>1, <2>2, <3>1, <3>2 DEF StagesInv
    <2> QED
      BY <1>0, <2>2, <2>4, <2>5, <2>6 DEF StagesInv
  <1> QED
    BY <1>3, <1>4, <1>5

\* What each of the steps does to the problems, from the stage it is taken in.
LEMMA StepLists ==
  ASSUME StagesInv, [CheckNext]_checkVars
  PROVE  /\ UnsupportedArch => Listed' = {Problem("unsupported_arch", None)} \cup MissingIdOf
         /\ SymbolsScanned =>
              Listed' = Listed \cup MissingOf("main_arena") \cup MissingOf("mp_")
         /\ ~ input.libc.tpOff /\ Relocation =>
              Problem("missing_relocation", None) \in Listed'
         /\ input.libc.version = "unknown" /\ Capabilities =>
              Problem("unknown_glibc_version", None) \in Listed'
         /\ ~ Silent /\ NoDwarf => Problem("dwarf_layout_fallback", None) \in Listed'
         /\ Judge => Listed' = Listed \cup MissingIdOf
         /\ stage = "arch" \/ Listed \subseteq Listed'
         /\ ~ UnsupportedArch /\ ~ SymbolsScanned =>
              \A p \in Listed' : p \in Listed \/ ~ IsFatal(p)
         /\ UnsupportedArch \/ Judge \/ SymbolsScanned \/ stage' \notin {"write"} \/ Listed' = Listed
  <1>0. /\ problems \in Seq(AnyProblem) /\ (stage = "arch" => problems = <<>>)
        /\ (AtSymbol => Sym.slot \in Slots)
    BY SymOfSlots DEF StagesInv
  <1>1. /\ \A kind \in {"missing_build_id", "duplicate_symbol", "missing_relocation",
                        "unknown_glibc_version", "dwarf_layout_fallback"} :
             \A of : ~ IsFatal(Problem(kind, of))
        /\ \A p \in MissingIdOf : ~ IsFatal(p)
    BY DEF IsFatal, Fatal, Problem, MissingIdOf
  <1>2. problems' = problems => Listed' = Listed
    BY DEF Listed
  <1>3. UnsupportedArch => stage = "arch"
    BY DEF UnsupportedArch
  <1>4. SecondDefinition => stage' = "symbols"
    BY DEF SecondDefinition, AtSymbol
  <1>5. /\ (Relocation => stage' = "capabilities") /\ (Capabilities => stage' = "layout")
        /\ (NoDwarf => stage' = "identity")
    BY DEF Relocation, Capabilities, NoDwarf
  <1>6. stage = "arch" \/ Listed \subseteq Listed'
    BY <1>0, <1>2, <1>3, Listing
  <1>7. ~ UnsupportedArch /\ ~ SymbolsScanned =>
              \A p \in Listed' : p \in Listed \/ ~ IsFatal(p)
    BY <1>0, <1>1, <1>2, Listing
  <1>8. UnsupportedArch \/ Judge \/ SymbolsScanned \/ stage' \notin {"write"} \/ Listed' = Listed
    BY <1>0, <1>2, <1>4, <1>5, Listing
  <1> QED
    BY <1>0, <1>6, <1>7, <1>8, Listing

Fatality == \E p \in Listed : IsFatal(p)

Usable == slot["main_arena"] # None /\ slot["mp_"] # None

OutcomeInv ==
  /\ stage \in {"arch", "verify", "symbols"} => ~ Fatality
  /\ Scanned => (Fatality <=> ~ Usable)
  /\ stage \notin {"write", "done"} => ~ supported
  /\ Judged => (supported <=> input.libc.arch /\ Usable)
  /\ code = 0 => Delivered /\ supported
  /\ code = 1 /\ Delivered => ~ supported

LEMMA OutcomeInit == CheckInit => OutcomeInv
  <1> SUFFICES ASSUME CheckInit PROVE OutcomeInv
    OBVIOUS
  <1>1. stage = "arch" /\ problems = <<>> /\ stdout = "empty" /\ supported = FALSE /\ code = None
    BY DEF CheckInit
  <1>2. ~ Fatality
    BY <1>1 DEF Fatality, Listed, ToSet
  <1>3. code # 0 /\ code # 1
    BY <1>1, CheckAssumption
  <1> QED
    BY <1>1, <1>2, <1>3 DEF OutcomeInv, Scanned, Judged, Delivered

LEMMA OutcomeStep == StagesInv /\ OutcomeInv /\ [CheckNext]_checkVars => OutcomeInv'
  <1> SUFFICES ASSUME StagesInv, OutcomeInv, [CheckNext]_checkVars PROVE OutcomeInv'
    OBVIOUS
  <1>0. /\ None \notin Nat /\ (stage # "done" => stdout = "empty" /\ code = None)
        /\ (stage \notin {"arch", "write", "done"} => input.libc.arch)
    BY CheckAssumption DEF StagesInv
  <1>1. CASE UnsupportedArch
    <2>1. /\ stage' = "write" /\ ~ supported' /\ ~ input'.libc.arch /\ code' = None
          /\ stdout' = "empty"
      BY <1>0, <1>1 DEF UnsupportedArch, outcome, OutcomeInv
    <2> QED
      BY <1>0, <2>1 DEF OutcomeInv, Scanned, Judged, Delivered
  <1>2. CASE SymbolsScanned
    <2>1. /\ stage = "symbols" /\ stage' = "relocation" /\ UNCHANGED <<slot, supported, stdout, code>>
      BY <1>2 DEF SymbolsScanned, scan, outcome
    <2>2. Fatality' <=> ~ Usable
      <3>1. ~ Fatality /\ Listed' = Listed \cup MissingOf("main_arena") \cup MissingOf("mp_")
        BY <1>2, <2>1, StepLists DEF OutcomeInv
      <3>2. \A name : IsFatal(Problem("missing_symbol", name))
        BY DEF IsFatal, Fatal, Problem
      <3> QED
        BY <3>1, <3>2 DEF Fatality, MissingOf, Usable
    <2>3. Usable' <=> Usable
      BY <2>1 DEF Usable
    <2> QED
      BY <1>0, <2>1, <2>2, <2>3 DEF OutcomeInv, Judged, Delivered, Scanned
  <1>3. CASE Judge
    <2>1. /\ stage = "identity" /\ stage' = "write" /\ UNCHANGED <<input, slot, stdout, code>>
          /\ supported' = (\A j \in DOMAIN problems' : ~ IsFatal(problems'[j]))
      BY <1>3 DEF Judge, scan
    <2>2. supported' <=> ~ Fatality'
      BY <2>1 DEF Fatality, Listed, ToSet
    <2>3. Fatality' <=> Fatality
      <3>1. ~ UnsupportedArch /\ ~ SymbolsScanned
        BY <2>1 DEF UnsupportedArch, SymbolsScanned
      <3> QED
        BY <2>1, <3>1, StepLists DEF Fatality
    <2>4. Usable' <=> Usable
      BY <2>1 DEF Usable
    <2> QED
      BY <1>0, <2>1, <2>2, <2>3, <2>4 DEF OutcomeInv, Scanned, Judged, Delivered
  <1>4. CASE Write \/ WriteFails \/ NewlineFails
    <2>1. /\ stage = "write" /\ stage' = "done" /\ UNCHANGED <<input, slot, supported>>
          /\ code' = 0 => stdout' = "whole" /\ supported
          /\ code' = 1 /\ stdout' = "whole" => ~ supported
      BY <1>4 DEF Write, WriteFails, NewlineFails, scan
    <2>2. Usable' <=> Usable
      BY <2>1 DEF Usable
    <2> QED
      BY <1>0, <2>1, <2>2 DEF OutcomeInv, Scanned, Judged, Delivered
  <1>5. CASE LibcUnusable \/ DebugUnusable \/ DebugRefused
    <2>1. /\ stage \in {"arch", "verify"} /\ stage' = "done" /\ code' = 1
          /\ UNCHANGED <<stdout>>
      BY <1>5 DEF LibcUnusable, DebugUnusable, DebugRefused
    <2> QED
      BY <1>0, <2>1 DEF OutcomeInv, Scanned, Judged, Delivered
  <1>6. CASE FillSymbol \/ SecondDefinition \/ SkipUndefined \/ DebugTable
    <2>1. stage = "symbols" /\ stage' = "symbols" /\ UNCHANGED <<supported, stdout, code>>
      BY <1>6 DEF FillSymbol, SecondDefinition, SkipUndefined, DebugTable, AtSymbol, outcome
    <2>2. ~ Fatality'
      <3>1. ~ UnsupportedArch /\ ~ SymbolsScanned
        BY <2>1 DEF UnsupportedArch, SymbolsScanned
      <3> QED
        BY <2>1, <3>1, StepLists DEF Fatality, OutcomeInv
    <2> QED
      BY <1>0, <2>1, <2>2 DEF OutcomeInv, Scanned, Judged, Delivered
  <1>7. CASE \/ SupportedArch \/ DebugVerified \/ Relocation \/ Capabilities \/ ApplyDwarf
             \/ NoDwarf \/ UNCHANGED checkVars
    <2>1. /\ (~ UnsupportedArch /\ ~ SymbolsScanned) \/ UNCHANGED checkVars
          /\ UNCHANGED <<input, slot, supported, stdout, code>>
          /\ \/ stage = "arch" /\ stage' = "verify" /\ problems = <<>> /\ problems' = problems
             \/ stage = "verify" /\ stage' = "symbols"
             \/ Scanned /\ Scanned' /\ stage # "arch"
             \/ UNCHANGED <<stage, problems>>
      BY <1>7 DEF SupportedArch, UnsupportedArch, SymbolsScanned, DebugVerified, Relocation,
           Capabilities, ApplyDwarf, NoDwarf, checkVars, scan, caps, outcome, Scanned, StagesInv
    <2>2. CASE UNCHANGED <<stage, problems>>
      BY <1>0, <2>1, <2>2 DEF OutcomeInv, Fatality, Listed, Usable, Scanned, Judged, Delivered
    <2>3. CASE ~ UNCHANGED <<stage, problems>>
      <3>1. ~ UnsupportedArch /\ ~ SymbolsScanned
        BY <2>1, <2>3 DEF checkVars
      <3>2. Fatality' <=> Fatality
        BY <2>1, <2>3, <3>1, StepLists DEF Fatality, Listed
      <3>3. Usable' <=> Usable
        BY <2>1 DEF Usable
      <3> QED
        BY <1>0, <2>1, <2>3, <3>2, <3>3 DEF OutcomeInv, Scanned, Judged, Delivered
    <2> QED
      BY <2>2, <2>3
  <1> QED
    BY <1>1, <1>2, <1>3, <1>4, <1>5, <1>6, <1>7 DEF CheckNext

-----------------------------------------------------------------------------
GapsInv ==
  /\ /\ ~ input.libc.tpOff
     /\ stage \in {"capabilities", "layout", "identity"} \/ (input.libc.arch /\ Judged)
     => Problem("missing_relocation", None) \in Listed
  /\ /\ input.libc.version = "unknown"
     /\ stage \in {"layout", "identity"} \/ (input.libc.arch /\ Judged)
     => Problem("unknown_glibc_version", None) \in Listed /\ safeLinking
  /\ Judged => MissingIdOf \subseteq Listed
  /\ /\ origin["layout_source"] = "builtin" /\ ~ Silent
     /\ stage = "identity" \/ (input.libc.arch /\ Judged)
     => Problem("dwarf_layout_fallback", None) \in Listed

LEMMA GapsInit == CheckInit => GapsInv
  BY DEF CheckInit, GapsInv, Judged, Delivered

LEMMA GapsStep == StagesInv /\ GapsInv /\ [CheckNext]_checkVars => GapsInv'
  <1> SUFFICES ASSUME StagesInv, GapsInv, [CheckNext]_checkVars PROVE GapsInv'
    OBVIOUS
  <1>0. /\ stage \in Stages /\ (stage # "done" => stdout = "empty" /\ code = None)
        /\ input' = input /\ (Silent' <=> Silent) /\ MissingIdOf' = MissingIdOf
        /\ (stage \notin {"arch", "write", "done"} => input.libc.arch)
    <2>1. input' = input
      BY DEF CheckNext, UnsupportedArch, SupportedArch, LibcUnusable, DebugUnusable,
           DebugRefused, DebugVerified, FillSymbol, SecondDefinition, SkipUndefined, DebugTable,
           SymbolsScanned, Relocation, Capabilities, ApplyDwarf, NoDwarf, Judge, Write,
           WriteFails, NewlineFails, checkVars
    <2> QED
      BY <2>1 DEF StagesInv, Silent, MissingIdOf, NoSegmentId
  <1>1. stage = "arch" \/ Listed \subseteq Listed'
    BY StepLists
  <1>2. CASE UnsupportedArch
    <2>1. stage' = "write" /\ ~ input.libc.arch /\ MissingIdOf \subseteq Listed'
      BY <1>2, StepLists DEF UnsupportedArch
    <2> QED
      BY <1>0, <2>1 DEF GapsInv
  <1>3. CASE \/ SupportedArch \/ LibcUnusable \/ DebugUnusable \/ DebugRefused
             \/ DebugVerified \/ FillSymbol \/ SecondDefinition \/ SkipUndefined
             \/ DebugTable \/ SymbolsScanned
    <2>1. /\ stage' \in {"verify", "symbols", "relocation", "done"} /\ stdout' = "empty"
      BY <1>0, <1>3 DEF SupportedArch, LibcUnusable, DebugUnusable, DebugRefused, DebugVerified,
           FillSymbol, SecondDefinition, SkipUndefined, DebugTable, SymbolsScanned, AtSymbol,
           outcome
    <2> QED
      BY <2>1 DEF GapsInv, Judged, Delivered
  <1>4. CASE Relocation
    <2>1. stage' = "capabilities" /\ stdout' = "empty"
          /\ (~ input.libc.tpOff => Problem("missing_relocation", None) \in Listed')
      BY <1>0, <1>4, StepLists DEF Relocation, outcome
    <2> QED
      BY <1>0, <2>1 DEF GapsInv, Judged, Delivered
  <1>5. CASE Capabilities
    <2>1. /\ stage = "capabilities" /\ stage' = "layout" /\ stdout' = "empty"
          /\ safeLinking' = (input.libc.version # "old")
          /\ input.libc.version = "unknown" => Problem("unknown_glibc_version", None) \in Listed'
      BY <1>0, <1>5, StepLists DEF Capabilities, outcome
    <2> QED
      BY <1>0, <1>1, <2>1 DEF GapsInv, Judged, Delivered
  <1>6. CASE ApplyDwarf
    <2>1. /\ stage = "layout" /\ stage' = "identity" /\ stdout' = "empty"
          /\ safeLinking' = safeLinking /\ origin'["layout_source"] = "dwarf"
      BY <1>0, <1>6 DEF ApplyDwarf, outcome, FromDwarf, Offsets, RequiredOffsets
    <2> QED
      BY <1>0, <1>1, <2>1 DEF GapsInv, Judged, Delivered
  <1>7. CASE NoDwarf
    <2>1. /\ stage = "layout" /\ stage' = "identity" /\ stdout' = "empty"
          /\ safeLinking' = safeLinking
          /\ ~ Silent => Problem("dwarf_layout_fallback", None) \in Listed'
      BY <1>0, <1>7, StepLists DEF NoDwarf, outcome, caps
    <2> QED
      BY <1>0, <1>1, <2>1 DEF GapsInv, Judged, Delivered
  <1>8. CASE Judge
    <2>1. /\ stage = "identity" /\ stage' = "write" /\ UNCHANGED <<origin, safeLinking>>
          /\ Listed' = Listed \cup MissingIdOf
      BY <1>8, StepLists DEF Judge, caps
    <2> QED
      BY <1>0, <2>1 DEF GapsInv, Judged, Delivered
  <1>9. CASE Write \/ WriteFails \/ NewlineFails \/ UNCHANGED checkVars
    <2>1. /\ UNCHANGED <<origin, safeLinking>> /\ Listed' = Listed
          /\ \/ stage = "write" /\ stage' = "done"
             \/ UNCHANGED <<stage, stdout>>
      BY <1>9 DEF Write, WriteFails, NewlineFails, checkVars, caps, Listed
    <2> QED
      BY <1>0, <2>1 DEF GapsInv, Judged, Delivered
  <1> QED
    BY <1>2, <1>3, <1>4, <1>5, <1>6, <1>7, <1>8, <1>9 DEF CheckNext

-----------------------------------------------------------------------------
(* A debug file of another build.                                          *)

AllBuiltin == \A o \in Offsets : origin[o] = "builtin"

Foreign == input.debug # None /\ ~ input.debug.own

ForeignInv ==
  /\ Foreign => /\ stage \in {"arch", "verify", "done"} \/ (stage = "write" /\ ~ input.libc.arch)
                /\ \A s \in Slots : slot[s] = None
                /\ AllBuiltin
  /\ Refused => ~ input.debug.opens \/ ~ Matches

LEMMA ForeignInit == CheckInit => ForeignInv
  BY DEF CheckInit, ForeignInv, AllBuiltin, Refused

LEMMA ForeignStep == StagesInv /\ ForeignInv /\ [CheckNext]_checkVars => ForeignInv'
  <1> SUFFICES ASSUME StagesInv, ForeignInv, [CheckNext]_checkVars PROVE ForeignInv'
    OBVIOUS
  <1>0. input' = input /\ (Foreign' <=> Foreign) /\ (Matches' <=> Matches)
    <2>1. input' = input
      BY DEF CheckNext, UnsupportedArch, SupportedArch, LibcUnusable, DebugUnusable,
           DebugRefused, DebugVerified, FillSymbol, SecondDefinition, SkipUndefined, DebugTable,
           SymbolsScanned, Relocation, Capabilities, ApplyDwarf, NoDwarf, Judge, Write,
           WriteFails, NewlineFails, checkVars
    <2>2. Matches' <=> Matches
      BY <2>1 DEF Matches, LibcId, DebugId, LinkMatches
    <2> QED
      BY <2>1, <2>2 DEF Foreign
  <1>1. ASSUME Foreign
        PROVE  /\ stage' \in {"arch", "verify", "done"} \/ (stage' = "write" /\ ~ input.libc.arch)
               /\ (\A s \in Slots : slot[s] = None)'
               /\ AllBuiltin'
    <2>1. /\ stage \in {"arch", "verify", "done"} \/ (stage = "write" /\ ~ input.libc.arch)
          /\ \A s \in Slots : slot[s] = None
          /\ AllBuiltin /\ ~ Matches /\ input.debug # None
      BY <1>1, MatchesIs DEF ForeignInv, Foreign, StagesInv
    <2>2. \/ UnsupportedArch \/ SupportedArch \/ LibcUnusable \/ DebugUnusable
          \/ DebugRefused \/ Write \/ WriteFails
          \/ NewlineFails \/ UNCHANGED checkVars
      BY <2>1 DEF CheckNext, DebugVerified, FillSymbol, SecondDefinition, SkipUndefined,
           DebugTable, SymbolsScanned, Relocation, Capabilities, ApplyDwarf, NoDwarf, Judge,
           AtSymbol
    <2>3. UNCHANGED <<slot, origin>>
      BY <2>2 DEF UnsupportedArch, SupportedArch, LibcUnusable, DebugUnusable, DebugRefused,
           Write, WriteFails, NewlineFails, checkVars, scan, caps
    <2>4. stage' \in {"arch", "verify", "done"} \/ (stage' = "write" /\ ~ input.libc.arch)
      BY <2>1, <2>2 DEF UnsupportedArch, SupportedArch, LibcUnusable, DebugUnusable,
           DebugRefused, Write, WriteFails, NewlineFails, checkVars
    <2> QED
      BY <2>1, <2>3, <2>4 DEF AllBuiltin
  <1>2. ASSUME Refused' PROVE ~ input.debug.opens \/ ~ Matches
    <2>1. CASE DebugUnusable \/ DebugRefused
      BY <2>1 DEF DebugUnusable, DebugRefused
    <2>2. CASE Write \/ WriteFails \/ NewlineFails
      <3>1. stage = "write" /\ table' = table
        BY <2>2 DEF Write, WriteFails, NewlineFails, scan
      <3>2. table = "debug"
        BY <1>0, <1>2, <3>1 DEF StagesInv, AllRead, Judged, Refused
      <3> QED
        BY <1>2, <3>1, <3>2 DEF Refused
    <2>3. CASE ~ (DebugUnusable \/ DebugRefused \/ Write \/ WriteFails \/ NewlineFails)
      <3>1. Refused
        BY <1>0, <1>2, <2>3 DEF Refused, CheckNext, UnsupportedArch, SupportedArch, LibcUnusable,
             DebugVerified, FillSymbol, SecondDefinition, SkipUndefined, DebugTable,
             SymbolsScanned, Relocation, Capabilities, ApplyDwarf, NoDwarf, Judge, checkVars,
             AtSymbol
      <3> QED
        BY <3>1 DEF ForeignInv
    <2> QED
      BY <2>1, <2>2, <2>3
  <1> QED
    BY <1>0, <1>1, <1>2 DEF ForeignInv

CheckInv == StagesInv /\ OutcomeInv /\ GapsInv /\ ForeignInv

LEMMA CheckAlways == CheckSpec => []CheckInv
  <1>1. CheckInit => CheckInv
    BY StagesInit, OutcomeInit, GapsInit, ForeignInit DEF CheckInv
  <1>2. CheckInv /\ [CheckNext]_checkVars => CheckInv'
    BY StagesStep, OutcomeStep, GapsStep, ForeignStep DEF CheckInv
  <1> QED
    BY <1>1, <1>2, PTL DEF CheckSpec

\* With both tables read, what was found is all there is.
LEMMA AllFound ==
  ASSUME StagesInv, AllRead
  PROVE  \A s \in Slots : Found(s) = Definitions(s)
  <1>1. Upto = Len(AllSymbols) /\ DOMAIN AllSymbols = 1 .. Len(AllSymbols)
        /\ Len(AllSymbols) \in Nat
    BY TablesType DEF StagesInv
  <1>2. \A j \in DOMAIN AllSymbols : j <= Upto
    BY <1>1
  <1> QED
    BY <1>2 DEF Found, Definitions

(* Nothing is taken from a debug file of another build, and its own one is *)
(* refused only when nothing shows that it is (verify_debug_matches_       *)
(* runtime): where the build-ids are, among the notes of segments or of    *)
(* sections, makes no difference.                                          *)
THEOREM DebugFileAlwaysJudgedRight == CheckSpec => []DebugFileJudgedRight
  <1>1. ASSUME StagesInv, ForeignInv PROVE DebugFileJudgedRight
    <2>1. Foreign => (\A s \in Slots : slot[s] = None) /\ AllBuiltin
      BY <1>1 DEF ForeignInv
    <2>2. ASSUME Refused, input.debug.opens, input.debug.own
          PROVE  \/ ~ input.debug.sameAbi
                 \/ ~ (Shown(input.libc) /\ Shown(input.debug)) /\ ~ LinkMatches
      BY <1>1, <2>2, MatchesIs DEF ForeignInv, Refused, StagesInv
    <2> QED
      BY <2>1, <2>2 DEF DebugFileJudgedRight, Foreign, AllBuiltin
  <1> QED
    BY CheckAlways, <1>1, PTL DEF CheckInv

(* The slots hold the first definitions of both symbol tables, and every   *)
(* contradiction and every gap behind the layout is in the document.       *)
THEOREM DoubtsAlwaysTold == CheckSpec => []DoubtsAreTold
  <1>1. ASSUME StagesInv, GapsInv PROVE DoubtsAreTold
    <2>1. ASSUME Scanned PROVE ConflictsAreTold
      <3>1. \A s \in Slots : Found(s) = Definitions(s)
        BY <1>1, <2>1, AllFound DEF AllRead
      <3>2. \A p : (\E j \in DOMAIN problems : problems[j] = p) <=> p \in Listed
        BY DEF Listed, ToSet
      <3>3. ASSUME NEW s \in Slots
            PROVE  /\ slot[s] = IF Definitions(s) = {} THEN None
                                ELSE AllSymbols[Min(Definitions(s))].value
                   /\ (\E j \in DOMAIN problems : problems[j] = Problem("duplicate_symbol", s))
                        <=> \E j, m \in Definitions(s) : AllSymbols[j].value # AllSymbols[m].value
        <4>1. SlotIs(s) /\ Found(s) = Definitions(s)
          BY <1>1, <3>1 DEF StagesInv, SlotsAre
        <4> QED
          BY <3>2, <4>1 DEF SlotIs
      <3> QED
        BY <3>3 DEF ConflictsAreTold
    <2>2. ASSUME Detected PROVE GapsAreTold
      <3>1. input.libc.arch /\ Judged
        BY <2>2 DEF Detected, Judged
      <3>2. \A kind : Problem(kind, None) \in Listed => Told(kind)
        BY DEF Listed, ToSet, Told, Problem
      <3>3. input.libc.idIn \in {"none", "section"} => Told("missing_build_id")
        <4>1. HoldsId(input.libc) /\ input.libc.id \in Nat
              /\ input.libc.idIn \in {"none", "segment", "section", "both", "shadowed"}
          BY <1>1, CheckAssumption DEF StagesInv, IsInput, IsFile
        <4>2. input.libc.idIn \in {"none", "section"} => NoSegmentId
          BY <4>1, ShownId DEF NoSegmentId
        <4>3. NoSegmentId => Problem("missing_build_id", None) \in Listed
          BY <1>1, <3>1 DEF GapsInv, MissingIdOf
        <4> QED
          BY <3>2, <4>2, <4>3
      <3>4. input.debug # None \/ input.dwarf = "failed" => ~ Silent
        BY DEF Silent
      <3> QED
        BY <1>1, <3>1, <3>2, <3>3, <3>4 DEF GapsInv, GapsAreTold
    <2> QED
      BY <2>1, <2>2 DEF DoubtsAreTold, ConflictsAreTold, GapsAreTold
  <1> QED
    BY CheckAlways, <1>1, PTL DEF CheckInv

(* Exit code 0 comes with a whole document about a libc that can be        *)
(* analysed, and a whole document with code 1 means that it cannot: the    *)
(* verdict is that of the symbols in both tables, not of one of them.      *)
THEOREM ExitCodeAlwaysTells == CheckSpec => []ExitCodeTells
  <1>1. ASSUME StagesInv, OutcomeInv PROVE ExitCodeTells
    <2>1. ASSUME Delivered, input.libc.arch
          PROVE  Usable <=> \A s \in {"main_arena", "mp_"} : Definitions(s) # {}
      <3>1. \A s \in Slots : Found(s) = Definitions(s)
        BY <1>1, <2>1, AllFound DEF AllRead, Judged
      <3>2. \A s \in Slots : slot[s] = None <=> Found(s) = {}
        BY <1>1, EmptySlot DEF StagesInv, SlotsAre
      <3>3. "main_arena" \in Slots /\ "mp_" \in Slots
        BY DEF Slots
      <3> QED
        BY <3>1, <3>2, <3>3 DEF Usable
    <2>2. Delivered => (supported <=> input.libc.arch /\ Usable)
      BY <1>1 DEF OutcomeInv, Judged
    <2> QED
      BY <1>1, <2>1, <2>2 DEF OutcomeInv, ExitCodeTells, Analysable
  <1> QED
    BY CheckAlways, <1>1, PTL DEF CheckInv

-----------------------------------------------------------------------------
(* The libc location.  A first page shows the build-id of its file if it   *)
(* holds the header of the note and all the notes up to it.                *)

\* The i-th header ends the search of the page in RawBuildId.
EndsAt(buf, j) ==
  \/ ~ buf.table + j <= Len(buf.cells)
  \/ buf.headers[j].note /\ ~ InCells(buf, buf.headers[j])
  \/ buf.headers[j].note /\ FirstId(NotesIn(buf, buf.headers[j])) # NoId

Endings(buf) == {j \in DOMAIN buf.headers : EndsAt(buf, j)}

LEMMA RawIs ==
  ASSUME NEW buf
  PROVE  RawBuildId(buf)
           = IF \/ Endings(buf) = {}
                \/ ~ buf.table + Min(Endings(buf)) <= Len(buf.cells)
                \/ ~ InCells(buf, buf.headers[Min(Endings(buf))])
             THEN NoId ELSE FirstId(NotesIn(buf, buf.headers[Min(Endings(buf))]))
  BY DEF RawBuildId, Endings, EndsAt

LEMMA PartOfFront ==
  ASSUME NEW s, IsSequence(s), NEW n \in Nat, n <= Len(s), NEW c \in Nat, NEW m \in Nat, c + m <= n
  PROVE  SubSeq(SubSeq(s, 1, n), c + 1, c + m) = SubSeq(s, c + 1, c + m)
  <1> DEFINE front == SubSeq(s, 1, n)
  <1>0. Len(s) \in Nat
    BY DEF IsSequence
  <1>1. /\ IsSequence(front) /\ Len(front) = n
        /\ \A j \in 1 .. n : front[j] = s[j]
    <2>1. 1 = 0 + 1 /\ n = 0 + n /\ 0 + n <= Len(s) /\ \A j \in 1 .. n : 0 + j = j
      BY <1>0
    <2>2. ASSUME NEW a, NEW b, a = 0 + 1, b = 0 + n
          PROVE  /\ IsSequence(SubSeq(s, a, b)) /\ Len(SubSeq(s, a, b)) = n
                 /\ \A j \in 1 .. n : SubSeq(s, a, b)[j] = s[0 + j]
      BY <2>1, <2>2, SubSeqIs
    <2>3. IsSequence(front) /\ Len(front) = n /\ \A j \in 1 .. n : front[j] = s[0 + j]
      BY <2>1, <2>2
    <2> HIDE DEF front
    <2> QED
      BY <2>1, <2>3
  <1> HIDE DEF front
  <1> DEFINE part == SubSeq(front, c + 1, c + m)
             orig == SubSeq(s, c + 1, c + m)
  <1>2. /\ IsSequence(part) /\ Len(part) = m /\ \A j \in 1 .. m : part[j] = front[c + j]
    BY <1>1, PartIs
  <1>3. c + m <= Len(s)
    BY <1>0
  <1>4. /\ IsSequence(orig) /\ Len(orig) = m /\ \A j \in 1 .. m : orig[j] = s[c + j]
    BY <1>3, PartIs
  <1> HIDE DEF part, orig
  <1>5. \A j \in 1 .. m : c + j \in 1 .. n
    OBVIOUS
  <1>6. \A j \in 1 .. m : part[j] = orig[j]
    BY <1>1, <1>2, <1>4, <1>5
  <1>7. part = orig
    BY <1>2, <1>4, <1>6 DEF IsSequence
  <1> QED
    BY <1>7 DEF front, part, orig

\* A page: the front of a file, with the file's headers.
IsPage(page, image) ==
  /\ page.table = image.table /\ page.headers = image.headers
  /\ Len(page.cells) \in Nat /\ Len(page.cells) <= Len(image.cells)
  /\ page.cells = SubSeq(image.cells, 1, Len(page.cells))

LEMMA PageNotes ==
  ASSUME NEW image, image.cells \in Seq(Nat), image.table \in Nat,
         IsWritten(image, image.headers, image.written), NEW page, IsPage(page, image),
         NEW h \in DOMAIN image.headers, InCells(page, page.headers[h])
  PROVE  /\ InCells(image, image.headers[h])
         /\ NotesIn(page, page.headers[h]) = NotesIn(image, image.headers[h])
  <1> DEFINE c == image.headers[h].start
             m == image.headers[h].size
             n == Len(page.cells)
  <1>1. c \in Nat /\ m \in Nat /\ n \in Nat /\ n <= Len(image.cells) /\ Len(image.cells) \in Nat
    BY DEF IsWritten, IsPage
  <1>2. c + m <= n
    BY DEF InCells, IsPage
  <1>3. IsSequence(image.cells)
    BY DEF IsSequence
  <1>4. page.cells = SubSeq(image.cells, 1, n) /\ page.headers[h] = image.headers[h]
    BY DEF IsPage
  <1> HIDE DEF c, m, n
  <1>5. SubSeq(SubSeq(image.cells, 1, n), c + 1, c + m) = SubSeq(image.cells, c + 1, c + m)
    BY <1>1, <1>2, <1>3, PartOfFront
  <1>6. c + m <= Len(image.cells)
    BY <1>1, <1>2
  <1> QED
    BY <1>4, <1>5, <1>6 DEF NotesIn, InCells, c, m

LEMMA PageId ==
  ASSUME NEW image, image.cells \in Seq(Nat), image.table \in Nat,
         IsWritten(image, image.headers, image.written), NEW page, IsPage(page, image)
  PROVE  LET with == WithId(image, image.headers, image.written)
             id   == GivenId(image, image.headers, image.written)
         IN  /\ RawBuildId(page) # NoId => RawBuildId(page) = id
             /\ /\ with # {} /\ image.table + Min(with) <= Len(page.cells)
                /\ \A h \in 1 .. Min(with) :
                     image.headers[h].note => InCells(page, page.headers[h])
                => RawBuildId(page) = id
  <1> DEFINE headers == image.headers
             with == WithId(image, headers, image.written)
             id == GivenId(image, headers, image.written)
             ends == Endings(page)
             last == Min(ends)
  <1>1. /\ Len(headers) \in Nat /\ DOMAIN headers = 1 .. Len(headers)
        /\ with \subseteq 1 .. Len(headers)
        /\ with # {} => Min(with) \in with
        /\ with = {h \in 1 .. Len(headers) :
                     Walkable(image, headers[h]) /\ FirstId(NotesIn(image, headers[h])) # NoId}
        /\ id = IF with = {} THEN NoId ELSE FirstId(NotesIn(image, headers[Min(with)]))
    BY GivenIs
  <1>2. page.table = image.table /\ page.headers = headers /\ Len(page.cells) \in Nat
    BY DEF IsPage
  <1>3. ends \subseteq 1 .. Len(headers) /\ ends \subseteq Nat
    BY <1>1, <1>2 DEF Endings
  <1>4. ends # {} => last \in ends /\ \A j \in ends : last <= j
    BY <1>3, MinIs
  <1>5. with # {} => \A j \in with : Min(with) <= j
    <2>1. with \subseteq Nat
      BY <1>1
    <2> HIDE DEF with
    <2> QED
      BY <2>1, MinIs
  <1>6. \A h \in 1 .. Len(headers) : InCells(page, headers[h]) =>
          /\ InCells(image, headers[h])
          /\ NotesIn(page, headers[h]) = NotesIn(image, headers[h])
    BY <1>1, <1>2, PageNotes
  <1>7. ASSUME NEW h \in 1 .. Len(headers), h \notin ends
        PROVE  h \notin with
    <2>1. /\ ~ (headers[h].note /\ ~ InCells(page, headers[h]))
          /\ ~ (headers[h].note /\ FirstId(NotesIn(page, headers[h])) # NoId)
      BY <1>1, <1>2, <1>7 DEF Endings, EndsAt
    <2> QED
      BY <1>1, <1>6, <2>1 DEF Walkable
  <1>8. ASSUME RawBuildId(page) # NoId PROVE RawBuildId(page) = id
    <2>1. /\ ends # {} /\ page.table + last <= Len(page.cells) /\ InCells(page, headers[last])
          /\ RawBuildId(page) = FirstId(NotesIn(page, headers[last]))
      BY <1>2, <1>8, RawIs
    <2>2. last \in 1 .. Len(headers) /\ last \in ends /\ \A j \in ends : last <= j
      BY <1>3, <1>4, <2>1
    <2>3. headers[last].note /\ FirstId(NotesIn(page, headers[last])) # NoId
      BY <1>2, <2>1, <2>2 DEF Endings, EndsAt
    <2>4. last \in with
      BY <1>1, <1>6, <2>1, <2>2, <2>3 DEF Walkable
    <2>5. Min(with) \in ends /\ Min(with) <= last
      BY <1>1, <1>5, <1>7, <2>4
    <2>6. Min(with) = last
      <3>1. last <= Min(with) /\ last \in Nat /\ Min(with) \in Nat
        BY <1>3, <2>2, <2>5
      <3> HIDE DEF last, with
      <3> QED
        BY <2>5, <3>1
    <2> QED
      BY <1>1, <1>6, <2>1, <2>2, <2>4, <2>6
  <1>9. ASSUME with # {}, image.table + Min(with) <= Len(page.cells),
               \A h \in 1 .. Min(with) : headers[h].note => InCells(page, headers[h])
        PROVE  RawBuildId(page) = id
    <2> DEFINE first == Min(with)
    <2>1. first \in with /\ first \in 1 .. Len(headers) /\ first \in Nat
      BY <1>1, <1>9
    <2>2. first \in ends
      BY <1>7, <2>1
    <2>3. \A j \in 1 .. first : page.table + j <= Len(page.cells)
      <3>1. image.table + first <= Len(page.cells)
        BY <1>9
      <3> HIDE DEF first
      <3> QED
        BY <1>2, <2>1, <3>1
    <2>4. ASSUME NEW j \in ends, j < first PROVE FALSE
      <3>1. j \in 1 .. first /\ j \in 1 .. Len(headers)
        BY <1>3, <2>1, <2>4
      <3>2. headers[j].note /\ InCells(page, headers[j])
            /\ FirstId(NotesIn(page, headers[j])) # NoId
        BY <1>2, <1>9, <2>3, <2>4, <3>1 DEF Endings, EndsAt
      <3>3. j \in with
        BY <1>1, <1>6, <3>1, <3>2 DEF Walkable
      <3>4. first <= j
        BY <1>5, <3>3
      <3> QED
        BY <2>1, <2>4, <3>1, <3>4
    <2>5. last = first
      <3>1. last \in ends /\ last <= first /\ ~ last < first /\ last \in Nat
        BY <1>3, <1>4, <2>2, <2>4
      <3> HIDE DEF last, first
      <3> QED
        BY <2>1, <3>1
    <2>6. InCells(page, headers[first])
      <3>1. headers[first].note /\ first \in 1 .. first
        BY <1>1, <2>1 DEF Walkable
      <3> QED
        BY <1>9, <3>1
    <2>7. page.table + first <= Len(page.cells)
      BY <1>2, <1>9
    <2> QED
      BY <1>1, <1>2, <1>6, <2>1, <2>2, <2>5, <2>6, <2>7, RawIs
  <1> QED
    BY <1>2, <1>8, <1>9

LEMMA PageIs ==
  ASSUME NEW v \in Version, NEW d \in Nat
  PROVE  /\ IsPage([Library[v] EXCEPT !.cells = FirstCells(v, d)], Library[v])
         /\ [Library[v] EXCEPT !.cells = FirstCells(v, d)].cells = FirstCells(v, d)
  <1> DEFINE cells == Library[v].cells
             n == Smaller(Smaller(d, Window), Len(cells))
             front == FirstCells(v, d)
             page == [Library[v] EXCEPT !.cells = front]
  <1>1. cells \in Seq(Nat) /\ Len(cells) \in Nat /\ IsSequence(cells)
    BY LocateAssumption DEF IsSequence
  <1>2. n \in Nat /\ n <= Len(cells)
    BY <1>1, LocateAssumption DEF Smaller
  <1>3. front = SubSeq(cells, 1, n)
    BY DEF FirstCells
  <1>4. Len(front) = n
    <2> HIDE DEF cells, n
    <2>1. 1 = 0 + 1 /\ n = 0 + n /\ 0 + n <= Len(cells)
      BY <1>1, <1>2
    <2>2. Len(SubSeq(cells, 1, n)) = n
      BY <1>1, <1>2, <2>1, SubSeqIs
    <2> QED
      BY <1>3, <2>2
  <1> HIDE DEF front, n
  <1>5. {"cells", "table", "headers", "written"} \subseteq DOMAIN Library[v]
    BY LocateAssumption
  <1>6. page.cells = front /\ page.table = Library[v].table /\ page.headers = Library[v].headers
    BY <1>5
  <1> HIDE DEF page
  <1>7. IsPage(page, Library[v])
    BY <1>1, <1>2, <1>3, <1>4, <1>6 DEF IsPage, cells
  <1> QED
    BY <1>6, <1>7 DEF page, front

\* compute_identity of a file is the build-id it was linked with.
LEMMA IdentityIsLinked ==
  ASSUME NEW v \in Version
  PROVE  FileId(v) = LinkedId(v)
  <1>1. /\ Library[v].cells \in Seq(Nat)
        /\ IsWritten(Library[v], Library[v].headers, Library[v].written)
    BY LocateAssumption
  <1> QED
    BY <1>1, SegmentsId DEF FileId, LinkedId

\* What identity_matches finds is the reference, and it finds the reference
\* wherever the core shows it.
LEMMA MatchIsReference ==
  ASSUME reference \in Version, NEW a, setup.version[a] \in Version, setup.dumped[a] \in Nat
  PROVE  /\ IdentityMatches(a) => IsReference(a)
         /\ /\ setup.dumped[a] > 0 /\ IsReference(a)
            /\ LinkedId(reference) # NoId => ShowsId(a)
            => IdentityMatches(a)
  <1> DEFINE v == setup.version[a]
             page == [Library[v] EXCEPT !.cells = PageAt(a)]
             with == WithId(Library[v], Library[v].headers, Library[v].written)
             id == GivenId(Library[v], Library[v].headers, Library[v].written)
  <1>1. /\ Library[v].cells \in Seq(Nat) /\ Library[v].table \in Nat
        /\ IsWritten(Library[v], Library[v].headers, Library[v].written)
    BY LocateAssumption
  <1>2. IsPage(page, Library[v]) /\ page.cells = PageAt(a)
    BY PageIs DEF PageAt
  <1>3. FileId(reference) = LinkedId(reference)
    BY IdentityIsLinked
  <1>4. LinkedId(v) = id /\ IdHeader(v) = Min(with)
    BY DEF LinkedId, IdHeader
  <1> HIDE DEF page
  <1>5. id = IF with = {} THEN NoId ELSE FirstId(NotesIn(Library[v], Library[v].headers[Min(with)]))
    BY <1>1, GivenIs
  <1>6. RawBuildId(page) # NoId => RawBuildId(page) = id
    BY <1>1, <1>2, PageId
  <1>7. /\ with # {} /\ Library[v].table + Min(with) <= Len(page.cells)
        /\ \A h \in 1 .. Min(with) :
             Library[v].headers[h].note => InCells(page, Library[v].headers[h])
        => RawBuildId(page) = id
    <2>1. page.headers = Library[v].headers
      BY <1>2 DEF IsPage
    <2>2. /\ with # {} /\ Library[v].table + Min(with) <= Len(page.cells)
          /\ \A h \in 1 .. Min(with) :
               Library[v].headers[h].note => InCells(page, page.headers[h])
          => RawBuildId(page) = id
      BY <1>1, <1>2, PageId
    <2> QED
      BY <2>1, <2>2
  <1>8. ASSUME IdentityMatches(a) PROVE IsReference(a)
    BY <1>3, <1>4, <1>6, <1>8 DEF IdentityMatches, IsReference, page
  <1>9. ASSUME setup.dumped[a] > 0, IsReference(a), LinkedId(reference) # NoId => ShowsId(a)
        PROVE  IdentityMatches(a)
    <2>1. CASE LinkedId(reference) = NoId
      BY <1>3, <1>9, <2>1 DEF IdentityMatches, IsReference
    <2>2. CASE LinkedId(reference) # NoId
      <3>1. id = LinkedId(reference) /\ with # {}
        BY <1>4, <1>5, <1>9, <2>2 DEF IsReference
      <3>2. /\ Library[v].table + Min(with) <= Len(page.cells)
            /\ \A h \in 1 .. Min(with) :
                 Library[v].headers[h].note => InCells(page, Library[v].headers[h])
        BY <1>2, <1>4, <1>9, <2>2 DEF ShowsId, InCells
      <3>3. RawBuildId(page) = LinkedId(reference)
        BY <1>7, <3>1, <3>2
      <3> QED
        BY <1>3, <1>9, <2>2, <3>3 DEF IdentityMatches, page
    <2> QED
      BY <2>1, <2>2
  <1> QED
    BY <1>8, <1>9

\* What is known of a mapping of the core.
LEMMA MappingIs ==
  ASSUME IsSetup(setup), NEW m \in Range(setup.mapped)
  PROVE  /\ m.start \in Nat /\ m.offset \in Nat /\ m.path \in Path
         /\ setup.version[m.start] \in Version /\ setup.dumped[m.start] \in Nat
         /\ m.start \in {setup.mapped[j].start : j \in DOMAIN setup.mapped}
  <1>1. PICK j \in DOMAIN setup.mapped : m = setup.mapped[j]
    BY DEF Range
  <1>2. IsMapping(m)
    BY <1>1 DEF IsSetup
  <1>3. setup.version[setup.mapped[j].start] \in Version /\ setup.dumped[setup.mapped[j].start] \in Nat
    BY DEF IsSetup
  <1> QED
    BY <1>1, <1>2, <1>3 DEF IsMapping

LEMMA LowestIs ==
  ASSUME NEW S, S # {}, \A m \in S : m.start \in Nat
  PROVE  Lowest(S) \in S /\ \A m \in S : Lowest(S).start <= m.start
  <1> DEFINE starts == {m.start : m \in S}
  <1>1. starts \subseteq Nat /\ starts # {} /\ \A m \in S : m.start \in starts
    OBVIOUS
  <1>2. \A s \in starts : \E m \in S : m.start = s
    OBVIOUS
  <1> HIDE DEF starts
  <1>3. Min(starts) \in starts /\ \A s \in starts : Min(starts) <= s
    BY <1>1, MinIs
  <1>4. PICK m \in S : m.start = Min(starts)
    BY <1>2, <1>3
  <1>5. \A n \in S : m.start <= n.start
    BY <1>1, <1>3, <1>4
  <1> QED
    BY <1>5 DEF Lowest

LEMMA ReferenceIs ==
  ASSUME IsSetup(setup)
  PROVE  ReferenceFile \in Version \cup {NoPath}
  <1> DEFINE firsts == {j \in DOMAIN setup.mapped : IsLibcMapping(setup.mapped[j])}
  <1>1. setup.disk \in [Path -> Version \cup {NoPath}]
        /\ setup.libc \in Path \cup {NoPath}
    BY DEF IsSetup
  <1>2. CASE setup.libc # NoPath
    BY <1>1, <1>2 DEF ReferenceFile
  <1>3. CASE setup.libc = NoPath /\ LibcMappings = {}
    BY <1>3 DEF ReferenceFile
  <1>4. CASE setup.libc = NoPath /\ LibcMappings # {}
    <2>1. firsts # {}
      BY <1>4 DEF LibcMappings, Range
    <2>2. firsts \subseteq DOMAIN setup.mapped /\ DOMAIN setup.mapped \subseteq Nat
      BY DEF IsSetup
    <2>3. firsts \subseteq Nat
      BY <2>2
    <2>4. ReferenceFile = setup.disk[setup.mapped[Min(firsts)].path]
      BY <1>4 DEF ReferenceFile
    <2> HIDE DEF firsts
    <2>5. Min(firsts) \in DOMAIN setup.mapped
      BY <2>1, <2>2, <2>3, MinIs
    <2>6. IsMapping(setup.mapped[Min(firsts)])
      BY <2>5 DEF IsSetup
    <2> QED
      BY <1>1, <2>4, <2>6 DEF IsMapping
  <1> QED
    BY <1>2, <1>3, <1>4

(* What the search knows: the tried candidates did not match, the found    *)
(* one is the lowest of those that may be taken, and a search that failed  *)
(* left none of them out.                                                  *)
SearchInv ==
  /\ search = "reference" => tried = {} /\ reference = NoPath
  /\ search \in {"locate", "found"} => reference # NoPath
  /\ search = "locate" => \A m \in tried : ~ IdentityMatches(m.start)
  /\ search = "found" /\ setup.force # NoPath =>
       ~ located.verified /\ \A m \in Forced : located.at <= m.start
  /\ search = "found" /\ setup.force = NoPath =>
       /\ \E m \in LibcMappings : located.at = m.start
       /\ IdentityMatches(located.at)
       /\ \A m \in LibcMappings : IdentityMatches(m.start) => located.at <= m.start
  /\ search = "failed" /\ reference # NoPath =>
       IF setup.force # NoPath THEN Forced = {}
       ELSE \A m \in LibcMappings : ~ IdentityMatches(m.start)

LocateInv == LocateTypeOK /\ SearchInv

LEMMA SameMatches ==
  ASSUME UNCHANGED <<setup, reference>>, NEW a
  PROVE  IdentityMatches(a)' <=> IdentityMatches(a)
  BY DEF IdentityMatches, PageAt, FirstCells, FileId

LEMMA LocateStarts == LocateInit => LocateInv
  <1> SUFFICES ASSUME LocateInit PROVE LocateInv
    OBVIOUS
  <1>1. LocateTypeOK
    BY LocateAssumption DEF LocateInit, LocateTypeOK
  <1>2. SearchInv
    BY DEF LocateInit, SearchInv
  <1> QED
    BY <1>1, <1>2 DEF LocateInv

\* The candidate is the lowest of those not tried.
LEMMA CandidateIs ==
  ASSUME IsSetup(setup), Untried # {}
  PROVE  /\ Candidate \in LibcMappings /\ Candidate \notin tried
         /\ \A m \in LibcMappings \ tried : Candidate.start <= m.start
  <1>1. \A m \in Untried : m.start \in Nat
    BY MappingIs DEF Untried, LibcMappings
  <1>2. Lowest(Untried) \in Untried /\ \A m \in Untried : Lowest(Untried).start <= m.start
    BY <1>1, LowestIs
  <1> QED
    BY <1>2 DEF Candidate, Untried

LEMMA ForcedIs ==
  ASSUME IsSetup(setup), Forced # {}
  PROVE  /\ Lowest(Forced).start \in {setup.mapped[j].start : j \in DOMAIN setup.mapped}
         /\ \A m \in Forced : Lowest(Forced).start <= m.start
  <1>1. Forced \subseteq Range(setup.mapped)
    BY DEF Forced
  <1>2. \A m \in Forced : m.start \in Nat
    BY <1>1, MappingIs
  <1>3. Lowest(Forced) \in Forced /\ \A m \in Forced : Lowest(Forced).start <= m.start
    BY <1>2, LowestIs
  <1>4. Lowest(Forced) \in Range(setup.mapped)
    BY <1>1, <1>3
  <1> HIDE DEF Lowest
  <1> QED
    BY <1>3, <1>4, MappingIs

LEMMA LocateTypeStep ==
  ASSUME LocateTypeOK, [LocateNext]_locateVars
  PROVE  LocateTypeOK'
  <1>1. IsSetup(setup) /\ UNCHANGED setup
    BY DEF LocateTypeOK, LocateNext, locateVars, NoReference, LoadReference, ForceLocate,
           ForceFails, CandidateMatches, CandidateDiffers, NoneMatches
  <1>2. IsSetup(setup)' /\ LibcMappings' = LibcMappings
    BY <1>1 DEF IsSetup, LibcMappings, IsLibcMapping
  <1>3. CASE NoReference
    BY <1>1, <1>2, <1>3 DEF NoReference, LocateTypeOK
  <1>4. CASE LoadReference
    <2>1. reference' \in Version \cup {NoPath}
      BY <1>1, <1>4, ReferenceIs DEF LoadReference
    <2> QED
      BY <1>1, <1>2, <1>4, <2>1 DEF LoadReference, LocateTypeOK
  <1>5. CASE ForceLocate
    BY <1>1, <1>2, <1>5, ForcedIs DEF ForceLocate, LocateTypeOK
  <1>6. CASE ForceFails
    BY <1>1, <1>2, <1>6 DEF ForceFails, LocateTypeOK
  <1>7. CASE CandidateMatches
    <2>1. Candidate \in LibcMappings
      BY <1>1, <1>7, CandidateIs DEF CandidateMatches
    <2>2. Candidate.start \in {setup.mapped[j].start : j \in DOMAIN setup.mapped}
      BY <1>1, <2>1, MappingIs DEF LibcMappings
    <2> QED
      BY <1>1, <1>2, <1>7, <2>1, <2>2 DEF CandidateMatches, LocateTypeOK
  <1>8. CASE CandidateDiffers
    <2>1. Candidate \in LibcMappings
      BY <1>1, <1>8, CandidateIs DEF CandidateDiffers
    <2> QED
      BY <1>1, <1>2, <1>8, <2>1 DEF CandidateDiffers, LocateTypeOK
  <1>9. CASE NoneMatches
    BY <1>1, <1>2, <1>9 DEF NoneMatches, LocateTypeOK
  <1>10. CASE UNCHANGED locateVars
    BY <1>1, <1>2, <1>10 DEF locateVars, LocateTypeOK
  <1> QED
    BY <1>3, <1>4, <1>5, <1>6, <1>7, <1>8, <1>9, <1>10 DEF LocateNext

LEMMA SearchStep ==
  ASSUME LocateInv, [LocateNext]_locateVars
  PROVE  SearchInv'
  <1>1. IsSetup(setup) /\ UNCHANGED setup
    BY DEF LocateInv, LocateTypeOK, LocateNext, locateVars, NoReference, LoadReference,
           ForceLocate, ForceFails, CandidateMatches, CandidateDiffers, NoneMatches
  <1>2. LibcMappings' = LibcMappings /\ Forced' = Forced
    BY <1>1 DEF LibcMappings, IsLibcMapping, Forced
  <1>a. UNCHANGED reference => \A a : IdentityMatches(a)' <=> IdentityMatches(a)
    <2> SUFFICES ASSUME UNCHANGED reference, NEW a
                 PROVE  IdentityMatches(a)' <=> IdentityMatches(a)
      OBVIOUS
    <2> QED
      BY <1>1, SameMatches
  <1>3. CASE NoReference
    <2>1. search' = "failed" /\ reference' = reference /\ tried' = tried
      BY <1>3 DEF NoReference
    <2>2. reference = NoPath
      BY <1>3 DEF LocateInv, SearchInv, NoReference
    <2> QED
      BY <2>1, <2>2 DEF SearchInv
  <1>4. CASE LoadReference
    BY <1>4 DEF LocateInv, SearchInv, LoadReference
  <1>5. CASE ForceLocate
    <2>1. \A m \in Forced : Lowest(Forced).start <= m.start
      BY <1>1, <1>5, ForcedIs DEF ForceLocate
    <2> QED
      BY <1>1, <1>2, <1>5, <2>1 DEF LocateInv, SearchInv, ForceLocate
  <1>6. CASE ForceFails
    BY <1>1, <1>2, <1>6 DEF LocateInv, SearchInv, ForceFails
  <1>7. CASE CandidateMatches
    <2>1. /\ Candidate \in LibcMappings
          /\ \A m \in LibcMappings \ tried : Candidate.start <= m.start
      BY <1>1, <1>7, CandidateIs DEF CandidateMatches
    <2>2. \A m \in tried : ~ IdentityMatches(m.start)
      BY <1>7 DEF LocateInv, SearchInv, CandidateMatches
    <2>3. \A m \in LibcMappings : IdentityMatches(m.start) => Candidate.start <= m.start
      BY <2>1, <2>2
    <2>4. IdentityMatches(Candidate.start)
      BY <1>7 DEF CandidateMatches
    <2>5. /\ search' = "found" /\ located'.at = Candidate.start
          /\ UNCHANGED <<setup, reference>> /\ setup.force = NoPath /\ reference # NoPath
      BY <1>7 DEF LocateInv, SearchInv, CandidateMatches
    <2>6. \A m \in LibcMappings' : IdentityMatches(m.start)' => located'.at <= m.start
      BY <1>2, <1>a, <2>3, <2>5
    <2>7. IdentityMatches(located.at)'
      BY <2>4, <2>5 DEF IdentityMatches, PageAt, FirstCells, FileId
    <2> QED
      BY <1>2, <2>1, <2>5, <2>6, <2>7 DEF SearchInv
  <1>8. CASE CandidateDiffers
    <2>1. /\ search' = "locate" /\ tried' = tried \cup {Candidate} /\ reference # NoPath
          /\ UNCHANGED <<setup, reference>>
          /\ \A m \in tried : ~ IdentityMatches(m.start)
          /\ ~ IdentityMatches(Candidate.start)
      BY <1>8 DEF LocateInv, SearchInv, CandidateDiffers
    <2>2. \A m \in tried' : ~ IdentityMatches(m.start)
      BY <2>1
    <2>3. \A m \in tried' : ~ IdentityMatches(m.start)'
      BY <1>a, <2>1, <2>2
    <2> QED
      BY <2>1, <2>3 DEF SearchInv
  <1>9. CASE NoneMatches
    <2>1. /\ search' = "failed" /\ setup.force = NoPath
          /\ UNCHANGED <<setup, reference, tried>>
          /\ \A m \in LibcMappings : ~ IdentityMatches(m.start)
      BY <1>9 DEF LocateInv, SearchInv, NoneMatches, Untried
    <2>2. \A m \in LibcMappings' : ~ IdentityMatches(m.start)'
      BY <1>2, <1>a, <2>1
    <2> QED
      BY <1>1, <2>1, <2>2 DEF SearchInv
  <1>10. CASE UNCHANGED locateVars
    <2>1. UNCHANGED <<setup, search, reference, tried, located>>
      BY <1>10 DEF locateVars
    <2>2. \A a : IdentityMatches(a)' <=> IdentityMatches(a)
      BY <1>a, <2>1
    <2>3. IdentityMatches(located.at)' <=> IdentityMatches(located.at)
      BY <2>1 DEF IdentityMatches, PageAt, FirstCells, FileId
    <2> QED
      BY <1>2, <2>1, <2>2, <2>3 DEF LocateInv, SearchInv
  <1> QED
    BY <1>3, <1>4, <1>5, <1>6, <1>7, <1>8, <1>9, <1>10 DEF LocateNext

LEMMA LocateAlways == LocateSpec => []LocateInv
  <1>1. LocateInit => LocateInv
    BY LocateStarts
  <1>2. LocateInv /\ [LocateNext]_locateVars => LocateInv'
    BY LocateTypeStep, SearchStep DEF LocateInv
  <1> QED
    BY <1>1, <1>2, PTL DEF LocateSpec

(* The answer is verified only for a mapping of the reference: a libc      *)
(* replaced on disk after it was mapped, a second libc and a forced path   *)
(* are never passed off as it (locate_libc, identity_matches).             *)
THEOREM VerifiedAlwaysReference == LocateSpec => []VerifiedIsReference
  <1>1. ASSUME LocateInv PROVE VerifiedIsReference
    <2> SUFFICES ASSUME search = "found", located.verified
                 PROVE  setup.force = NoPath /\ IsReference(located.at)
      BY DEF VerifiedIsReference
    <2>1. setup.force = NoPath /\ IdentityMatches(located.at) /\ reference \in Version
      BY <1>1 DEF LocateInv, LocateTypeOK, SearchInv
    <2>2. PICK m \in LibcMappings : located.at = m.start
      BY <1>1, <2>1 DEF LocateInv, SearchInv
    <2>3. setup.version[located.at] \in Version /\ setup.dumped[located.at] \in Nat
      BY <1>1, <2>2, MappingIs DEF LocateInv, LocateTypeOK, LibcMappings
    <2> QED
      BY <2>1, <2>3, MatchIsReference
  <1> QED
    BY LocateAlways, <1>1, PTL

(* Of the mappings in which the core shows the reference the lowest is     *)
(* taken, and the search fails only when there is none (libc_candidates,   *)
(* locate_libc, force_select).                                             *)
THEOREM LowestMatchAlwaysTaken == LocateSpec => []LowestMatchIsTaken
  <1>1. ASSUME LocateInv PROVE LowestMatchIsTaken
    <2>1. IsSetup(setup) /\ reference \in Version \cup {NoPath}
      BY <1>1 DEF LocateInv, LocateTypeOK
    <2>2. ASSUME setup.force # NoPath
          PROVE  \A a \in Recognisable : \E m \in Forced : a = m.start
      BY <2>2 DEF Recognisable, Forced
    <2>3. ASSUME setup.force = NoPath, reference \in Version, NEW a \in Recognisable
          PROVE  \E m \in LibcMappings : a = m.start /\ IdentityMatches(m.start)
      <3>1. /\ \E m \in LibcMappings : a = m.start
            /\ setup.dumped[a] > 0 /\ IsReference(a)
            /\ LinkedId(reference) # NoId => ShowsId(a)
        BY <2>3 DEF Recognisable
      <3>2. PICK m \in LibcMappings : a = m.start
        BY <3>1
      <3>3. setup.version[a] \in Version /\ setup.dumped[a] \in Nat
        BY <2>1, <3>2, MappingIs DEF LibcMappings
      <3>4. IdentityMatches(a)
        BY <2>3, <3>1, <3>3, MatchIsReference
      <3> QED
        BY <3>2, <3>4
    <2>4. ASSUME search = "found", NEW a \in Recognisable
          PROVE  located.at <= a
      <3>1. reference \in Version
        BY <1>1, <2>1, <2>4 DEF LocateInv, SearchInv
      <3>2. CASE setup.force # NoPath
        <4>1. \A m \in Forced : located.at <= m.start
          BY <1>1, <2>4, <3>2 DEF LocateInv, SearchInv
        <4> QED
          BY <2>2, <2>4, <3>2, <4>1
      <3>3. CASE setup.force = NoPath
        <4>1. \A m \in LibcMappings : IdentityMatches(m.start) => located.at <= m.start
          BY <1>1, <2>4, <3>3 DEF LocateInv, SearchInv
        <4>2. PICK m \in LibcMappings : a = m.start /\ IdentityMatches(m.start)
          BY <2>3, <2>4, <3>1, <3>3
        <4> QED
          BY <4>1, <4>2
      <3> QED
        BY <3>2, <3>3
    <2>5. ASSUME search = "failed", reference # NoPath, NEW a \in Recognisable
          PROVE  FALSE
      <3>1. CASE setup.force # NoPath
        BY <1>1, <2>2, <2>5, <3>1 DEF LocateInv, SearchInv
      <3>2. CASE setup.force = NoPath
        <4>1. \A m \in LibcMappings : ~ IdentityMatches(m.start)
          BY <1>1, <2>5, <3>2 DEF LocateInv, SearchInv
        <4> QED
          BY <2>1, <2>3, <2>5, <3>2, <4>1
      <3> QED
        BY <3>1, <3>2
    <2> QED
      BY <2>4, <2>5 DEF LowestMatchIsTaken
  <1> QED
    BY LocateAlways, <1>1, PTL

=============================================================================
