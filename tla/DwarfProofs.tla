---------------------------- MODULE DwarfProofs -----------------------------
(***************************************************************************)
(* What extract_layout guarantees for every debug file, every word size    *)
(* and every limit.  In five parts: a validated structure is safe to read  *)
(* through (member by member); the sections are whole; what is read of a   *)
(* definition is a structure; it is the one the definition means in C; and *)
(* the scan as a whole, from the sections to the layout.                   *)
(***************************************************************************)
EXTENDS DwarfFile, FiniteSetTheorems, WellFoundedInduction, TLAPS

(* A required member is there, and nothing else has its name.              *)
LEMMA RequiredIsUnique ==
  ASSUME NEW s, IsStruct(s), NEW name, Cardinality(Named(s, name)) = 1
  PROVE  /\ The(s, name) \in s.members
         /\ The(s, name).name = name
         /\ \A m \in s.members : m.name = name => m = The(s, name)
  <1>1. IsFiniteSet(Named(s, name))
    BY FS_Subset DEF IsStruct, Named
  <1>2. PICK x : Named(s, name) = {x}
    BY <1>1, FS_Singleton
  <1>3. The(s, name) = x
    BY <1>2 DEF The
  <1> QED
    BY <1>2, <1>3 DEF Named

(* A field that passed field_range lies in the structure.                  *)
LEMMA FieldInStruct ==
  ASSUME NEW s, IsStruct(s), NEW m \in s.members, FieldRange(s, m)
  PROVE  /\ m.offset \in Nat /\ m.bytes \in Nat \ {0}
         /\ s.size \in Number /\ s.size \in Nat
         /\ m.offset + m.bytes <= s.size
         /\ Cells(m) \subseteq StructCells(s)
  <1>1. /\ m.offset \in Number /\ m.bytes \in Number /\ s.size \in Number
        /\ AddrMax \in Nat
    BY DwarfLayoutAssumption DEF IsStruct, IsMember, FieldRange
  <1>2. /\ m.offset \in Nat /\ m.bytes \in Nat \ {0} /\ s.size \in Nat
        /\ m.offset + m.bytes <= s.size /\ s.size <= AddrMax
    BY <1>1 DEF FieldRange, Number
  <1>3. ASSUME NEW b \in 0 .. m.bytes - 1
        PROVE  m.offset + b \in Number /\ m.offset + b < s.size
    BY <1>1, <1>2, <1>3 DEF Number
  <1> QED
    BY <1>1, <1>2, <1>3 DEF Cells, StructCells

(* Fields that are apart share no cell.                                    *)
LEMMA ApartCells ==
  ASSUME NEW m, NEW n,
         m.offset \in Nat, m.bytes \in Nat, n.offset \in Nat, n.bytes \in Nat,
         Apart(m, n)
  PROVE  Cells(m) \cap Cells(n) = {} /\ Cells(n) \cap Cells(m) = {}
  <1>1. ASSUME NEW b \in 0 .. m.bytes - 1, NEW c \in 0 .. n.bytes - 1
        PROVE  m.offset + b # n.offset + c
    BY <1>1 DEF Apart
  <1> QED
    BY <1>1 DEF Cells

-----------------------------------------------------------------------------
(* Two members of one of the three structures with an overlap test.        *)
LEMMA ApartInStruct ==
  ASSUME NEW s, IsStruct(s), NEW m \in s.members, NEW n \in s.members,
         FieldRange(s, m), FieldRange(s, n), Apart(m, n) \/ Apart(n, m)
  PROVE  Cells(m) \cap Cells(n) = {}
  BY FieldInStruct, ApartCells

LEMMA MallocStateShares ==
  ASSUME NEW s, IsStruct(s), ValidMallocState(s)
  PROVE  NothingShared("malloc_state", s)
  <1> DEFINE f == The(s, "fastbinsY")
             t == The(s, "top")
             x == The(s, "next")
  <1>1. \A name \in {"fastbinsY", "top", "next"} :
          /\ The(s, name) \in s.members
          /\ The(s, name).name = name
          /\ \A m \in s.members : m.name = name => m = The(s, name)
    BY RequiredIsUnique DEF ValidMallocState, AllThere
  <1>2. FieldRange(s, f) /\ FieldRange(s, t) /\ FieldRange(s, x)
    BY DEF ValidMallocState, PointerArray, Array, Pointer, WordOf
  <1>3. Apart(f, t) /\ Apart(f, x) /\ Apart(t, x)
    BY DEF ValidMallocState, NoOverlap
  <1>4. Used("malloc_state", s) = {f, t, x}
    BY <1>1 DEF Used, WantedNames
  <1>5. Single("malloc_state", s)
    BY <1>1, <1>4 DEF Single
  <1> HIDE DEF f, t, x
  <1>6. \A m, n \in {f, t, x} : m # n => Cells(m) \cap Cells(n) = {}
    BY <1>1, <1>2, <1>3, <1>4, ApartInStruct DEF Used
  <1> QED
    BY <1>4, <1>5, <1>6 DEF NothingShared

LEMMA HeapInfoShares ==
  ASSUME NEW s, IsStruct(s), ValidHeapInfo(s)
  PROVE  NothingShared("heap_info", s)
  <1> DEFINE a == The(s, "ar_ptr")
             p == The(s, "prev")
             z == The(s, "size")
             q == The(s, "mprotect_size")
  <1>1. \A name \in {"ar_ptr", "prev", "size", "mprotect_size"} :
          /\ The(s, name) \in s.members
          /\ The(s, name).name = name
          /\ \A m \in s.members : m.name = name => m = The(s, name)
    BY RequiredIsUnique DEF ValidHeapInfo, AllThere
  <1>2. FieldRange(s, a) /\ FieldRange(s, p) /\ FieldRange(s, z) /\ FieldRange(s, q)
    BY DEF ValidHeapInfo, Pointer, UnsignedWord, WordOf
  <1>3. /\ Apart(a, p) /\ Apart(a, z) /\ Apart(a, q)
        /\ Apart(p, z) /\ Apart(p, q) /\ Apart(z, q)
    BY DEF ValidHeapInfo, NoOverlap
  <1>4. Used("heap_info", s) = {a, p, z, q}
    BY <1>1 DEF Used, WantedNames
  <1>5. Single("heap_info", s)
    BY <1>1, <1>4 DEF Single
  <1> HIDE DEF a, p, z, q
  <1>6. \A m, n \in {a, p, z, q} : m # n => Cells(m) \cap Cells(n) = {}
    BY <1>1, <1>2, <1>3, <1>4, ApartInStruct DEF Used
  <1> QED
    BY <1>4, <1>5, <1>6 DEF NothingShared

LEMMA TcacheShares ==
  ASSUME NEW s, IsStruct(s), ValidTcache(s)
  PROVE  NothingShared("tcache_perthread_struct", s) /\ BinsHaveCounters(s)
  <1> DEFINE c == The(s, "counts")
             e == The(s, "entries")
  <1>1. \A name \in {"counts", "entries"} :
          /\ The(s, name) \in s.members
          /\ The(s, name).name = name
          /\ \A m \in s.members : m.name = name => m = The(s, name)
    BY RequiredIsUnique DEF ValidTcache, AllThere
  <1>2. FieldRange(s, c) /\ FieldRange(s, e)
    BY DEF ValidTcache, PointerArray, IntegerArray, Array
  <1>3. Apart(c, e) /\ c.count = e.count
    BY DEF ValidTcache, NoOverlap
  <1>4. Used("tcache_perthread_struct", s) = {c, e}
    BY <1>1 DEF Used, WantedNames
  <1>5. Single("tcache_perthread_struct", s)
    BY <1>1, <1>4 DEF Single
  <1> HIDE DEF c, e
  <1>6. \A m, n \in {c, e} : m # n => Cells(m) \cap Cells(n) = {}
    BY <1>1, <1>2, <1>3, <1>4, ApartInStruct DEF Used
  <1> QED
    BY <1>3, <1>4, <1>5, <1>6 DEF NothingShared, BinsHaveCounters

-----------------------------------------------------------------------------
(* Every cell of an array is a cell of exactly one of its slots.           *)
LEMMA SlotOfCell ==
  ASSUME NEW w \in Nat \ {0}, NEW c \in Nat \ {0}, NEW x \in 0 .. w * c - 1
  PROVE  \E i \in 0 .. c - 1, b \in 0 .. w - 1 : x = i * w + b
  <1> DEFINE i == x \div w
             b == x % w
  <1>1. i \in Nat /\ b \in 0 .. w - 1 /\ x = w * i + b
    OBVIOUS
  <1>2. w * i = i * w /\ w * c = c * w /\ w * c \in Nat
    BY <1>1
  <1> HIDE DEF i, b
  <1>3. i < c
    <2> SUFFICES ASSUME i >= c PROVE FALSE
      BY <1>1
    <2>1. w * i >= w * c
      BY <1>1
    <2> QED
      BY <1>1, <1>2, <2>1
  <1> QED
    BY <1>1, <1>2, <1>3

LEMMA CellOfSlot ==
  ASSUME NEW w \in Nat \ {0}, NEW c \in Nat \ {0},
         NEW i \in 0 .. c - 1, NEW b \in 0 .. w - 1
  PROVE  i * w + b \in 0 .. w * c - 1
  <1>1. i + 1 <= c
    OBVIOUS
  <1>2. (i + 1) * w <= c * w
    BY <1>1
  <1>3. (i + 1) * w = i * w + w /\ c * w = w * c
    OBVIOUS
  <1>4. i * w \in Nat /\ w * c \in Nat
    OBVIOUS
  <1> QED
    BY <1>2, <1>3, <1>4

(* What is read through an array is the array, through a word the word.    *)
LEMMA ArrayReads ==
  ASSUME NEW s, IsStruct(s), NEW m \in s.members, NEW kind, Array(s, m, kind)
  PROVE  ReadThrough(m) = Cells(m)
  <1> DEFINE w == m.width
             c == m.count
             o == m.offset
  <1>1. /\ w \in Nat \ {0} /\ c \in Nat \ {0} /\ o \in Nat
        /\ m.bytes = w * c /\ m.kind = "array"
    <2>1. m.width \in Number /\ m.count \in Number
      BY DEF IsStruct, IsMember, Array
    <2>2. m.offset \in Nat
      BY FieldInStruct DEF Array
    <2> QED
      BY <2>1, <2>2 DEF Array, Number
  <1>2. ReadThrough(m) =
          UNION {{o + i * w + b : b \in 0 .. w - 1} : i \in 0 .. c - 1}
    BY <1>1 DEF ReadThrough
  <1>3. Cells(m) = {o + x : x \in 0 .. w * c - 1}
    BY <1>1 DEF Cells
  <1> HIDE DEF w, c, o
  <1>4. ASSUME NEW x \in 0 .. w * c - 1
        PROVE  \E i \in 0 .. c - 1 : o + x \in {o + i * w + b : b \in 0 .. w - 1}
    <2>1. PICK i \in 0 .. c - 1, b \in 0 .. w - 1 : x = i * w + b
      BY <1>1, SlotOfCell
    <2>2. i * w \in Int
      BY <1>1
    <2>3. o + x = o + i * w + b
      BY <1>1, <2>1, <2>2
    <2> QED
      BY <2>1, <2>3
  <1>5. ASSUME NEW i \in 0 .. c - 1, NEW b \in 0 .. w - 1
        PROVE  o + i * w + b \in {o + x : x \in 0 .. w * c - 1}
    <2>1. i * w + b \in 0 .. w * c - 1
      BY <1>1, CellOfSlot
    <2>2. i * w \in Int
      BY <1>1
    <2>3. o + i * w + b = o + (i * w + b)
      BY <1>1, <2>2
    <2> QED
      BY <2>1, <2>3
  <1>6. \A x \in 0 .. w * c - 1 :
          o + x \in UNION {{o + i * w + b : b \in 0 .. w - 1} : i \in 0 .. c - 1}
    BY <1>4
  <1>7. \A y \in UNION {{o + i * w + b : b \in 0 .. w - 1} : i \in 0 .. c - 1} :
          y \in {o + x : x \in 0 .. w * c - 1}
    BY <1>5
  <1> QED
    BY <1>2, <1>3, <1>6, <1>7

LEMMA WordReads ==
  ASSUME NEW s, NEW m, NEW kind, kind # "array", WordOf(s, kind, m)
  PROVE  ReadThrough(m) = Cells(m)
  BY DEF WordOf, ReadThrough, Cells

(* Every wanted member of a valid structure is a word or an array.         *)
LEMMA ValidUsed ==
  ASSUME NEW t \in TargetSet, NEW s, IsStruct(s), Validates(t, s),
         NEW m \in Used(t, s)
  PROVE  \/ \E kind \in {"pointer", "unsigned"} : WordOf(s, kind, m)
         \/ \E kind \in Kinds : Array(s, m, kind)
  <1> USE DEF Used, WantedNames, AllThere, Pointer, UnsignedWord, PointerArray,
              IntegerArray, Kinds
  <1>1. CASE t = "malloc_state"
    <2>1. ValidMallocState(s)
      BY <1>1 DEF Validates
    <2>2. m \in {The(s, "fastbinsY"), The(s, "top"), The(s, "next")}
      BY <1>1, <2>1, RequiredIsUnique DEF ValidMallocState
    <2> QED
      BY <2>1, <2>2 DEF ValidMallocState
  <1>2. CASE t = "malloc_par"
    <2>1. ValidMallocPar(s)
      BY <1>2 DEF Validates
    <2>2. CASE m.name = "sbrk_base"
      BY <2>1, <2>2, RequiredIsUnique DEF ValidMallocPar
    <2>3. ASSUME NEW n \in {"arena_max", "tcache_bins"}, m.name = n
          PROVE  WordOf(s, "unsigned", m)
      <3>1. m \in Named(s, n)
        BY <2>3 DEF Named
      <3>2. Cardinality(Named(s, n)) = 1 /\ UnsignedWord(s, The(s, n))
        BY <2>1, <2>3, <3>1 DEF ValidMallocPar, OptionalWord
      <3> QED
        BY <2>3, <3>2, RequiredIsUnique
    <2> QED
      BY <1>2, <2>2, <2>3
  <1>3. CASE t = "heap_info"
    <2>1. ValidHeapInfo(s)
      BY <1>3 DEF Validates
    <2>2. m \in {The(s, "ar_ptr"), The(s, "prev"), The(s, "size"), The(s, "mprotect_size")}
      BY <1>3, <2>1, RequiredIsUnique DEF ValidHeapInfo
    <2> QED
      BY <2>1, <2>2 DEF ValidHeapInfo
  <1>4. CASE t = "tcache_perthread_struct"
    <2>1. ValidTcache(s)
      BY <1>4 DEF Validates
    <2>2. m \in {The(s, "counts"), The(s, "entries")}
      BY <1>4, <2>1, RequiredIsUnique DEF ValidTcache
    <2> QED
      BY <2>1, <2>2 DEF ValidTcache
  <1> QED
    BY <1>1, <1>2, <1>3, <1>4 DEF TargetSet

-----------------------------------------------------------------------------
(* Whatever is read through a validated structure lies in the field it was *)
(* declared as and in the structure; except in malloc_par no two fields    *)
(* share a byte; a tcache has as many counters as bins.                    *)
THEOREM ValidatedIsSafe ==
  ASSUME NEW t \in TargetSet, NEW s, IsStruct(s), Validates(t, s)
  PROVE  Safe(t, s)
  <1>1. ReadsInField(t, s)
    <2> SUFFICES ASSUME NEW m \in Used(t, s)
                 PROVE  ReadThrough(m) = Cells(m) /\ Cells(m) \subseteq StructCells(s)
      BY DEF ReadsInField
    <2>1. m \in s.members
      BY DEF Used
    <2>2. CASE \E kind \in {"pointer", "unsigned"} : WordOf(s, kind, m)
      BY <2>1, <2>2, WordReads, FieldInStruct DEF WordOf
    <2>3. CASE \E kind \in Kinds : Array(s, m, kind)
      BY <2>1, <2>3, ArrayReads, FieldInStruct DEF Array
    <2> QED
      BY <2>2, <2>3, ValidUsed
  <1>2. t # "malloc_par" => NothingShared(t, s)
    BY MallocStateShares, HeapInfoShares, TcacheShares DEF Validates, TargetSet
  <1>3. t = "tcache_perthread_struct" => BinsHaveCounters(s)
    BY TcacheShares DEF Validates
  <1> QED
    BY <1>1, <1>2, <1>3 DEF Safe

-----------------------------------------------------------------------------
(* load_sections.  Up to the section looked at, what is kept is what the   *)
(* file has, and what was expanded was granted before.  Only the decoder   *)
(* that is stopped one byte too late holds more, and it is the last.       *)

\* The section is kept as it is in the file.
Kept(n) ==
  LET sec == elf.sections[sections[n].from]
  IN  /\ sections[n].from \in DOMAIN elf.sections
      /\ sec.name = n
      /\ sections[n].bytes = S!Contents(sec)
      /\ sections[n].bytes <= MaxSectionBytes
      /\ sec.start + sec.size <= elf.bytes

Going == status \in {"loading", "loaded"}

SectionsInv ==
  /\ S!IsElf(elf)
  /\ position \in 1 .. Len(elf.sections) + 1
  /\ total \in 0 .. MaxTotalBytes
  /\ expanded \in 0 .. total + 1
  /\ Going =>
       /\ expanded <= total
       /\ {sections[n].from : n \in DOMAIN sections} =
            {i \in S!WantedIn(elf) : i < position}
       /\ \A n \in DOMAIN sections : Kept(n)
  /\ status = "loaded" => position = Len(elf.sections) + 1

LEMMA InitSections == FileInit => SectionsInv
  <1> SUFFICES ASSUME FileInit PROVE SectionsInv
    OBVIOUS
  <1>1. elf \in Elfs /\ S!IsElf(elf) /\ MaxTotalBytes \in Nat
    BY DwarfFileAssumption DEF FileInit, S!ElfsOK
  <1>2. elf.sections \in Seq(S!ToSet(elf.sections))
    BY <1>1 DEF S!IsElf
  <1>3. /\ status = "loading" /\ position = 1 /\ total = 0 /\ expanded = 0
        /\ sections = <<>>
    BY DEF FileInit, S!Begin
  <1>4. DOMAIN sections = {}
    BY <1>3
  <1>5. {i \in S!WantedIn(elf) : i < position} = {}
    BY <1>2, <1>3 DEF S!WantedIn
  <1>6. {sections[n].from : n \in DOMAIN sections} = {}
    BY <1>4
  <1> QED
    BY <1>1, <1>2, <1>3, <1>4, <1>5, <1>6 DEF SectionsInv

(* The section looked at, its cost and what comes out of it.               *)
LEMMA SectionNumbers ==
  ASSUME SectionsInv, S!AtSection
  PROVE  /\ position \in DOMAIN elf.sections
         /\ S!IsSection(S!Section)
         /\ S!Cost \in Nat /\ S!Output \in Nat /\ S!Output <= S!Cost + 1
         /\ S!Expands => S!Output <= S!Cost
         /\ S!Expands => (IF S!Compressed THEN S!Output ELSE S!Section.size) = S!Contents(S!Section)
         /\ S!Expands => S!Contents(S!Section) = S!Cost
  <1>1. elf.sections \in Seq(S!ToSet(elf.sections)) /\ position \in Nat
    BY DEF SectionsInv, S!IsElf
  <1>2. position \in DOMAIN elf.sections
    BY <1>1 DEF SectionsInv, S!AtSection
  <1>3. S!IsSection(S!Section)
    BY <1>2 DEF SectionsInv, S!IsElf, S!Section
  <1>4. AddrMax \in Nat /\ Corrupt \notin Nat
    BY DwarfFileAssumption DEF S!ElfsOK
  <1>5. /\ S!Section.size \in Nat /\ S!Section.declared \in Nat
        /\ S!Section.actual \in Nat \cup {Corrupt}
        /\ S!Section.legacy \in BOOLEAN /\ S!Section.flag \in BOOLEAN
    BY <1>3, <1>4 DEF S!IsSection
  <1> QED
    BY <1>2, <1>3, <1>4, <1>5 DEF S!Cost, S!Output, S!Expands, S!Contents, S!Compressed

LEMMA StepSections == SectionsInv /\ [S!Next]_sectionVars => SectionsInv'
  <1> SUFFICES ASSUME SectionsInv, [S!Next]_sectionVars PROVE SectionsInv'
    OBVIOUS
  <1>1. /\ S!IsElf(elf) /\ elf.sections \in Seq(S!ToSet(elf.sections))
        /\ MaxTotalBytes \in Nat /\ MaxSectionBytes \in Nat
    BY DwarfFileAssumption DEF SectionsInv, S!IsElf, S!ElfsOK
  <1>2. CASE UNCHANGED sectionVars
    BY <1>2 DEF sectionVars, SectionsInv, Going, Kept
  <1>3. CASE S!SkipSection
    <2>1. /\ UNCHANGED <<elf, status, total, expanded, sections>>
          /\ position' = position + 1 /\ status = "loading"
          /\ position <= Len(elf.sections)
      BY <1>3 DEF S!SkipSection, S!AtSection
    <2>2. position \notin S!WantedIn(elf)
      BY <1>3 DEF S!SkipSection, S!WantedIn, S!Section
    <2>3. {i \in S!WantedIn(elf) : i < position + 1} = {i \in S!WantedIn(elf) : i < position}
      BY <1>1, <2>2 DEF SectionsInv, S!WantedIn
    <2> QED
      BY <1>1, <2>1, <2>3 DEF SectionsInv, Going, Kept
  <1>4. CASE S!OutsideFile \/ S!BadHeader \/ S!OverBudget
    <2>1. /\ UNCHANGED <<elf, position, total, expanded, sections>>
          /\ status' \in {"limit", "invalid", "unsupported"}
      BY <1>4 DEF S!OutsideFile, S!BadHeader, S!OverBudget, S!Stop
    <2> QED
      BY <2>1 DEF SectionsInv, Going
  <1>5. CASE S!WrongSize \/ S!Duplicate
    <2>1. /\ UNCHANGED <<elf, position, sections>>
          /\ status' \in {"invalid", "parse"}
          /\ total' = total + S!Cost /\ expanded' = expanded + S!Output
          /\ total + S!Cost <= MaxTotalBytes
          /\ S!AtSection /\ Going
      BY <1>5 DEF S!WrongSize, S!Duplicate, S!Reserved, S!Granted, S!Readable,
                  S!AtWanted, S!AtSection, Going
    <2>2. S!Cost \in Nat /\ S!Output \in Nat /\ S!Output <= S!Cost + 1
      BY <2>1, SectionNumbers
    <2> QED
      BY <1>1, <2>1, <2>2 DEF SectionsInv, Going
  <1>6. CASE S!Load
    <2> DEFINE name == S!Section.name
               b == IF S!Compressed THEN S!Output ELSE S!Section.size
               new == [from |-> position, bytes |-> b]
    <2>1. /\ UNCHANGED <<elf, status>> /\ position' = position + 1
          /\ total' = total + S!Cost /\ expanded' = expanded + S!Output
          /\ total + S!Cost <= MaxTotalBytes /\ S!Cost <= MaxSectionBytes
          /\ S!AtSection /\ Going /\ status = "loading" /\ S!Expands /\ S!InFile
          /\ name \in S!LayoutSections /\ name \notin DOMAIN sections
          /\ position <= Len(elf.sections)
      BY <1>6 DEF S!Load, S!Reserved, S!Granted, S!Readable, S!AtWanted,
                  S!AtSection, Going, S!IsDuplicate
    <2>2. sections' = [n \in DOMAIN sections \cup {name} |->
                         IF n = name THEN new ELSE sections[n]]
      BY <1>6 DEF S!Load
    <2>3. /\ DOMAIN sections' = DOMAIN sections \cup {name}
          /\ sections'[name] = new
          /\ \A n \in DOMAIN sections : sections'[n] = sections[n]
      BY <2>1, <2>2
    <2>4. /\ position \in DOMAIN elf.sections /\ S!Section = elf.sections[position]
          /\ b = S!Contents(S!Section) /\ b <= MaxSectionBytes
          /\ S!Cost \in Nat /\ S!Output \in Nat /\ S!Output <= S!Cost
      BY <1>1, <2>1, SectionNumbers DEF S!Section
    <2>5. name = elf.sections[position].name
      BY <2>4
    <2> HIDE DEF name, b
    <2>6. ASSUME NEW n, n = name PROVE Kept(n)'
      <3>1. /\ sections'[name].from = position /\ sections'[name].bytes = b
        BY <2>3
      <3> QED
        BY <2>1, <2>4, <2>5, <2>6, <3>1 DEF Kept, S!InFile, S!Contents
    <2>7. \A n \in DOMAIN sections : Kept(n)'
      BY <2>1, <2>3 DEF Kept, SectionsInv
    <2>8. {sections'[n].from : n \in DOMAIN sections'} =
            {sections[n].from : n \in DOMAIN sections} \cup {position}
      BY <2>3
    <2>9. {i \in S!WantedIn(elf) : i < position + 1} =
            {i \in S!WantedIn(elf) : i < position} \cup {position}
      BY <1>1, <2>1, <2>4, <2>5 DEF SectionsInv, S!WantedIn
    <2> QED
      <3>1. \A n \in DOMAIN sections' : Kept(n)'
        BY <2>3, <2>6, <2>7
      <3>2. /\ S!IsElf(elf)' /\ position' \in 1 .. Len(elf'.sections) + 1
            /\ total' \in 0 .. MaxTotalBytes
            /\ expanded' \in 0 .. total' + 1 /\ expanded' <= total'
        <4>1. /\ position \in Nat /\ position >= 1 /\ Len(elf.sections) \in Nat
              /\ total \in Nat /\ expanded \in Nat /\ expanded <= total
          BY <1>1, <2>1 DEF SectionsInv
        <4>2. S!IsElf(elf)' /\ elf'.sections = elf.sections
          BY <1>1, <2>1
        <4> QED
          BY <1>1, <2>1, <2>4, <4>1, <4>2
      <3>3. {sections'[n].from : n \in DOMAIN sections'} =
              {i \in S!WantedIn(elf) : i < position'}
        BY <2>1, <2>8, <2>9 DEF SectionsInv
      <3>4. S!WantedIn(elf)' = S!WantedIn(elf)
        BY <2>1
      <3> QED
        BY <2>1, <3>1, <3>2, <3>3, <3>4 DEF SectionsInv
  <1>7. CASE S!Loaded
    <2>1. /\ UNCHANGED <<elf, position, total, expanded, sections>>
          /\ status = "loading" /\ position > Len(elf.sections)
          /\ status' \in {"loaded", "unsupported"}
      BY <1>7 DEF S!Loaded
    <2> QED
      BY <1>1, <2>1 DEF SectionsInv, Going, Kept
  <1> QED
    BY <1>2, <1>3, <1>4, <1>5, <1>6, <1>7 DEF S!Next

(* What a step of the whole does to the sections.                          *)
LEMMA SectionSteps == [FileNext]_<<vars, sectionVars, typeVars>> => [S!Next]_sectionVars
  BY DEF FileNext, LoadSections, Scan, ReadType, TypeRead

(* The reader works on the sections of the file, each once, whole and as   *)
(* large as it claims to be, and never expands more than its budget but    *)
(* for one byte (dwarf.rs, load_sections), whatever the file claims.       *)
THEOREM SectionsAlwaysWhole == FileSpec => []SectionsAreWhole
  <1>1. SectionsInv => SectionsAreWhole
    <2> SUFFICES ASSUME SectionsInv PROVE SectionsAreWhole
      OBVIOUS
    <2>1. expanded <= MaxTotalBytes + 1 /\ MaxTotalBytes \in Nat
      BY DwarfFileAssumption DEF SectionsInv, S!ElfsOK
    <2>2. ASSUME status = "loaded"
          PROVE  /\ expanded <= MaxTotalBytes
                 /\ {sections[n].from : n \in DOMAIN sections} = S!WantedIn(elf)
                 /\ \A n \in DOMAIN sections : Kept(n)
      <3>1. elf.sections \in Seq(S!ToSet(elf.sections))
        BY DEF SectionsInv, S!IsElf
      <3>2. {i \in S!WantedIn(elf) : i < position} = S!WantedIn(elf)
        BY <2>2, <3>1 DEF SectionsInv, S!WantedIn
      <3> QED
        BY <2>1, <2>2, <3>2 DEF SectionsInv, Going
    <2> QED
      BY <2>1, <2>2 DEF SectionsAreWhole, S!SectionsAreWhole, Kept
  <1>2. SectionsInv /\ [FileNext]_<<vars, sectionVars, typeVars>> => SectionsInv'
    BY SectionSteps, StepSections
  <1> QED
    BY <1>1, <1>2, InitSections, PTL DEF FileSpec

-----------------------------------------------------------------------------
(* What is read of a definition is a structure: numbers that the machine   *)
(* has, and members of the kinds there are.                                *)

\* Induction over the numbers, for a set.
LEMMA NatSetInduction ==
  ASSUME NEW P, 0 \in P, \A n \in Nat : n \in P => n + 1 \in P
  PROVE  Nat \subseteq P
  <1> DEFINE R == OpToRel(<, Nat)
             bad == {n \in Nat : n \notin P}
  <1> SUFFICES ASSUME bad # {} PROVE FALSE
    OBVIOUS
  <1>1. PICK x \in bad : \A y \in bad : <<y, x>> \notin R
    <2> HIDE DEF R
    <2>1. IsWellFoundedOn(R, Nat)
      BY NatLessThanWellFounded DEF R
    <2> QED
      BY <2>1, WFMin
  <1>2. x \in Nat /\ x \notin P /\ x # 0
    BY <1>1
  <1>3. x - 1 \in Nat /\ (x - 1) + 1 = x /\ x - 1 < x
    BY <1>2
  <1>4. <<x - 1, x>> \in R
    BY <1>2, <1>3 DEF OpToRel
  <1>5. x - 1 \in P
    BY <1>1, <1>3, <1>4
  <1> QED
    BY <1>2, <1>3, <1>5

Size == Number \cup {Unknown}

LEMMA TimesType == ASSUME NEW m \in Size, NEW n \in Size PROVE T!Times(m, n) \in Size
  <1>1. AddrMax \in Nat
    BY DwarfLayoutAssumption
  <1>2. CASE m \in Nat /\ n \in Nat
    <2>1. m * n \in Nat
      BY <1>2
    <2> QED
      BY <1>1, <2>1 DEF T!Times, Size, Number
  <1> QED
    BY <1>1, <1>2 DEF T!Times, Size, Number

\* The recursion of ElementCount, up to the n-th child.
IsProduct(f, die, n) ==
  f = [i \in 0 .. n |->
         IF i = 0 THEN 1
         ELSE IF i \in T!Subranges(die) THEN T!Times(f[i - 1], T!Length(die.children[i]))
         ELSE f[i - 1]]

LEMMA ProductType ==
  ASSUME NEW die, NEW n \in Nat,
         \A i \in T!Subranges(die) : T!Length(die.children[i]) \in Size
  PROVE  /\ \E f : IsProduct(f, die, n)
         /\ \A f : IsProduct(f, die, n) => f[n] \in Size
  <1>1. 1 \in Size
    BY DwarfLayoutAssumption DEF Size, Number
  <1>2. n \in {m \in Nat : \E f : IsProduct(f, die, m)}
    <2> DEFINE P == {m \in Nat : \E f : IsProduct(f, die, m)}
    <2>1. 0 \in P
      <3>1. IsProduct([i \in 0 .. 0 |-> 1], die, 0)
        BY DEF IsProduct
      <3> QED
        BY <3>1
    <2>2. ASSUME NEW m \in Nat, m \in P PROVE m + 1 \in P
      <3>1. PICK f : IsProduct(f, die, m)
        BY <2>2
      <3> DEFINE last == IF m + 1 \in T!Subranges(die)
                           THEN T!Times(f[m], T!Length(die.children[m + 1])) ELSE f[m]
                 g == [i \in 0 .. m + 1 |-> IF i = m + 1 THEN last ELSE f[i]]
      <3>2. \A i \in 0 .. m : g[i] = f[i]
        OBVIOUS
      <3>3. \A i \in 0 .. m :
              f[i] = IF i = 0 THEN 1
                     ELSE IF i \in T!Subranges(die)
                            THEN T!Times(f[i - 1], T!Length(die.children[i]))
                     ELSE f[i - 1]
        BY <3>1 DEF IsProduct
      <3> HIDE DEF last
      <3>4. ASSUME NEW i \in 0 .. m + 1
            PROVE  g[i] = IF i = 0 THEN 1
                          ELSE IF i \in T!Subranges(die)
                                 THEN T!Times(g[i - 1], T!Length(die.children[i]))
                          ELSE g[i - 1]
        <4>1. CASE i = m + 1
          <5>1. g[i] = last /\ i # 0 /\ i - 1 = m /\ g[m] = f[m]
            BY <4>1, <3>2
          <5> HIDE DEF g
          <5> QED
            BY <4>1, <5>1 DEF last
        <4>2. CASE i \in 0 .. m
          <5>1. g[i] = f[i] /\ (i # 0 => i - 1 \in 0 .. m /\ g[i - 1] = f[i - 1])
            BY <4>2, <3>2
          <5> HIDE DEF g
          <5> QED
            BY <4>2, <5>1, <3>3
        <4> QED
          BY <4>1, <4>2
      <3>5. DOMAIN g = 0 .. m + 1 /\ g = [i \in DOMAIN g |-> g[i]]
        OBVIOUS
      <3> HIDE DEF g
      <3>6. IsProduct(g, die, m + 1)
        BY <3>4, <3>5 DEF IsProduct
      <3> QED
        BY <3>6
    <2> HIDE DEF P
    <2>3. Nat \subseteq P
      BY <2>1, <2>2, NatSetInduction
    <2> QED
      BY <2>3 DEF P
  <1>3. ASSUME NEW f, IsProduct(f, die, n) PROVE f[n] \in Size
    <2> DEFINE P == {m \in Nat : m <= n => f[m] \in Size}
    <2>1. \A i \in 0 .. n :
            f[i] = IF i = 0 THEN 1
                   ELSE IF i \in T!Subranges(die)
                          THEN T!Times(f[i - 1], T!Length(die.children[i]))
                   ELSE f[i - 1]
      BY <1>3 DEF IsProduct
    <2>2. 0 \in P
      BY <1>1, <2>1
    <2>3. ASSUME NEW m \in Nat, m \in P PROVE m + 1 \in P
      <3> SUFFICES ASSUME m + 1 <= n PROVE f[m + 1] \in Size
        OBVIOUS
      <3>1. f[m] \in Size /\ m + 1 \in 0 .. n /\ m + 1 # 0 /\ (m + 1) - 1 = m
        BY <2>3
      <3>2. f[m + 1] = IF m + 1 \in T!Subranges(die)
                         THEN T!Times(f[m], T!Length(die.children[m + 1])) ELSE f[m]
        BY <2>1, <3>1
      <3> QED
        BY <3>1, <3>2, TimesType
    <2> HIDE DEF P
    <2>4. n \in P
      BY <2>2, <2>3, NatSetInduction
    <2> QED
      BY <2>4 DEF P
  <1> QED
    BY <1>2, <1>3

IsDieOf(die) ==
  /\ die.children \in Seq(T!ToSet(die.children))
  /\ \A i \in DOMAIN die.children : T!IsChild(die.children[i])

LEMMA LengthType ==
  ASSUME NEW c, c.tag = "subrange", T!IsChild(c), ~ T!Contradicts(c), ~ T!IsOpenEnded(c)
  PROVE  T!Length(c) \in Size
  BY DEF T!IsChild, T!Contradicts, T!IsOpenEnded, T!Length,
         T!Number, Number, Size

LEMMA ElementCountType ==
  ASSUME NEW die, IsDieOf(die), ~ T!Invalid(die)
  PROVE  T!ElementCount(die) \in Size
  <1>1. CASE T!Subranges(die) = {} \/ T!OpenDimensions(die) # {}
    BY <1>1 DEF T!ElementCount, Size
  <1>2. CASE T!OpenDimensions(die) = {} /\ T!Subranges(die) # {}
    <2>1. \A i \in T!Subranges(die) : T!Length(die.children[i]) \in Size
      <3> SUFFICES ASSUME NEW i \in T!Subranges(die)
                   PROVE  T!Length(die.children[i]) \in Size
        OBVIOUS
      <3>1. T!IsChild(die.children[i]) /\ die.children[i].tag = "subrange"
        BY DEF IsDieOf, T!Subranges
      <3>2. ~ T!Contradicts(die.children[i])
        BY <1>2 DEF T!Invalid
      <3>3. ~ T!IsOpenEnded(die.children[i])
        BY <1>2 DEF T!OpenDimensions
      <3> QED
        BY <3>1, <3>2, <3>3, LengthType
    <2>2. Len(die.children) \in Nat
      BY DEF IsDieOf
    <2> DEFINE product == CHOOSE f : IsProduct(f, die, Len(die.children))
    <2>3. T!ElementCount(die) = product[Len(die.children)]
      BY <1>2 DEF T!ElementCount, IsProduct
    <2>4. IsProduct(product, die, Len(die.children))
      BY <2>1, <2>2, ProductType
    <2> HIDE DEF product
    <2> QED
      BY <2>1, <2>2, <2>3, <2>4, ProductType
  <1> QED
    BY <1>1, <1>2

IsType(ty) ==
  /\ ty.kind \in Kinds /\ ty.elem \in Kinds \cup {"none"}
  /\ ty.bytes \in Size /\ ty.width \in Size /\ ty.count \in Size

LEMMA LeafTypeIsType ==
  ASSUME NEW die, die.tag \in T!Tags \ {"alias", "array"}, die.size \in Size
  PROVE  IsType(T!LeafType(die))
  <1>1. T!KindOf(die) \in Kinds
    BY DEF T!KindOf, T!Tags, Kinds
  <1>2. Word \in Size /\ Unknown \in Size
    BY DwarfLayoutAssumption DEF Size, Number
  <1> DEFINE bytes == IF die.tag = "pointer" /\ die.size = Unknown THEN Word ELSE die.size
  <1>3. bytes \in Size
    BY <1>2
  <1>4. /\ T!LeafType(die).kind = T!KindOf(die) /\ T!LeafType(die).bytes = bytes
        /\ T!LeafType(die).elem = "none"
        /\ T!LeafType(die).width = Unknown /\ T!LeafType(die).count = Unknown
    BY DEF T!LeafType, T!NoType
  <1> HIDE DEF bytes
  <1> QED
    BY <1>1, <1>2, <1>3, <1>4 DEF IsType

LEMMA ArrayTypeIsType ==
  ASSUME NEW die, IsDieOf(die), ~ T!Invalid(die), die.size \in Size,
         NEW ty, IsType(ty)
  PROVE  IsType(T!ArrayType(die, ty))
  <1>1. T!ElementCount(die) \in Size
    BY ElementCountType
  <1> DEFINE bytes == IF die.size # Unknown THEN die.size
                      ELSE T!Times(ty.bytes, T!ElementCount(die))
  <1>2. bytes \in Size
    BY <1>1, TimesType DEF IsType
  <1>3. T!ArrayType(die, ty) =
          [kind |-> "array", bytes |-> bytes, elem |-> ty.kind, width |-> ty.bytes,
           count |-> T!ElementCount(die)]
    BY DEF T!ArrayType
  <1> HIDE DEF bytes
  <1> QED
    BY <1>1, <1>2, <1>3 DEF IsType, Kinds

\* The structure whose members are read.
OwnerIsThere == owner.at \in DOMAIN info.dies /\ T!Die(owner).size \in Number

IsSequence(s) == \E N : s \in Seq(N)

LEMMA AppendIsSequence ==
  ASSUME NEW s, IsSequence(s), NEW e
  PROVE  /\ IsSequence(Append(s, e))
         /\ Len(s) \in Nat /\ Len(Append(s, e)) = Len(s) + 1
         /\ \A i \in 1 .. Len(s) + 1 : Append(s, e)[i] = IF i = Len(s) + 1 THEN e ELSE s[i]
  <1>1. PICK N : s \in Seq(N)
    BY DEF IsSequence
  <1>2. s \in Seq(N \cup {e})
    BY <1>1
  <1>3. Append(s, e) \in Seq(N \cup {e})
    BY <1>2
  <1> QED
    BY <1>2, <1>3 DEF IsSequence

LEMMA AppendRange ==
  ASSUME NEW s, IsSequence(s), NEW e, NEW r, r = Append(s, e)
  PROVE  {r[i] : i \in 1 .. Len(r)} = {s[i] : i \in 1 .. Len(s)} \cup {e}
  <1>1. /\ Len(s) \in Nat /\ Len(r) = Len(s) + 1
        /\ \A i \in 1 .. Len(s) + 1 : r[i] = IF i = Len(s) + 1 THEN e ELSE s[i]
    BY AppendIsSequence
  <1> DEFINE n == Len(s)
  <1>2. n \in Nat /\ Len(r) = n + 1 /\ Len(s) = n
    BY <1>1
  <1>3. (\A i \in 1 .. n : r[i] = s[i]) /\ r[n + 1] = e
    BY <1>1
  <1> HIDE DEF n
  <1>4. 1 .. n + 1 = (1 .. n) \cup {n + 1}
    BY <1>2
  <1> QED
    BY <1>2, <1>3, <1>4

LEMMA FrontIsSequence ==
  ASSUME NEW s, IsSequence(s), s # <<>>
  PROVE  /\ IsSequence(T!Front(s))
         /\ Len(s) \in Nat \ {0} /\ Len(T!Front(s)) = Len(s) - 1
         /\ \A i \in 1 .. Len(s) - 1 : T!Front(s)[i] = s[i]
  <1>1. PICK N : s \in Seq(N)
    BY DEF IsSequence
  <1>2. Len(s) \in Nat \ {0}
    BY <1>1
  <1> DEFINE n == Len(s) - 1
  <1>3. /\ SubSeq(s, 1, n) \in Seq(N)
        /\ Len(SubSeq(s, 1, n)) = n
    <2>1. n \in Nat /\ n <= Len(s) /\ (1 <= n => n \in 1 .. Len(s))
      BY <1>2
    <2> HIDE DEF n
    <2> QED
      BY <1>1, <2>1
  <1>4. \A i \in 1 .. Len(s) - 1 : SubSeq(s, 1, Len(s) - 1)[i] = s[i]
    BY <1>1, <1>2
  <1>5. T!Front(s) = SubSeq(s, 1, Len(s) - 1)
    BY DEF T!Front
  <1>6. IsSequence(T!Front(s))
    BY <1>3, <1>5 DEF IsSequence
  <1> QED
    BY <1>2, <1>3, <1>4, <1>5, <1>6

TypesInv ==
  /\ T!IsInfo(info)
  /\ child \in Nat \ {0}
  /\ what \in {"none", "parsed", "broken", "limit"}
  /\ step = "done" => what # "none"
  /\ step \in {"members", "type", "unwind"} \/ what = "parsed" => OwnerIsThere
  /\ step \in {"type", "unwind"} =>
       child <= Len(T!Die(owner).children) /\ T!IsWanted(T!Child)
  /\ IsSequence(open)
  /\ \A i \in 1 .. Len(open) : open[i].at \in DOMAIN info.dies
  /\ step = "unwind" => IsType(type)
  /\ IsFiniteSet(members) /\ \A m \in members : IsMember(m)

LEMMA InitTypes == FileInit => TypesInv
  <1> SUFFICES ASSUME FileInit PROVE TypesInv
    OBVIOUS
  <1>1. T!IsInfo(info)
    BY DwarfFileAssumption DEF FileInit, T!InfosOK
  <1>2. /\ step = "structure" /\ child = 1 /\ what = "none"
        /\ open = <<>> /\ members = {}
    BY DEF FileInit, T!Begin
  <1>3. IsFiniteSet({}) /\ open \in Seq({}) /\ Len(open) = 0
    BY <1>2, FS_EmptySet
  <1>4. IsSequence(open)
    BY <1>3 DEF IsSequence
  <1> QED
    BY <1>1, <1>2, <1>3, <1>4 DEF TypesInv

(* A DIE that is there has the attributes of one.                          *)
LEMMA DieThere ==
  ASSUME T!IsInfo(info), NEW n, n.at \in DOMAIN info.dies
  PROVE  IsDieOf(T!Die(n)) /\ T!Die(n).size \in Size
  BY DEF T!IsInfo, T!Die, IsDieOf, Size, T!Number, Number

LEMMA MemberIsMember ==
  ASSUME NEW c, T!IsChild(c), c.tag = "member", NEW ty, IsType(ty)
  PROVE  IsMember(T!MemberOf(c, ty))
  BY DEF T!IsChild, T!MemberOf, IsMember, IsType, Size, T!Number, Number

LEMMA StepTypes == TypesInv /\ [T!Next]_typeVars => TypesInv'
  <1> SUFFICES ASSUME TypesInv, [T!Next]_typeVars PROVE TypesInv'
    OBVIOUS
  <1>1. CASE UNCHANGED typeVars
    <2>1. UNCHANGED <<info, step, owner, child, open, type, members, what>>
      BY <1>1 DEF typeVars
    <2>2. /\ T!Die(owner)' = T!Die(owner)
          /\ T!Child' = T!Child /\ T!IsWanted(T!Child)' = T!IsWanted(T!Child)
          /\ OwnerIsThere' = OwnerIsThere
      BY <2>1 DEF OwnerIsThere, T!Die, T!Child, T!IsWanted
    <2> QED
      BY <2>1, <2>2 DEF TypesInv
  <1>2. CASE \/ T!TooDeep \/ T!Cycle \/ T!NoEntry \/ T!BadReference \/ T!NotAStructure
             \/ T!Incomplete \/ T!BadName \/ T!BadMember \/ T!BadDimensions
             \/ T!StructureRead
    <2>1. /\ UNCHANGED <<info, owner, child, open, type, members>>
          /\ step' = "done"
          /\ \/ what' \in {"limit", "broken"}
             \/ what' = "parsed" /\ step = "members"
      BY <1>2 DEF T!TooDeep, T!Cycle, T!NoEntry, T!BadReference, T!NotAStructure,
                  T!Incomplete, T!BadName, T!BadMember, T!BadDimensions,
                  T!StructureRead, T!Stop
    <2> QED
      BY <2>1 DEF TypesInv, OwnerIsThere, T!Die
  <1>3. CASE T!Follow
    <2>1. /\ UNCHANGED <<info, step, owner, child, type, members, what>>
          /\ open' = open \/ open' = Append(open, at)
          /\ at.at \in DOMAIN info.dies
          /\ step \in {"structure", "type"}
      BY <1>3 DEF T!Follow, T!Refers, T!At, T!Fresh, T!Exists, T!Chasing
    <2>2. /\ IsSequence(open')
          /\ \A i \in 1 .. Len(open') : open'[i].at \in DOMAIN info.dies
      <3>1. CASE open' = open
        BY <3>1 DEF TypesInv
      <3>2. CASE open' = Append(open, at)
        BY <2>1, <3>2, AppendIsSequence DEF TypesInv
      <3> QED
        BY <2>1, <3>1, <3>2
    <2>3. /\ T!Die(owner)' = T!Die(owner)
          /\ T!Child' = T!Child /\ T!IsWanted(T!Child)' = T!IsWanted(T!Child)
          /\ OwnerIsThere' = OwnerIsThere
      BY <2>1 DEF OwnerIsThere, T!Die, T!Child, T!IsWanted
    <2> QED
      BY <2>1, <2>2, <2>3 DEF TypesInv
  <1>4. CASE T!StartMembers
    <2>1. /\ UNCHANGED <<info, child, open, members, what>>
          /\ owner' = at /\ step' = "members"
          /\ at.at \in DOMAIN info.dies /\ T!Die(at).size # Unknown
      BY <1>4 DEF T!StartMembers, T!At, T!Fresh, T!Exists, T!IsComplete
    <2>2. T!Die(at).size \in Number
      BY <2>1, DieThere DEF TypesInv, Size
    <2>3. OwnerIsThere'
      BY <2>1, <2>2 DEF OwnerIsThere, T!Die
    <2> QED
      BY <2>1, <2>3 DEF TypesInv
  <1>5. CASE T!SkipChild \/ T!StartType
    <2>1. /\ UNCHANGED <<info, owner, open, type, members, what>>
          /\ \/ step' = "members" /\ child' = child + 1
             \/ step' = "type" /\ child' = child /\ T!IsWanted(T!Child)
          /\ step = "members" /\ child <= Len(T!Die(owner).children)
      BY <1>5 DEF T!SkipChild, T!StartType, T!AtChild
    <2>2. OwnerIsThere'
      BY <2>1 DEF TypesInv, OwnerIsThere, T!Die
    <2>3. /\ T!Die(owner)' = T!Die(owner)
          /\ child' = child => T!Child' = T!Child /\ T!IsWanted(T!Child)' = T!IsWanted(T!Child)
      BY <2>1 DEF T!Die, T!Child, T!IsWanted
    <2> QED
      BY <2>1, <2>2, <2>3 DEF TypesInv
  <1>6. CASE T!Leaf \/ T!CloseArray
    <2>1. /\ UNCHANGED <<info, owner, child, members, what>>
          /\ step' = "unwind" /\ step \in {"type", "unwind"}
      BY <1>6 DEF T!Leaf, T!CloseArray
    <2>2. /\ T!Die(owner)' = T!Die(owner) /\ OwnerIsThere'
          /\ T!Child' = T!Child /\ T!IsWanted(T!Child)' = T!IsWanted(T!Child)
      BY <2>1 DEF TypesInv, OwnerIsThere, T!Die, T!Child, T!IsWanted
    <2>3. CASE T!Leaf
      <3>1. /\ open' = open /\ type' = T!LeafType(T!Die(at))
            /\ at.at \in DOMAIN info.dies
            /\ T!Die(at).tag \in T!Tags \ {"alias", "array"}
        BY <2>3 DEF T!Leaf, T!At, T!Fresh, T!Exists
      <3>2. IsType(type')
        BY <3>1, DieThere, LeafTypeIsType DEF TypesInv
      <3> QED
        BY <2>1, <2>2, <3>1, <3>2 DEF TypesInv
    <2>4. CASE T!CloseArray
      <3>1. /\ open # <<>> /\ open' = T!Front(open)
            /\ type' = T!ArrayType(T!Die(T!Last(open)), type)
            /\ ~ T!Invalid(T!Die(T!Last(open))) /\ step = "unwind"
        BY <2>4 DEF T!CloseArray
      <3>2. /\ Len(open) \in Nat \ {0} /\ IsSequence(open') /\ Len(open') = Len(open) - 1
            /\ \A i \in 1 .. Len(open') : open'[i] = open[i]
        BY <3>1, FrontIsSequence DEF TypesInv
      <3>3. T!Last(open).at \in DOMAIN info.dies
        BY <3>2 DEF T!Last, TypesInv
      <3>4. IsType(type')
        BY <3>1, <3>3, DieThere, ArrayTypeIsType DEF TypesInv
      <3>5. \A i \in 1 .. Len(open') : open'[i].at \in DOMAIN info.dies
        BY <3>2 DEF TypesInv
      <3> QED
        BY <2>1, <2>2, <3>2, <3>4, <3>5 DEF TypesInv
    <2> QED
      BY <1>6, <2>3, <2>4
  <1>7. CASE T!AddMember
    <2>1. /\ UNCHANGED <<info, owner, open, what>>
          /\ step' = "members" /\ step = "unwind" /\ child' = child + 1
          /\ members' = members \cup {T!MemberOf(T!Child, type)}
      BY <1>7 DEF T!AddMember
    <2>2. OwnerIsThere'
      BY <2>1 DEF TypesInv, OwnerIsThere, T!Die
    <2>3. T!IsChild(T!Child) /\ T!Child.tag = "member"
      <3>1. IsDieOf(T!Die(owner))
        BY <2>1, DieThere DEF TypesInv, OwnerIsThere
      <3> QED
        BY <2>1, <3>1 DEF TypesInv, IsDieOf, T!Child, T!IsWanted
    <2>4. IsMember(T!MemberOf(T!Child, type))
      BY <2>1, <2>3, MemberIsMember DEF TypesInv
    <2>5. IsFiniteSet(members')
      BY <2>1, FS_AddElement DEF TypesInv
    <2> QED
      BY <2>1, <2>2, <2>4, <2>5 DEF TypesInv
  <1> QED
    BY <1>1, <1>2, <1>3, <1>4, <1>5, <1>6, <1>7 DEF T!Next

(* What a step of the whole does to the reading of a definition.           *)
LEMMA TypeSteps == [FileNext]_<<vars, sectionVars, typeVars>> => [T!Next]_typeVars
  BY DEF FileNext, LoadSections, Scan, ReadType, TypeRead

-----------------------------------------------------------------------------
(* A definition is read as what it means.  References first: a reader that *)
(* takes the last unit in front finds what a reference names.              *)
LEMMA GreatestOf ==
  ASSUME NEW n \in Nat, NEW Given \in SUBSET (1 .. n), Given # {}
  PROVE  \E x \in Given : \A y \in Given : x >= y
  <1> DEFINE P == {m \in Nat : \A R \in SUBSET (1 .. m) :
                                 R # {} => \E x \in R : \A y \in R : x >= y}
  <1>1. 0 \in P
    <2>1. \A R \in SUBSET (1 .. 0) : R = {}
      OBVIOUS
    <2> QED
      BY <2>1
  <1>2. ASSUME NEW m \in Nat, m \in P PROVE m + 1 \in P
    <2> SUFFICES ASSUME NEW R \in SUBSET (1 .. m + 1), R # {}
                 PROVE  \E x \in R : \A y \in R : x >= y
      OBVIOUS
    <2>1. CASE m + 1 \in R
      BY <2>1
    <2>2. CASE m + 1 \notin R
      <3>1. R \in SUBSET (1 .. m)
        BY <2>2
      <3> QED
        BY <1>2, <3>1
    <2> QED
      BY <2>1, <2>2
  <1> HIDE DEF P
  <1>3. n \in P
    BY <1>1, <1>2, NatSetInduction
  <1> QED
    BY <1>3 DEF P

LEMMA UnitsAre ==
  ASSUME T!IsInfo(info)
  PROVE  /\ Len(info.units) \in Nat /\ DOMAIN info.units = 1 .. Len(info.units)
         /\ \A v \in DOMAIN info.units :
              info.units[v].start \in Nat /\ info.units[v].stop \in Nat
  <1>1. info.units \in Seq([start : Nat, stop : Nat])
    BY DEF T!IsInfo
  <1>2. \A v \in DOMAIN info.units : info.units[v] \in [start : Nat, stop : Nat]
    <2> DEFINE us == info.units
               U == [start : Nat, stop : Nat]
    <2>1. us \in Seq(U)
      BY <1>1
    <2> HIDE DEF us, U
    <2>2. \A v \in DOMAIN us : us[v] \in U
      BY <2>1
    <2> QED
      BY <2>2 DEF us, U
  <1> QED
    BY <1>1, <1>2

LEMMA UnitAtIs ==
  ASSUME T!IsInfo(info), NEW a \in Nat
  PROVE  /\ \A v \in DOMAIN info.units : T!Within(info, v, a) => T!UnitAt(a) = v
         /\ T!UnitAt(a) # 0 => T!UnitAt(a) \in DOMAIN info.units /\ T!Within(info, T!UnitAt(a), a)
  <1> DEFINE n == Len(info.units)
             before == {v \in DOMAIN info.units : info.units[v].start <= a}
  <1>1. /\ n \in Nat /\ DOMAIN info.units = 1 .. n
        /\ \A v \in 1 .. n : info.units[v].start \in Nat /\ info.units[v].stop \in Nat
        /\ \A v, w \in 1 .. n : v < w => info.units[v].stop <= info.units[w].start
    BY UnitsAre DEF T!IsInfo
  <1>2. before \in SUBSET (1 .. n)
    BY <1>1
  <1>3. T!UnitAt(a) = IF before # {} /\ T!Within(info, T!Max(before), a)
                        THEN T!Max(before) ELSE 0
    BY DEF T!UnitAt, T!InUnit, T!Within
  <1>4. before # {} => T!Max(before) \in before /\ \A v \in before : T!Max(before) >= v
    <2> HIDE DEF before, n
    <2> SUFFICES ASSUME before # {}
                 PROVE  T!Max(before) \in before /\ \A v \in before : T!Max(before) >= v
      OBVIOUS
    <2>1. \E x \in before : \A y \in before : x >= y
      BY <1>1, <1>2, GreatestOf
    <2> QED
      BY <2>1 DEF T!Max
  <1>5. ASSUME NEW v \in DOMAIN info.units, T!Within(info, v, a)
        PROVE  T!UnitAt(a) = v
    <2>1. v \in before /\ v \in 1 .. n
      BY <1>1, <1>5 DEF T!Within
    <2>2. T!Max(before) \in 1 .. n /\ T!Max(before) >= v
          /\ info.units[T!Max(before)].start <= a
      BY <1>1, <1>4, <2>1
    <2> HIDE DEF before, n
    <2>3. ~ v < T!Max(before)
      BY <1>1, <1>5, <2>1, <2>2 DEF T!Within
    <2>4. T!Max(before) = v
      BY <1>1, <2>1, <2>2, <2>3
    <2> QED
      BY <1>3, <1>5, <2>1, <2>4
  <1>6. T!UnitAt(a) # 0 => T!UnitAt(a) \in DOMAIN info.units /\ T!Within(info, T!UnitAt(a), a)
    BY <1>3, <1>4
  <1> QED
    BY <1>5, <1>6

LEMMA LeadsThere ==
  ASSUME T!IsInfo(info), NEW v \in DOMAIN info.units, NEW ref, ref.to \in Nat,
         NEW n, T!Leads(info, v, ref, n)
  PROVE  T!Referent(v, ref) = n /\ n # T!NoNode
  <1>1. v # 0
    BY UnitsAre
  <1>2. CASE ref.form = "unit"
    BY <1>1, <1>2 DEF T!Leads, T!Referent, T!NoNode
  <1>3. CASE ref.form = "info"
    <2>1. PICK w \in DOMAIN info.units :
            T!Within(info, w, ref.to) /\ n = [unit |-> w, at |-> ref.to]
      BY <1>3 DEF T!Leads
    <2>2. T!UnitAt(ref.to) = w /\ w # 0
      BY <2>1, UnitAtIs, UnitsAre
    <2>3. T!Referent(v, ref) = [unit |-> T!UnitAt(ref.to), at |-> ref.to]
      BY <1>3, <2>2 DEF T!Referent
    <2> QED
      BY <2>1, <2>2, <2>3 DEF T!NoNode
  <1> QED
    BY <1>2, <1>3 DEF T!Leads

LEMMA DanglesIs ==
  ASSUME T!IsInfo(info), NEW v \in DOMAIN info.units, NEW ref, ref.to \in Nat
  PROVE  T!Dangles(info, ref) <=> T!Referent(v, ref) = T!NoNode
  <1>1. ASSUME ~ T!Dangles(info, ref) PROVE T!Referent(v, ref) # T!NoNode
    <2>1. \E n : T!Leads(info, v, ref, n)
      BY <1>1 DEF T!Dangles, T!Leads
    <2> QED
      BY <2>1, LeadsThere
  <1>2. ASSUME T!Dangles(info, ref) PROVE T!Referent(v, ref) = T!NoNode
    <2>1. ref.form # "unit"
      BY <1>2 DEF T!Dangles
    <2>2. ref.form = "info" => T!UnitAt(ref.to) = 0
      BY <1>2, UnitAtIs DEF T!Dangles
    <2> QED
      BY <2>1, <2>2 DEF T!Referent
  <1> QED
    BY <1>1, <1>2

(* Following a path, visited is what is behind and at the node ahead.      *)
Upon(p) ==
  /\ IsSequence(visited)
  /\ Len(visited) < Len(p)
  /\ \A j \in 1 .. Len(visited) : visited[j] = p[j]
  /\ at = p[Len(visited) + 1]

LEMMA OnPath ==
  ASSUME T!IsInfo(info), NEW p, NEW tags, T!IsWholePath(info, p, tags), Upon(p)
  PROVE  /\ Len(visited) \in Nat
         /\ Len(visited) >= MaxDepth => T!Exceeds(p)
         /\ Len(visited) < MaxDepth /\ at \in T!ToSet(visited) => T!Sticks(info, p, tags)
         /\ Len(visited) < MaxDepth /\ at \notin T!ToSet(visited) =>
              /\ ~ T!Exists(at) => T!Sticks(info, p, tags)
              /\ T!Exists(at) /\ T!Die(at).tag \in tags =>
                   IF T!Next1(at) = T!NoNode THEN T!Sticks(info, p, tags)
                   ELSE /\ Len(visited) + 1 < Len(p)
                        /\ T!Next1(at) = p[Len(visited) + 2]
              /\ T!Exists(at) /\ T!Die(at).tag \notin tags =>
                   /\ Len(p) = Len(visited) + 1 /\ at = T!Last(p)
                   /\ T!Arrives(info, p, tags)
  <1> DEFINE v == Len(visited)
  <1>1. v \in Nat /\ Len(p) \in Nat /\ v < Len(p) /\ MaxDepth \in Nat
        /\ p \in Seq(T!Nodes(info)) /\ at = p[v + 1]
        /\ T!ToSet(visited) = {p[j] : j \in 1 .. v}
    <2>1. PICK N : visited \in Seq(N)
      BY DEF Upon, IsSequence
    <2>2. v \in Nat /\ DOMAIN visited = 1 .. v /\ \A j \in 1 .. v : visited[j] = p[j]
      BY <2>1 DEF Upon
    <2>3. T!ToSet(visited) = {p[j] : j \in 1 .. v}
      BY <2>2 DEF T!ToSet
    <2> QED
      BY <2>2, <2>3, DwarfFileAssumption DEF Upon, T!IsWholePath, T!IsPath, T!InfosOK
  <1>2. at \in T!Nodes(info) /\ at.unit \in DOMAIN info.units
    <2>1. v + 1 \in 1 .. Len(p)
      BY <1>1
    <2> HIDE DEF v
    <2>2. at \in T!Nodes(info)
      BY <1>1, <2>1
    <2> QED
      BY <2>2 DEF T!Nodes
  <1>3. /\ T!Exists(at) <=> T!HasDie(info, at)
        /\ T!Die(at) = info.dies[at.at]
        /\ T!Next1(at) = T!Referent(at.unit, T!Die(at).type)
    BY DEF T!Exists, T!HasDie, T!InUnit, T!Within, T!Die, T!Next1
  <1>4. T!Exists(at) => T!Die(at).type.to \in Nat
    BY <1>3 DEF T!HasDie, T!IsInfo
  <1>5. v + 1 < Len(p) =>
          /\ T!HasDie(info, at) /\ T!Die(at).tag \in tags
          /\ T!Leads(info, at.unit, T!Die(at).type, p[v + 2])
          /\ \A i \in 1 .. v : p[i] # at
    <2> SUFFICES ASSUME v + 1 < Len(p)
                 PROVE  /\ T!HasDie(info, at) /\ T!Die(at).tag \in tags
                        /\ T!Leads(info, at.unit, T!Die(at).type, p[v + 2])
                        /\ \A i \in 1 .. v : p[i] # at
      OBVIOUS
    <2>1. v + 1 \in 1 .. Len(p) - 1 /\ (v + 1) + 1 = v + 2 /\ (v + 1) - 1 = v
      BY <1>1
    <2> HIDE DEF v
    <2> QED
      BY <1>1, <1>3, <2>1 DEF T!IsWholePath, T!IsPath
  <1>6. v + 1 = Len(p) => T!Last(p) = at /\ (T!Returns(p) <=> at \in T!ToSet(visited))
    <2> SUFFICES ASSUME v + 1 = Len(p)
                 PROVE  T!Last(p) = at /\ (T!Returns(p) <=> at \in T!ToSet(visited))
      OBVIOUS
    <2>1. Len(p) - 1 = v
      BY <1>1
    <2> HIDE DEF v
    <2>2. T!Last(p) = at
      BY <1>1 DEF T!Last
    <2>3. T!Returns(p) <=> \E i \in 1 .. v : p[i] = at
      BY <2>1, <2>2 DEF T!Returns
    <2>4. at \in T!ToSet(visited) <=> \E i \in 1 .. v : p[i] = at
      BY <1>1
    <2> QED
      BY <2>2, <2>3, <2>4
  <1>7. v + 1 < Len(p) \/ v + 1 = Len(p)
    BY <1>1
  <1>8. v >= MaxDepth => T!Exceeds(p)
    BY <1>1 DEF T!Exceeds
  <1>9. v < MaxDepth /\ v + 1 = Len(p) => ~ T!Exceeds(p)
    BY <1>1 DEF T!Exceeds
  <1> HIDE DEF v
  <1>10. v < MaxDepth /\ at \in T!ToSet(visited) => T!Sticks(info, p, tags)
    <2> SUFFICES ASSUME v < MaxDepth, at \in T!ToSet(visited) PROVE T!Sticks(info, p, tags)
      OBVIOUS
    <2>1. \E i \in 1 .. v : p[i] = at
      BY <1>1
    <2>2. v + 1 = Len(p)
      BY <1>5, <1>7, <2>1
    <2> QED
      BY <1>6, <1>9, <2>2 DEF T!Sticks
  <1>11. ASSUME v < MaxDepth, at \notin T!ToSet(visited), ~ T!Exists(at)
         PROVE  T!Sticks(info, p, tags)
    BY <1>3, <1>5, <1>6, <1>7, <1>9, <1>11 DEF T!Sticks
  <1>12. ASSUME v < MaxDepth, at \notin T!ToSet(visited), T!Exists(at), T!Die(at).tag \in tags
         PROVE  IF T!Next1(at) = T!NoNode THEN T!Sticks(info, p, tags)
                ELSE v + 1 < Len(p) /\ T!Next1(at) = p[v + 2]
    <2>1. T!Dangles(info, T!Die(at).type) <=> T!Next1(at) = T!NoNode
      BY <1>2, <1>3, <1>4, <1>12, DanglesIs
    <2>2. CASE v + 1 < Len(p)
      <3>1. T!Next1(at) = p[v + 2] /\ p[v + 2] # T!NoNode
        BY <1>2, <1>3, <1>4, <1>5, <1>12, <2>2, LeadsThere
      <3> QED
        BY <2>2, <3>1
    <2>3. CASE v + 1 = Len(p)
      <3>1. ~ T!Exceeds(p) /\ ~ T!Arrives(info, p, tags)
        BY <1>3, <1>6, <1>9, <1>12, <2>3 DEF T!Arrives
      <3>2. T!Sticks(info, p, tags)
        BY <3>1 DEF T!IsWholePath
      <3>3. T!Dangles(info, T!Die(at).type)
        BY <1>3, <1>6, <1>12, <2>3, <3>2 DEF T!Sticks
      <3> QED
        BY <2>1, <3>2, <3>3
    <2> QED
      BY <1>7, <2>2, <2>3
  <1>13. ASSUME v < MaxDepth, at \notin T!ToSet(visited), T!Exists(at), T!Die(at).tag \notin tags
         PROVE  Len(p) = v + 1 /\ at = T!Last(p) /\ T!Arrives(info, p, tags)
    BY <1>3, <1>5, <1>6, <1>7, <1>9, <1>13 DEF T!Arrives
  <1> QED
    BY <1>1, <1>8, <1>10, <1>11, <1>12, <1>13 DEF v

(* The dimensions of an array, as relations and as the code computes them. *)
LEMMA DimensionIs ==
  ASSUME NEW c, c.tag = "subrange", T!IsChild(c)
  PROVE  /\ T!HasNoLength(c) <=> T!Contradicts(c)
         /\ \A n \in Number : T!HasLength(c, n) =>
              ~ T!Contradicts(c) /\ ~ T!IsOpenEnded(c) /\ T!Length(c) = n
         /\ T!Contradicts(c) => ~ T!IsOpenEnded(c)
  <1>1. /\ c.lower \in Int \cup {Unknown} /\ c.upper \in Int \cup {Unknown}
        /\ c.count \in Number \cup {Unknown} /\ Unknown \notin Number
        /\ T!Number = Number /\ \A n \in Number : n \in Int
    BY DwarfLayoutAssumption DEF T!IsChild, T!Number, Number
  <1>2. T!Lower(c) \in Int
    BY <1>1 DEF T!Lower
  <1>3. \A n \in Number : c.upper # Unknown =>
          (c.upper = T!Lower(c) + n - 1 <=> T!Bounds(c) = n)
    BY <1>1, <1>2 DEF T!Bounds
  <1>4. \A n \in Number : T!HasLength(c, n) <=>
          /\ c.count = n \/ (c.count = Unknown /\ c.upper # Unknown)
          /\ c.upper = Unknown \/ T!Bounds(c) = n
    BY <1>3 DEF T!HasLength
  <1>5. T!HasNoLength(c) => T!Contradicts(c)
    BY <1>1, <1>4 DEF T!HasNoLength, T!IsOpenEnded, T!Contradicts
  <1>6. T!Contradicts(c) => T!HasNoLength(c)
    BY <1>1, <1>4 DEF T!HasNoLength, T!IsOpenEnded, T!Contradicts
  <1>7. \A n \in Number : T!HasLength(c, n) =>
          ~ T!Contradicts(c) /\ ~ T!IsOpenEnded(c) /\ T!Length(c) = n
    BY <1>1, <1>4 DEF T!IsOpenEnded, T!Contradicts, T!Length
  <1>8. T!Contradicts(c) => ~ T!IsOpenEnded(c)
    BY DEF T!Contradicts, T!IsOpenEnded
  <1> QED
    BY <1>5, <1>6, <1>7, <1>8

LEMMA ContradictoryIs ==
  ASSUME NEW die, IsDieOf(die)
  PROVE  T!Contradictory(die) <=> T!Invalid(die)
  <1>1. \A i \in T!Subranges(die) :
          T!HasNoLength(die.children[i]) <=> T!Contradicts(die.children[i])
    BY DimensionIs DEF IsDieOf, T!Subranges
  <1> QED
    BY <1>1 DEF T!Contradictory, T!Invalid

IsElements(f, dims) ==
  f = [i \in 0 .. Len(dims) |-> IF i = 0 THEN 1 ELSE f[i - 1] * dims[i]]

LEMMA ElementsAre ==
  ASSUME NEW dims \in Seq(Number)
  PROVE  /\ T!Elements(dims)[0] = 1
         /\ \A i \in 1 .. Len(dims) : T!Elements(dims)[i] = T!Elements(dims)[i - 1] * dims[i]
         /\ \A i \in 0 .. Len(dims) : T!Elements(dims)[i] \in Nat
  <1> DEFINE IsUpTo(f, n) == f = [i \in 0 .. n |-> IF i = 0 THEN 1 ELSE f[i - 1] * dims[i]]
             P == {n \in Nat : \E f : IsUpTo(f, n)}
  <1>1. Len(dims) \in Nat /\ \A i \in 1 .. Len(dims) : dims[i] \in Nat
    <2>1. Len(dims) \in Nat /\ \A i \in 1 .. Len(dims) : dims[i] \in Number
      OBVIOUS
    <2>2. \A x \in Number : x \in Nat
      BY DEF Number
    <2> QED
      BY <2>1, <2>2
  <1>2. 0 \in P
    <2>1. IsUpTo([i \in 0 .. 0 |-> 1], 0)
      OBVIOUS
    <2> QED
      BY <2>1
  <1>3. ASSUME NEW n \in Nat, n \in P PROVE n + 1 \in P
    <2>1. PICK f : IsUpTo(f, n)
      BY <1>3
    <2> DEFINE last == f[n] * dims[n + 1]
               g == [i \in 0 .. n + 1 |-> IF i = n + 1 THEN last ELSE f[i]]
    <2>2. \A i \in 0 .. n : g[i] = f[i]
      OBVIOUS
    <2>3. \A i \in 0 .. n : f[i] = IF i = 0 THEN 1 ELSE f[i - 1] * dims[i]
      BY <2>1
    <2>4. ASSUME NEW i \in 0 .. n + 1
          PROVE  g[i] = IF i = 0 THEN 1 ELSE g[i - 1] * dims[i]
      <3>1. CASE i = n + 1
        <4>1. g[i] = last /\ i # 0 /\ i - 1 = n /\ g[n] = f[n]
          BY <2>2, <3>1
        <4> HIDE DEF g
        <4> QED
          BY <3>1, <4>1
      <3>2. CASE i \in 0 .. n
        <4>1. g[i] = f[i] /\ (i # 0 => i - 1 \in 0 .. n /\ g[i - 1] = f[i - 1])
          BY <2>2, <3>2
        <4> HIDE DEF g
        <4> QED
          BY <2>3, <3>2, <4>1
      <3> QED
        BY <3>1, <3>2
    <2>5. DOMAIN g = 0 .. n + 1 /\ g = [i \in DOMAIN g |-> g[i]]
      OBVIOUS
    <2> HIDE DEF g
    <2>6. IsUpTo(g, n + 1)
      BY <2>4, <2>5
    <2> QED
      BY <2>6
  <1> HIDE DEF P
  <1>4. Len(dims) \in P
    BY <1>1, <1>2, <1>3, NatSetInduction
  <1>5. IsElements(T!Elements(dims), dims)
    <2>1. \E f : IsElements(f, dims)
      BY <1>4 DEF P, IsElements
    <2>2. T!Elements(dims) = CHOOSE f : IsElements(f, dims)
      BY DEF T!Elements, IsElements
    <2> HIDE DEF P
    <2> QED
      BY <2>1, <2>2
  <1> DEFINE e == T!Elements(dims)
  <1>6. \A i \in 0 .. Len(dims) : e[i] = IF i = 0 THEN 1 ELSE e[i - 1] * dims[i]
    BY <1>5 DEF IsElements
  <1> HIDE DEF e
  <1>7. e[0] = 1 /\ \A i \in 1 .. Len(dims) : e[i] = e[i - 1] * dims[i]
    BY <1>1, <1>6
  <1> DEFINE Q == {n \in Nat : n <= Len(dims) => e[n] \in Nat}
  <1>8. 0 \in Q
    BY <1>7
  <1>9. ASSUME NEW n \in Nat, n \in Q PROVE n + 1 \in Q
    <2> SUFFICES ASSUME n + 1 <= Len(dims) PROVE e[n + 1] \in Nat
      OBVIOUS
    <2>1. e[n] \in Nat /\ n + 1 \in 1 .. Len(dims) /\ (n + 1) - 1 = n
      BY <1>1, <1>9
    <2>2. e[n + 1] = e[n] * dims[n + 1] /\ dims[n + 1] \in Nat
      BY <1>1, <1>7, <2>1
    <2> QED
      BY <2>1, <2>2
  <1> HIDE DEF Q
  <1>10. Nat \subseteq Q
    BY <1>8, <1>9, NatSetInduction
  <1>11. \A i \in 0 .. Len(dims) : e[i] \in Nat
    BY <1>1, <1>10 DEF Q
  <1> QED
    BY <1>7, <1>11 DEF e

(* The checked product of the lengths is the number of elements, as long   *)
(* as it can be told.                                                      *)
LEMMA ElementCountIs ==
  ASSUME NEW die, IsDieOf(die), NEW dims, T!HasDims(die, dims)
  PROVE  /\ ~ T!Invalid(die)
         /\ T!ElementCount(die) = T!Count(dims)
         /\ dims # <<>>
  <1>1. CASE T!Subranges(die) = {} \/ T!OpenDimensions(die) # {}
    <2>1. dims = <<Unknown>> \/ T!OpenDimensions(die) # {}
      BY <1>1 DEF T!HasDims
    <2>2. T!OpenDimensions(die) # {} => dims = <<Unknown>> /\ ~ T!Contradictory(die)
      <3> SUFFICES ASSUME NEW i \in T!OpenDimensions(die), dims # <<Unknown>> \/ T!Contradictory(die)
                   PROVE  FALSE
        OBVIOUS
      <3>1. /\ i \in T!Subranges(die) /\ T!IsOpenEnded(die.children[i])
            /\ dims \in Seq(Number) /\ Len(dims) = Len(die.children)
            /\ \A j \in DOMAIN dims : j \in T!Subranges(die) => T!HasLength(die.children[j], dims[j])
        BY DEF T!HasDims, T!OpenDimensions, T!Number, Number
      <3>2. i \in DOMAIN dims /\ dims[i] \in Number /\ T!HasLength(die.children[i], dims[i])
        BY <3>1 DEF T!Subranges, IsDieOf
      <3>3. T!IsChild(die.children[i]) /\ die.children[i].tag = "subrange"
        BY <3>1 DEF T!Subranges, IsDieOf
      <3> QED
        BY <3>1, <3>2, <3>3, DimensionIs
    <2>3. dims = <<Unknown>> /\ ~ T!Contradictory(die)
      BY <1>1, <2>2 DEF T!HasDims
    <2>4. T!ElementCount(die) = Unknown
      BY <1>1 DEF T!ElementCount
    <2>5. T!Count(dims) = Unknown
      BY <2>3 DEF T!Count
    <2> QED
      BY <2>3, <2>4, <2>5, ContradictoryIs
  <1>2. CASE T!Subranges(die) # {} /\ T!OpenDimensions(die) = {}
    <2>1. /\ dims \in Seq(Number) /\ Len(dims) = Len(die.children)
          /\ \A i \in DOMAIN dims :
               IF i \in T!Subranges(die) THEN T!HasLength(die.children[i], dims[i])
               ELSE dims[i] = 1
      BY <1>2 DEF T!HasDims, T!Number, Number
    <2> DEFINE n == Len(dims)
               e == T!Elements(dims)
    <2>2. n \in Nat /\ DOMAIN dims = 1 .. n /\ n = Len(die.children)
          /\ (\A i \in 1 .. n : dims[i] \in Number) /\ T!Subranges(die) \subseteq 1 .. n
      BY <2>1 DEF IsDieOf, T!Subranges
    <2>3. \A i \in T!Subranges(die) :
            /\ ~ T!Contradicts(die.children[i])
            /\ T!Length(die.children[i]) = dims[i]
      <3> SUFFICES ASSUME NEW i \in T!Subranges(die)
                   PROVE  /\ ~ T!Contradicts(die.children[i])
                          /\ T!Length(die.children[i]) = dims[i]
        OBVIOUS
      <3>1. T!IsChild(die.children[i]) /\ die.children[i].tag = "subrange"
        BY DEF T!Subranges, IsDieOf
      <3> QED
        BY <2>1, <2>2, <3>1, DimensionIs
    <2>4. ~ T!Invalid(die)
      BY <2>3 DEF T!Invalid
    <2>5. dims # <<Unknown>> /\ dims # <<>>
      BY <1>2, <2>2, DwarfLayoutAssumption
    <2>6. /\ e[0] = 1
          /\ \A i \in 1 .. n : e[i] = e[i - 1] * dims[i]
          /\ \A i \in 0 .. n : e[i] \in Nat
      BY <2>1, ElementsAre
    <2> DEFINE product == CHOOSE f : IsProduct(f, die, n)
    <2>7. T!ElementCount(die) = product[n]
      BY <1>2, <2>2 DEF T!ElementCount, IsProduct
    <2>8. IsProduct(product, die, n)
      <3>1. \A i \in T!Subranges(die) : T!Length(die.children[i]) \in Size
        BY <2>2, <2>3 DEF Size
      <3> HIDE DEF n
      <3> QED
        BY <2>2, <3>1, ProductType
    <2> HIDE DEF product, e
    <2>9. product[0] = 1 /\ \A i \in 1 .. n : product[i] =
            IF i \in T!Subranges(die) THEN T!Times(product[i - 1], dims[i]) ELSE product[i - 1]
      BY <2>2, <2>3, <2>8 DEF IsProduct
    <2> DEFINE big(i) == \E j \in 1 .. i : e[j] > AddrMax
               P == {i \in Nat : i <= n => product[i] = IF big(i) THEN Unknown ELSE e[i]}
    <2>10. 0 \in P
      BY <2>6, <2>9
    <2>11. ASSUME NEW i \in Nat, i \in P PROVE i + 1 \in P
      <3> SUFFICES ASSUME i + 1 <= n
                   PROVE  product[i + 1] = IF big(i + 1) THEN Unknown ELSE e[i + 1]
        OBVIOUS
      <3>1. /\ i + 1 \in 1 .. n /\ (i + 1) - 1 = i /\ i \in 0 .. n
            /\ product[i] = IF big(i) THEN Unknown ELSE e[i]
        BY <2>2, <2>11
      <3>2. /\ e[i + 1] = e[i] * dims[i + 1] /\ e[i] \in Nat /\ e[i + 1] \in Nat
            /\ dims[i + 1] \in Number /\ dims[i + 1] \in Nat
        BY <2>2, <2>6, <3>1 DEF Number
      <3>3. big(i + 1) <=> big(i) \/ e[i + 1] > AddrMax
        <4>1. 1 .. i + 1 = (1 .. i) \cup {i + 1}
          OBVIOUS
        <4> QED
          BY <4>1
      <3>4. AddrMax \in Nat /\ Unknown \notin Number /\ 1 <= i => (~ big(i) => e[i] <= AddrMax)
        BY <3>2
      <3>5. i = 0 => e[i] = 1
        BY <2>6
      <3>6. ~ big(i) => e[i] \in Number
        <4>1. AddrMax \in Nat /\ AddrMax >= 1
          BY DwarfLayoutAssumption DEF Number
        <4> QED
          BY <3>2, <3>4, <3>5, <4>1, DwarfLayoutAssumption DEF Number
      <3>7. CASE i + 1 \in T!Subranges(die)
        <4>1. product[i + 1] = T!Times(product[i], dims[i + 1])
          BY <2>9, <3>1, <3>7
        <4> HIDE DEF big
        <4>2. CASE big(i)
          BY <3>1, <3>3, <4>1, <4>2 DEF T!Times
        <4>3. CASE ~ big(i)
          <5>1. product[i] = e[i] /\ Unknown \notin {e[i], dims[i + 1]}
            BY <3>1, <3>2, <3>6, <4>3, DwarfLayoutAssumption
          <5>2. product[i + 1] = IF e[i + 1] > AddrMax THEN Unknown ELSE e[i + 1]
            BY <3>2, <4>1, <5>1 DEF T!Times
          <5> QED
            BY <3>3, <4>3, <5>2
        <4> QED
          BY <4>2, <4>3
      <3>8. CASE i + 1 \notin T!Subranges(die)
        <4>1. product[i + 1] = product[i] /\ dims[i + 1] = 1
          BY <2>1, <2>2, <2>9, <3>1, <3>8
        <4>2. e[i + 1] = e[i]
          BY <3>2, <4>1
        <4>3. ~ big(i) => ~ e[i + 1] > AddrMax
          BY <3>2, <3>6, <4>2, DwarfLayoutAssumption DEF Number
        <4> HIDE DEF big
        <4> QED
          BY <3>1, <3>3, <4>1, <4>2, <4>3
      <3> QED
        BY <3>7, <3>8
    <2> HIDE DEF P
    <2>12. n \in P
      BY <2>2, <2>10, <2>11, NatSetInduction
    <2>13. product[n] = IF big(n) THEN Unknown ELSE e[n]
      BY <2>2, <2>12 DEF P
    <2>14. T!Count(dims) = IF big(n) THEN Unknown ELSE e[n]
      BY <2>2, <2>5 DEF T!Count, e
    <2> QED
      BY <2>4, <2>5, <2>7, <2>13, <2>14
  <1> QED
    BY <1>1, <1>2

(* The types that the layers make, from the inside out.                    *)
LayerFrom(ty, m) == ty.layers[Len(ty.layers) - m + 1]

LeafOf(ty) == [T!NoType EXCEPT !.kind = ty.kind, !.bytes = ty.bytes]

IsInner(f, ty, n) ==
  f = [m \in 0 .. n |-> IF m = 0 THEN LeafOf(ty)
                        ELSE IF LayerFrom(ty, m) = <<>> THEN f[m - 1]
                        ELSE T!ArrayOf(LayerFrom(ty, m), f[m - 1])]

LEMMA InnerIs ==
  ASSUME NEW ty, Len(ty.layers) \in Nat
  PROVE  /\ T!Inner(ty)[0] = LeafOf(ty)
         /\ \A m \in 1 .. Len(ty.layers) : T!Inner(ty)[m] =
              IF LayerFrom(ty, m) = <<>> THEN T!Inner(ty)[m - 1]
              ELSE T!ArrayOf(LayerFrom(ty, m), T!Inner(ty)[m - 1])
  <1> DEFINE P == {n \in Nat : \E f : IsInner(f, ty, n)}
  <1>1. 0 \in P
    <2>1. IsInner([m \in 0 .. 0 |-> LeafOf(ty)], ty, 0)
      BY DEF IsInner
    <2> QED
      BY <2>1
  <1>2. ASSUME NEW n \in Nat, n \in P PROVE n + 1 \in P
    <2>1. PICK f : IsInner(f, ty, n)
      BY <1>2
    <2> DEFINE last == IF LayerFrom(ty, n + 1) = <<>> THEN f[n]
                       ELSE T!ArrayOf(LayerFrom(ty, n + 1), f[n])
               g == [m \in 0 .. n + 1 |-> IF m = n + 1 THEN last ELSE f[m]]
    <2>2. \A m \in 0 .. n : g[m] = f[m]
      OBVIOUS
    <2>3. \A m \in 0 .. n : f[m] = IF m = 0 THEN LeafOf(ty)
                                   ELSE IF LayerFrom(ty, m) = <<>> THEN f[m - 1]
                                   ELSE T!ArrayOf(LayerFrom(ty, m), f[m - 1])
      BY <2>1 DEF IsInner
    <2> HIDE DEF last
    <2>4. ASSUME NEW m \in 0 .. n + 1
          PROVE  g[m] = IF m = 0 THEN LeafOf(ty)
                        ELSE IF LayerFrom(ty, m) = <<>> THEN g[m - 1]
                        ELSE T!ArrayOf(LayerFrom(ty, m), g[m - 1])
      <3>1. CASE m = n + 1
        <4>1. g[m] = last /\ m # 0 /\ m - 1 = n /\ g[n] = f[n]
          BY <2>2, <3>1
        <4> HIDE DEF g
        <4> QED
          BY <3>1, <4>1 DEF last
      <3>2. CASE m \in 0 .. n
        <4>1. g[m] = f[m] /\ (m # 0 => m - 1 \in 0 .. n /\ g[m - 1] = f[m - 1])
          BY <2>2, <3>2
        <4> HIDE DEF g
        <4> QED
          BY <2>3, <3>2, <4>1
      <3> QED
        BY <3>1, <3>2
    <2>5. DOMAIN g = 0 .. n + 1 /\ g = [m \in DOMAIN g |-> g[m]]
      OBVIOUS
    <2> HIDE DEF g
    <2>6. IsInner(g, ty, n + 1)
      BY <2>4, <2>5 DEF IsInner
    <2> QED
      BY <2>6
  <1> HIDE DEF P
  <1>3. Len(ty.layers) \in P
    BY <1>1, <1>2, NatSetInduction
  <1>4. IsInner(T!Inner(ty), ty, Len(ty.layers))
    <2>1. \E f : IsInner(f, ty, Len(ty.layers))
      BY <1>3 DEF P
    <2>2. T!Inner(ty) = CHOOSE f : IsInner(f, ty, Len(ty.layers))
      BY DEF T!Inner, IsInner, LayerFrom, LeafOf
    <2> QED
      BY <2>1, <2>2
  <1> DEFINE inner == T!Inner(ty)
  <1>5. \A m \in 0 .. Len(ty.layers) : inner[m] =
          IF m = 0 THEN LeafOf(ty)
          ELSE IF LayerFrom(ty, m) = <<>> THEN inner[m - 1]
          ELSE T!ArrayOf(LayerFrom(ty, m), inner[m - 1])
    BY <1>4 DEF IsInner
  <1> HIDE DEF inner
  <1>6. 0 \in 0 .. Len(ty.layers)
        /\ \A m \in 1 .. Len(ty.layers) : m \in 0 .. Len(ty.layers) /\ m # 0
    OBVIOUS
  <1> QED
    BY <1>5, <1>6 DEF inner

\* Typedefs between two places of a type change nothing.
LEMMA AliasesAreNothing ==
  ASSUME NEW ty, Len(ty.layers) \in Nat,
         NEW a \in 0 .. Len(ty.layers), NEW b \in 0 .. Len(ty.layers), a <= b,
         \A j \in a + 1 .. b : ty.layers[j] = <<>>
  PROVE  T!Inner(ty)[Len(ty.layers) - a] = T!Inner(ty)[Len(ty.layers) - b]
  <1> DEFINE n == Len(ty.layers)
             i == T!Inner(ty)
             P == {d \in Nat : d <= b - a => i[n - b + d] = i[n - b]}
  <1>1. n \in Nat /\ a \in Nat /\ b \in Nat /\ a <= b /\ b <= n
    OBVIOUS
  <1>2. \A m \in 1 .. n : n - m + 1 \in a + 1 .. b => i[m] = i[m - 1]
    BY InnerIs DEF LayerFrom
  <1> HIDE DEF i, n
  <1>3. 0 \in P
    BY <1>1
  <1>4. ASSUME NEW d \in Nat, d \in P PROVE d + 1 \in P
    <2>1. ASSUME d + 1 <= b - a PROVE i[n - b + (d + 1)] = i[n - b]
      <3> DEFINE m == n - b + (d + 1)
      <3>1. m \in 1 .. n /\ m - 1 = n - b + d /\ n - m + 1 \in a + 1 .. b
        BY <1>1, <2>1
      <3>2. i[n - b + d] = i[n - b]
        BY <1>1, <1>4, <2>1
      <3> HIDE DEF m, P
      <3>3. i[m] = i[m - 1]
        BY <1>2, <3>1
      <3> QED
        BY <3>1, <3>2, <3>3 DEF m
    <2> QED
      BY <2>1
  <1>5. b - a \in Nat /\ n - b + (b - a) = n - a
    BY <1>1
  <1> HIDE DEF P
  <1>6. b - a \in P
    BY <1>3, <1>4, <1>5, NatSetInduction
  <1>7. i[n - b + (b - a)] = i[n - b]
    BY <1>5, <1>6 DEF P
  <1> QED
    BY <1>5, <1>7 DEF i, n

\* An array as the reader sees it is the array that is meant.
LEMMA ArrayLayer ==
  ASSUME NEW ty, Len(ty.layers) \in Nat, NEW j \in 1 .. Len(ty.layers),
         NEW die, IsDieOf(die), die.tag = "array", T!IsLayer(die, ty, j)
  PROVE  /\ ~ T!Invalid(die)
         /\ T!ArrayType(die, T!Inner(ty)[Len(ty.layers) - j])
              = T!Inner(ty)[Len(ty.layers) - (j - 1)]
  <1> DEFINE n == Len(ty.layers)
             m == n - j + 1
             inner == T!Inner(ty)
             dims == ty.layers[j]
  <1>1. m \in 1 .. n /\ m - 1 = n - j /\ n - m + 1 = j /\ n - (j - 1) = m
    OBVIOUS
  <1>2. T!HasDims(die, dims) /\ die.size \in {Unknown, inner[m].bytes}
    BY DEF T!IsLayer
  <1>3. ~ T!Invalid(die) /\ T!ElementCount(die) = T!Count(dims) /\ dims # <<>>
    BY <1>2, ElementCountIs
  <1>4. LayerFrom(ty, m) = dims
    BY <1>1 DEF LayerFrom
  <1> HIDE DEF inner, m
  <1>5. inner[m] = T!ArrayOf(dims, inner[m - 1])
    BY <1>1, <1>3, <1>4, InnerIs DEF inner
  <1>6. inner[m].bytes = T!Times(inner[m - 1].bytes, T!Count(dims))
    BY <1>5 DEF T!ArrayOf
  <1>7. T!ArrayType(die, inner[m - 1]) = inner[m]
    <2>1. (IF die.size # Unknown THEN die.size
           ELSE T!Times(inner[m - 1].bytes, T!ElementCount(die)))
            = T!Times(inner[m - 1].bytes, T!Count(dims))
      BY <1>2, <1>3, <1>6
    <2> QED
      BY <1>3, <1>5, <2>1 DEF T!ArrayType, T!ArrayOf
  <1> QED
    BY <1>1, <1>3, <1>7 DEF inner

LEMMA LeafLayer ==
  ASSUME NEW ty, NEW die, die.tag \in T!Tags \ {"alias", "array"}, T!IsLeaf(die, ty)
  PROVE  T!LeafType(die) = LeafOf(ty)
  <1>1. T!KindOf(die) = ty.kind
    BY DEF T!KindOf, T!IsLeaf
  <1> QED
    BY <1>1 DEF T!IsLeaf, T!LeafType, LeafOf

(* The arrays among the first m nodes of a path, in order.                 *)
IsArray(f, n) == f.dies[n.at].tag = "array"

ArraysOn(f, o, p, m) ==
  /\ IsSequence(o)
  /\ \E place \in [1 .. Len(o) -> 1 .. m] :
       /\ \A q \in 1 .. Len(o) : o[q] = p[place[q]]
       /\ \A q, r \in 1 .. Len(o) : q < r => place[q] < place[r]
       /\ \A j \in 1 .. m : IsArray(f, p[j]) <=> \E q \in 1 .. Len(o) : place[q] = j

LEMMA ArraysNone ==
  ASSUME NEW f, NEW p, NEW m \in Nat
  PROVE  /\ ArraysOn(f, <<>>, p, 0)
         /\ ArraysOn(f, <<>>, p, m) => \A j \in 1 .. m : ~ IsArray(f, p[j])
  <1>1. Len(<<>>) = 0 /\ 1 .. 0 = {}
    OBVIOUS
  <1>2. IsSequence(<<>>)
    <2>1. <<>> \in Seq({})
      OBVIOUS
    <2> QED
      BY <2>1 DEF IsSequence
  <1>3. [x \in {} |-> x] \in [1 .. Len(<<>>) -> 1 .. 0]
    BY <1>1
  <1>4. ArraysOn(f, <<>>, p, 0)
    BY <1>1, <1>2, <1>3 DEF ArraysOn
  <1>5. ArraysOn(f, <<>>, p, m) => \A j \in 1 .. m : ~ IsArray(f, p[j])
    BY <1>1 DEF ArraysOn
  <1> QED
    BY <1>4, <1>5

LEMMA ArraysFollow ==
  ASSUME NEW f, NEW o, NEW p, NEW m \in Nat, ArraysOn(f, o, p, m)
  PROVE  ArraysOn(f, IF IsArray(f, p[m + 1]) THEN Append(o, p[m + 1]) ELSE o, p, m + 1)
  <1>1. PICK place \in [1 .. Len(o) -> 1 .. m] :
          /\ \A q \in 1 .. Len(o) : o[q] = p[place[q]]
          /\ \A q, r \in 1 .. Len(o) : q < r => place[q] < place[r]
          /\ \A j \in 1 .. m : IsArray(f, p[j]) <=> \E q \in 1 .. Len(o) : place[q] = j
    BY DEF ArraysOn
  <1>2. /\ IsSequence(o) /\ Len(o) \in Nat
        /\ IsSequence(Append(o, p[m + 1])) /\ Len(Append(o, p[m + 1])) = Len(o) + 1
        /\ \A q \in 1 .. Len(o) + 1 :
             Append(o, p[m + 1])[q] = IF q = Len(o) + 1 THEN p[m + 1] ELSE o[q]
    BY AppendIsSequence DEF ArraysOn
  <1>3. \A j \in 1 .. m + 1 : j \in 1 .. m \/ j = m + 1
    OBVIOUS
  <1>4. \A q \in 1 .. Len(o) : place[q] \in 1 .. m /\ place[q] \in 1 .. m + 1 /\ place[q] < m + 1
    BY <1>1
  <1>5. CASE ~ IsArray(f, p[m + 1])
    <2>1. place \in [1 .. Len(o) -> 1 .. m + 1]
      BY <1>1
    <2>2. \A j \in 1 .. m + 1 : IsArray(f, p[j]) <=> \E q \in 1 .. Len(o) : place[q] = j
      BY <1>1, <1>3, <1>4, <1>5
    <2>3. ArraysOn(f, o, p, m + 1)
      BY <1>1, <1>2, <2>1, <2>2 DEF ArraysOn
    <2> QED
      BY <1>5, <2>3
  <1>6. CASE IsArray(f, p[m + 1])
    <2> DEFINE n == Len(o)
               r == Append(o, p[m + 1])
               more == [q \in 1 .. n + 1 |-> IF q = n + 1 THEN m + 1 ELSE place[q]]
    <2>1. more \in [1 .. Len(r) -> 1 .. m + 1]
      BY <1>2, <1>4
    <2>2. (\A q \in 1 .. n : more[q] = place[q]) /\ more[n + 1] = m + 1
      BY <1>2
    <2>3. (1 .. Len(r)) = (1 .. n) \cup {n + 1} /\ n \in Nat
      BY <1>2
    <2>4. (\A q \in 1 .. n : r[q] = o[q]) /\ r[n + 1] = p[m + 1]
      BY <1>2
    <2> HIDE DEF more, n, r
    <2>5. \A q \in 1 .. Len(r) : r[q] = p[more[q]]
      BY <1>1, <2>2, <2>3, <2>4 DEF n
    <2>6. \A q, x \in 1 .. Len(r) : q < x => more[q] < more[x]
      <3> SUFFICES ASSUME NEW q \in 1 .. Len(r), NEW x \in 1 .. Len(r), q < x
                   PROVE  more[q] < more[x]
        OBVIOUS
      <3>1. q \in 1 .. n /\ more[q] = place[q] /\ place[q] < m + 1
        BY <1>4, <2>2, <2>3 DEF n
      <3>2. CASE x \in 1 .. n
        BY <1>1, <2>2, <3>1, <3>2 DEF n
      <3>3. CASE x = n + 1
        BY <2>2, <3>1, <3>3
      <3> QED
        BY <2>3, <3>2, <3>3
    <2>7. \A j \in 1 .. m + 1 : IsArray(f, p[j]) <=> \E q \in 1 .. Len(r) : more[q] = j
      BY <1>1, <1>3, <1>4, <1>6, <2>2, <2>3 DEF n
    <2>8. ArraysOn(f, r, p, m + 1)
      BY <1>2, <2>1, <2>5, <2>6, <2>7 DEF ArraysOn, r
    <2> QED
      BY <1>6, <2>8 DEF r
  <1> QED
    BY <1>5, <1>6

LEMMA ArraysClose ==
  ASSUME NEW f, NEW o, NEW p, NEW m \in Nat, ArraysOn(f, o, p, m), o # <<>>
  PROVE  \E a \in 1 .. m :
           /\ T!Last(o) = p[a] /\ IsArray(f, p[a])
           /\ ArraysOn(f, T!Front(o), p, a - 1)
           /\ \A j \in a + 1 .. m : ~ IsArray(f, p[j])
  <1> DEFINE n == Len(o)
             r == T!Front(o)
  <1>1. PICK place \in [1 .. Len(o) -> 1 .. m] :
          /\ \A q \in 1 .. Len(o) : o[q] = p[place[q]]
          /\ \A q, x \in 1 .. Len(o) : q < x => place[q] < place[x]
          /\ \A j \in 1 .. m : IsArray(f, p[j]) <=> \E q \in 1 .. Len(o) : place[q] = j
    BY DEF ArraysOn
  <1>2. /\ n \in Nat \ {0} /\ IsSequence(r) /\ Len(r) = n - 1
        /\ \A q \in 1 .. n - 1 : r[q] = o[q]
    BY FrontIsSequence DEF ArraysOn
  <1> DEFINE a == place[n]
  <1> HIDE DEF r
  <1>3. a \in 1 .. m /\ T!Last(o) = p[a] /\ IsArray(f, p[a])
    <2>1. n \in 1 .. Len(o)
      BY <1>2
    <2> QED
      BY <1>1, <2>1 DEF T!Last
  <1>4. \A q \in 1 .. n : place[q] \in 1 .. m /\ (q < n => place[q] < a)
    <2>1. n \in 1 .. n
      BY <1>2
    <2> QED
      BY <1>1, <2>1
  <1> DEFINE less == [q \in 1 .. n - 1 |-> place[q]]
  <1> HIDE DEF a
  <1>5. less \in [1 .. Len(r) -> 1 .. a - 1]
    <2>1. ASSUME NEW q \in 1 .. n - 1 PROVE place[q] \in 1 .. a - 1
      <3>1. q \in 1 .. n /\ q < n
        BY <1>2
      <3>2. place[q] \in 1 .. m /\ place[q] < a
        BY <1>4, <3>1
      <3> QED
        BY <1>3, <3>2
    <2> QED
      BY <1>2, <2>1
  <1>6. \A q \in 1 .. Len(r) : less[q] = place[q] /\ q \in 1 .. n /\ r[q] = o[q]
    BY <1>2
  <1>7. \A j \in 1 .. a - 1 : IsArray(f, p[j]) <=> \E q \in 1 .. Len(r) : less[q] = j
    <2> SUFFICES ASSUME NEW j \in 1 .. a - 1
                 PROVE  IsArray(f, p[j]) <=> \E q \in 1 .. Len(r) : less[q] = j
      OBVIOUS
    <2>1. j \in 1 .. m /\ j # a
      BY <1>3
    <2>2. ASSUME IsArray(f, p[j]) PROVE \E q \in 1 .. Len(r) : less[q] = j
      <3>1. PICK q \in 1 .. n : place[q] = j
        BY <1>1, <2>1, <2>2
      <3>2. q # n
        BY <2>1, <3>1 DEF a
      <3>3. q \in 1 .. Len(r)
        BY <1>2, <3>1, <3>2
      <3> QED
        BY <1>6, <3>1, <3>3
    <2>3. ASSUME NEW q \in 1 .. Len(r), less[q] = j PROVE IsArray(f, p[j])
      BY <1>1, <1>6, <2>1, <2>3
    <2> QED
      BY <2>2, <2>3
  <1> HIDE DEF less
  <1>8. ArraysOn(f, r, p, a - 1)
    <2>1. \A q \in 1 .. Len(r) : r[q] = p[less[q]]
      BY <1>1, <1>6
    <2>2. \A q, x \in 1 .. Len(r) : q < x => less[q] < less[x]
      BY <1>1, <1>6
    <2> QED
      BY <1>2, <1>5, <1>7, <2>1, <2>2 DEF ArraysOn
  <1>9. \A j \in a + 1 .. m : ~ IsArray(f, p[j])
    <2> SUFFICES ASSUME NEW j \in a + 1 .. m, IsArray(f, p[j]) PROVE FALSE
      OBVIOUS
    <2>1. j \in 1 .. m /\ j > a
      BY <1>3
    <2>2. PICK q \in 1 .. n : place[q] = j
      BY <1>1, <2>1
    <2>3. q = n \/ q < n
      BY <1>2
    <2>4. j = a \/ j < a
      BY <1>4, <2>2, <2>3 DEF a
    <2> QED
      BY <1>3, <2>1, <2>4
  <1> QED
    BY <1>3, <1>8, <1>9 DEF r

(* What the place of a child says, once those before it have been read.    *)
LEMMA AskedNames ==
  ASSUME T!IsInfo(info), NEW c, T!Asked(info, c)
  PROVE  c.tag = "member" /\ c.name \notin {"undecodable", "overlong"}
  BY DEF T!IsInfo, T!Asked, T!WantedNames, T!TargetSet

LEMMA EndsDiffer ==
  ASSUME NEW p, NEW tags
  PROVE  /\ T!Arrives(info, p, tags) => ~ T!Sticks(info, p, tags) /\ ~ T!Exceeds(p)
         /\ T!Sticks(info, p, tags) => ~ T!Exceeds(p)
  BY DEF T!Arrives, T!Sticks

ToType == {"alias", "array"}

ChildOf(i) == T!Structure(info).children[i]

HasBadArray(p, m) ==
  \E j \in 1 .. m : IsArray(info, p[j]) /\ T!Contradictory(info.dies[p[j].at])

LEMMA ChildVerdict ==
  ASSUME T!IsInfo(info), T!IsC(info), T!Arrives(info, info.c.path, {"alias"}),
         T!IsStructure(T!Structure(info)),
         NEW i \in 1 .. Len(T!Structure(info).children),
         \A j \in 1 .. i - 1 : T!IsRead(info, j)
  PROVE  /\ ChildOf(i).tag = "member" =>
              /\ ChildOf(i).name = "undecodable" => info.c.fault
              /\ ChildOf(i).name = "overlong" => info.c.deep
         /\ ~ T!Asked(info, ChildOf(i)) =>
              \/ T!IsRead(info, i)
              \/ ChildOf(i).tag = "member" /\ ChildOf(i).name \in {"undecodable", "overlong"}
         /\ T!Asked(info, ChildOf(i)) =>
              IF ~ T!HasLocation(ChildOf(i)) \/ T!Dangles(info, ChildOf(i).type)
                THEN info.c.fault ELSE T!Starts(info, i)
         /\ T!Asked(info, ChildOf(i)) /\ T!Starts(info, i) =>
              /\ T!Sticks(info, info.c.paths[i], ToType) => info.c.fault
              /\ T!Exceeds(info.c.paths[i]) => info.c.deep
              /\ T!Arrives(info, info.c.paths[i], ToType) =>
                   \/ T!IsRead(info, i)
                   \/ info.c.fault /\ HasBadArray(info.c.paths[i], Len(info.c.paths[i]) - 1)
  <1> DEFINE c == ChildOf(i)
             p == info.c.paths[i]
  <1>1. \/ T!IsRead(info, i)
        \/ T!IsDamaged(info, i) /\ info.c.fault
        \/ T!IsTooDeep(info, i) /\ info.c.deep
    BY DEF T!IsC, T!ChildrenAreC
  <1>2. T!Asked(info, c) => c.tag = "member" /\ c.name \notin {"undecodable", "overlong"}
    BY AskedNames
  <1>3. /\ T!Arrives(info, p, ToType) => ~ T!Sticks(info, p, ToType) /\ ~ T!Exceeds(p)
        /\ T!Sticks(info, p, ToType) => ~ T!Exceeds(p)
    BY EndsDiffer
  <1>4. T!IsRead(info, i) /\ c.tag = "member" =>
          /\ c.name \notin {"undecodable", "overlong"}
          /\ T!Asked(info, c) => T!Starts(info, i) /\ T!Arrives(info, p, ToType)
    BY DEF T!IsRead, T!IsWritten, ChildOf, ToType
  <1>5. T!IsDamaged(info, i) =>
          \/ c.tag = "member" /\ c.name = "undecodable"
          \/ T!Asked(info, c) /\ (~ T!HasLocation(c) \/ T!Dangles(info, c.type))
          \/ /\ T!Asked(info, c) /\ T!Starts(info, i)
             /\ \/ T!Sticks(info, p, ToType)
                \/ T!Arrives(info, p, ToType) /\ HasBadArray(p, Len(p) - 1)
    BY DEF T!IsDamaged, ChildOf, ToType, HasBadArray, IsArray
  <1>6. T!IsTooDeep(info, i) =>
          \/ c.tag = "member" /\ c.name = "overlong"
          \/ T!Asked(info, c) /\ T!Starts(info, i) /\ T!Exceeds(p)
    BY DEF T!IsTooDeep, ChildOf
  <1>7. T!Starts(info, i) => T!HasLocation(c) /\ ~ T!Dangles(info, c.type)
    BY DEF T!Starts, ChildOf
  <1> HIDE DEF c, p
  <1>8. c.tag = "member" =>
          /\ c.name = "undecodable" => info.c.fault
          /\ c.name = "overlong" => info.c.deep
    BY <1>1, <1>2, <1>4, <1>5, <1>6
  <1>9. ~ T!Asked(info, c) =>
          T!IsRead(info, i) \/ (c.tag = "member" /\ c.name \in {"undecodable", "overlong"})
    BY <1>1, <1>5, <1>6
  <1>10. T!Asked(info, c) =>
           IF ~ T!HasLocation(c) \/ T!Dangles(info, c.type)
             THEN info.c.fault ELSE T!Starts(info, i)
    BY <1>1, <1>2, <1>4, <1>5, <1>6, <1>7
  <1>11. T!Asked(info, c) /\ T!Starts(info, i) =>
           /\ T!Sticks(info, p, ToType) => info.c.fault
           /\ T!Exceeds(p) => info.c.deep
           /\ T!Arrives(info, p, ToType) =>
                T!IsRead(info, i) \/ (info.c.fault /\ HasBadArray(p, Len(p) - 1))
    BY <1>1, <1>2, <1>3, <1>4, <1>5, <1>6, <1>7
  <1> QED
    BY <1>8, <1>9, <1>10, <1>11 DEF c, p

\* The fields that are read when the children up to the i-th have been.
FieldsBefore(i) ==
  {T!Meant(info.c.fields[j]) : j \in {x \in 1 .. i - 1 : T!Asked(info, ChildOf(x))}}

InStructure ==
  /\ owner = T!Last(info.c.path)
  /\ T!Arrives(info, info.c.path, {"alias"})
  /\ T!IsStructure(T!Structure(info))
  /\ child \in 1 .. Len(T!Structure(info).children) + 1
  /\ \A j \in 1 .. child - 1 : T!IsRead(info, j)
  /\ members = FieldsBefore(child)

InType ==
  /\ InStructure
  /\ child \in 1 .. Len(T!Structure(info).children)
  /\ T!Asked(info, ChildOf(child))
  /\ T!Starts(info, child)

(* The arrays on the first m nodes are open; what is behind them is read,  *)
(* unless one of them is damaged.                                          *)
OpenUpTo(p, ty, m) ==
  /\ ArraysOn(info, open, p, m)
  /\ \/ T!IsRead(info, child) /\ type = T!Inner(ty)[Len(ty.layers) - m]
     \/ info.c.fault /\ HasBadArray(p, m)

MeantInv ==
  /\ T!IsC(info)
  /\ step # "done" => what = "none"
  /\ step = "structure" => Upon(info.c.path) /\ child = 1 /\ members = {} /\ open = <<>>
  /\ step = "members" => InStructure /\ open = <<>>
  /\ step = "type" =>
       /\ InType
       /\ Upon(info.c.paths[child])
       /\ ArraysOn(info, open, info.c.paths[child], Len(visited))
  /\ step = "unwind" =>
       /\ InType
       /\ T!Arrives(info, info.c.paths[child], ToType)
       /\ \E m \in 0 .. Len(info.c.paths[child]) - 1 :
            OpenUpTo(info.c.paths[child], info.c.fields[child].type, m)
  /\ step = "done" => DefinitionIsMeant

LEMMA InitMeant == FileInit => MeantInv
  <1> SUFFICES ASSUME FileInit PROVE MeantInv
    OBVIOUS
  <1>1. T!IsC(info)
    BY DwarfFileAssumption DEF FileInit, T!InfosOK
  <1>2. /\ step = "structure" /\ child = 1 /\ what = "none" /\ at = info.found
        /\ open = <<>> /\ members = {} /\ visited = <<>>
    BY DEF FileInit, T!Begin
  <1>3. Upon(info.c.path)
    <2>1. /\ info.c.path \in Seq(T!Nodes(info)) /\ info.c.path # <<>>
          /\ info.c.path[1] = info.found
      BY <1>1 DEF T!IsC, T!IsWholePath, T!IsPath
    <2>2. Len(info.c.path) \in Nat /\ Len(info.c.path) > 0
      BY <2>1
    <2>3. visited \in Seq({}) /\ Len(visited) = 0
      BY <1>2
    <2> QED
      BY <1>2, <2>1, <2>2, <2>3 DEF Upon, IsSequence
  <1> QED
    BY <1>1, <1>2, <1>3 DEF MeantInv

LEMMA StopsRightly ==
  ASSUME MeantInv, step # "done", NEW o, T!Stop(o),
         (o = "broken" /\ info.c.fault) \/ (o = "limit" /\ info.c.deep)
  PROVE  MeantInv'
  BY DEF MeantInv, T!Stop, DefinitionIsMeant, T!DefinitionIsMeant

\* Along a path, in either phase.
LEMMA PathStops ==
  ASSUME TypesInv, MeantInv, step # "done",
         NEW p, NEW tags, T!IsWholePath(info, p, tags), Upon(p),
         T!Refers => T!At(tags),
         T!Sticks(info, p, tags) => info.c.fault, T!Exceeds(p) => info.c.deep,
         T!TooDeep \/ T!Cycle \/ T!NoEntry \/ T!BadReference
  PROVE  MeantInv'
  <1>1. T!IsInfo(info)
    BY DEF TypesInv
  <1>2. CASE T!TooDeep
    BY <1>1, <1>2, OnPath, StopsRightly DEF T!TooDeep
  <1>3. CASE T!Cycle
    BY <1>1, <1>3, OnPath, StopsRightly DEF T!Cycle
  <1>4. CASE T!NoEntry
    BY <1>1, <1>4, OnPath, StopsRightly DEF T!NoEntry, T!Fresh
  <1>5. CASE T!BadReference
    <2>1. T!At(tags) /\ T!Next1(at) = T!NoNode /\ T!Stop("broken")
      BY <1>5 DEF T!BadReference
    <2>2. T!Sticks(info, p, tags)
      BY <1>1, <2>1, OnPath DEF T!At, T!Fresh
    <2> QED
      BY <2>1, <2>2, StopsRightly
  <1> QED
    BY <1>2, <1>3, <1>4, <1>5

LEMMA PathGoesOn ==
  ASSUME TypesInv, NEW p, NEW tags, T!IsWholePath(info, p, tags), Upon(p),
         T!Refers => T!At(tags), T!Follow
  PROVE  /\ Upon(p)' /\ Len(visited') = Len(visited) + 1 /\ Len(visited) \in Nat
         /\ at = p[Len(visited) + 1] /\ T!Die(at).tag \in tags
         /\ open' = IF IsArray(info, at) THEN Append(open, at) ELSE open
         /\ UNCHANGED <<info, step, owner, child, type, members, what>>
  <1>1. /\ T!At(tags) /\ T!Next1(at) # T!NoNode
        /\ at' = T!Next1(at) /\ visited' = Append(visited, at)
        /\ open' = IF T!Die(at).tag = "array" THEN Append(open, at) ELSE open
        /\ UNCHANGED <<info, step, owner, child, type, members, what>>
    BY DEF T!Follow
  <1>2. /\ Len(visited) \in Nat /\ Len(visited) + 1 < Len(p)
        /\ T!Next1(at) = p[Len(visited) + 2]
    BY <1>1, OnPath DEF TypesInv, T!At, T!Fresh
  <1>3. /\ IsSequence(visited') /\ Len(visited') = Len(visited) + 1
        /\ \A j \in 1 .. Len(visited) + 1 :
             visited'[j] = IF j = Len(visited) + 1 THEN at ELSE visited[j]
    BY <1>1, AppendIsSequence DEF Upon
  <1>4. \A j \in 1 .. Len(visited) + 1 : visited'[j] = p[j]
    <2> SUFFICES ASSUME NEW j \in 1 .. Len(visited) + 1 PROVE visited'[j] = p[j]
      OBVIOUS
    <2>1. CASE j = Len(visited) + 1
      BY <1>3, <2>1 DEF Upon
    <2>2. CASE j \in 1 .. Len(visited)
      <3>1. j # Len(visited) + 1
        BY <1>2, <2>2
      <3> QED
        BY <1>3, <2>2, <3>1 DEF Upon
    <2> QED
      BY <1>2, <2>1, <2>2
  <1>5. at' = p[Len(visited') + 1]
    <2>1. Len(visited) + 1 + 1 = Len(visited) + 2
      BY <1>2
    <2> QED
      BY <1>1, <1>2, <1>3, <2>1
  <1>6. IsSequence(visited)' /\ Len(visited') < Len(p)
        /\ \A j \in 1 .. Len(visited') : visited'[j] = p[j]
    BY <1>2, <1>3, <1>4 DEF IsSequence
  <1>7. Upon(p)'
    BY <1>5, <1>6 DEF Upon
  <1> QED
    BY <1>1, <1>2, <1>3, <1>7 DEF Upon, T!At, IsArray, T!Die

LEMMA StructureSteps ==
  ASSUME TypesInv, MeantInv, step = "structure", T!Next
  PROVE  MeantInv'
  <1>1. PICK p : p = info.c.path
    OBVIOUS
  <1>2. /\ T!IsInfo(info) /\ T!IsC(info)
        /\ T!IsWholePath(info, p, {"alias"}) /\ Upon(p)
        /\ child = 1 /\ members = {} /\ open = <<>> /\ what = "none"
    BY <1>1 DEF TypesInv, MeantInv, T!IsC
  <1>3. T!Refers => T!At({"alias"})
    BY DEF T!Refers
  <1>4. /\ T!Sticks(info, p, {"alias"}) => info.c.fault
        /\ T!Exceeds(p) => info.c.deep
    BY <1>1, <1>2 DEF T!IsC
  <1>5. CASE T!TooDeep \/ T!Cycle \/ T!NoEntry \/ T!BadReference
    BY <1>2, <1>3, <1>4, <1>5, PathStops
  <1>6. CASE T!Follow
    <2>1. /\ Upon(p)' /\ at = p[Len(visited) + 1] /\ T!Die(at).tag \in {"alias"}
          /\ open' = IF IsArray(info, at) THEN Append(open, at) ELSE open
          /\ UNCHANGED <<info, step, owner, child, type, members, what>>
      BY <1>2, <1>3, <1>6, PathGoesOn
    <2>2. open' = open
      BY <2>1 DEF IsArray, T!Die
    <2>3. Upon(info.c.path)'
      BY <1>1, <2>1 DEF Upon
    <2> QED
      BY <1>2, <2>1, <2>2, <2>3 DEF MeantInv
  <1>7. ASSUME T!At(T!Tags \ {"alias"})
        PROVE  /\ at = T!Last(info.c.path) /\ T!Die(at) = T!Structure(info)
               /\ T!Arrives(info, info.c.path, {"alias"})
    <2>1. at = T!Last(p) /\ T!Arrives(info, p, {"alias"})
      BY <1>2, <1>7, OnPath DEF T!At, T!Fresh
    <2> QED
      BY <1>1, <2>1 DEF T!Die, T!Structure
  <1>8. CASE T!NotAStructure \/ T!Incomplete
    <2>1. /\ T!At(T!Tags \ {"alias"}) /\ T!Stop("broken")
          /\ T!Die(at).tag = "structure" => ~ T!IsComplete(T!Die(at))
      BY <1>8 DEF T!NotAStructure, T!Incomplete, T!At, T!Tags
    <2>2. info.c.fault
      BY <1>2, <1>7, <2>1 DEF T!IsC, T!IsStructure
    <2> QED
      BY <2>1, <2>2, StopsRightly
  <1>9. CASE T!StartMembers
    <2>1. /\ T!At(T!Tags \ {"alias"})
          /\ T!Die(at).tag = "structure" /\ T!IsComplete(T!Die(at))
          /\ owner' = at /\ step' = "members"
          /\ UNCHANGED <<info, at, visited, child, open, type, members, what>>
      BY <1>9 DEF T!StartMembers, T!At, T!Tags
    <2>2. T!IsStructure(T!Structure(info))
      BY <1>7, <2>1 DEF T!IsStructure
    <2>3. child \in 1 .. Len(T!Structure(info).children) + 1
      <3>1. T!Structure(info) = T!Die(at) /\ at.at \in DOMAIN info.dies
        BY <1>7, <2>1 DEF T!At, T!Exists
      <3>2. IsDieOf(T!Die(at))
        BY <1>2, <3>1, DieThere
      <3>3. Len(T!Structure(info).children) \in Nat
        BY <3>1, <3>2 DEF IsDieOf
      <3> QED
        BY <1>2, <3>3
    <2>4. 1 .. child - 1 = {}
      BY <1>2
    <2>5. members = FieldsBefore(child)
      BY <1>2, <2>4 DEF FieldsBefore
    <2>6. InStructure'
      BY <1>7, <2>1, <2>2, <2>3, <2>4, <2>5 DEF InStructure, FieldsBefore, ChildOf
    <2> QED
      BY <1>2, <2>1, <2>6 DEF MeantInv
  <1>10. T!TooDeep \/ T!Cycle \/ T!NoEntry \/ T!BadReference \/ T!Follow
         \/ T!NotAStructure \/ T!Incomplete \/ T!StartMembers
    BY DEF T!Next, T!SkipChild, T!BadName, T!BadMember, T!StartType, T!AtChild, T!Leaf,
           T!BadDimensions, T!CloseArray, T!AddMember, T!StructureRead
  <1> QED
    BY <1>5, <1>6, <1>8, <1>9, <1>10

\* What is known of the structure while its members are read.
LEMMA ChildIs ==
  ASSUME TypesInv, MeantInv, InStructure
  PROVE  /\ T!Die(owner) = T!Structure(info)
         /\ T!Child = ChildOf(child)
         /\ T!IsWanted(T!Child) = T!Asked(info, ChildOf(child))
         /\ owner.unit \in DOMAIN info.units
         /\ Len(T!Structure(info).children) \in Nat
         /\ \A i \in 1 .. Len(T!Structure(info).children) :
              ChildOf(i).tag = "member" => ChildOf(i).type.to \in Nat
  <1>1. T!Die(owner) = T!Structure(info)
    BY DEF InStructure, T!Die, T!Structure
  <1>2. T!Child = ChildOf(child)
    BY <1>1 DEF T!Child, ChildOf
  <1>3. T!IsWanted(T!Child) = T!Asked(info, ChildOf(child))
    BY <1>2 DEF T!IsWanted, T!Asked
  <1>4. owner.unit \in DOMAIN info.units
    <2>1. info.c.path \in Seq(T!Nodes(info)) /\ info.c.path # <<>>
      BY DEF MeantInv, T!IsC, T!IsWholePath, T!IsPath
    <2>2. T!Last(info.c.path) \in T!Nodes(info)
      BY <2>1 DEF T!Last
    <2> QED
      BY <2>2 DEF InStructure, T!Nodes
  <1>5. IsDieOf(T!Structure(info))
    <2>1. owner.at \in DOMAIN info.dies
      BY DEF InStructure, T!Arrives, T!HasDie
    <2> QED
      BY <1>1, <2>1, DieThere DEF TypesInv
  <1>6. \A i \in 1 .. Len(T!Structure(info).children) :
          ChildOf(i).tag = "member" => ChildOf(i).type.to \in Nat
    <2>1. \A i \in 1 .. Len(T!Structure(info).children) : T!IsChild(ChildOf(i))
      BY <1>5 DEF IsDieOf, ChildOf
    <2> QED
      BY <2>1 DEF T!IsChild
  <1> QED
    BY <1>1, <1>2, <1>3, <1>4, <1>5, <1>6 DEF IsDieOf

\* One more child has been read.
LEMMA ChildRead ==
  ASSUME MeantInv, InStructure, child \in 1 .. Len(T!Structure(info).children),
         Len(T!Structure(info).children) \in Nat, T!IsRead(info, child),
         members' = IF T!Asked(info, ChildOf(child))
                      THEN members \cup {T!Meant(info.c.fields[child])} ELSE members,
         child' = child + 1, step' = "members", open' = <<>>,
         UNCHANGED <<info, owner, what>>, what = "none"
  PROVE  MeantInv'
  <1>1. /\ child \in Nat /\ child' \in 1 .. Len(T!Structure(info).children) + 1
        /\ child' - 1 = child
    OBVIOUS
  <1>2. 1 .. child = (1 .. child - 1) \cup {child}
    OBVIOUS
  <1>3. \A j \in 1 .. child : T!IsRead(info, j)
    BY <1>2 DEF InStructure
  <1>4. members' = {T!Meant(info.c.fields[j]) :
                     j \in {x \in 1 .. child : T!Asked(info, ChildOf(x))}}
    BY <1>2 DEF InStructure, FieldsBefore
  <1>5. members' = FieldsBefore(child)'
    BY <1>1, <1>4 DEF FieldsBefore, ChildOf
  <1>6. InStructure'
    BY <1>1, <1>3, <1>5 DEF InStructure
  <1> QED
    BY <1>6 DEF MeantInv

LEMMA MembersSteps ==
  ASSUME TypesInv, MeantInv, step = "members", T!Next
  PROVE  MeantInv'
  <1> DEFINE n == Len(T!Structure(info).children)
             c == ChildOf(child)
  <1>1. /\ T!IsInfo(info) /\ T!IsC(info) /\ InStructure /\ what = "none" /\ open = <<>>
    BY DEF TypesInv, MeantInv
  <1>2. /\ T!Die(owner) = T!Structure(info) /\ T!Child = c
        /\ T!IsWanted(T!Child) = T!Asked(info, c)
        /\ owner.unit \in DOMAIN info.units /\ n \in Nat
        /\ \A i \in 1 .. n : ChildOf(i).tag = "member" => ChildOf(i).type.to \in Nat
    BY <1>1, ChildIs
  <1>3. child \in Nat \ {0} /\ child <= n + 1
    BY <1>1, <1>2 DEF InStructure
  <1>4. T!AtChild => child \in 1 .. n
    BY <1>2, <1>3 DEF T!AtChild
  <1>5. T!AtChild =>
          /\ c.tag = "member" =>
               /\ c.name = "undecodable" => info.c.fault
               /\ c.name = "overlong" => info.c.deep
          /\ ~ T!Asked(info, c) =>
               \/ T!IsRead(info, child)
               \/ c.tag = "member" /\ c.name \in {"undecodable", "overlong"}
          /\ T!Asked(info, c) =>
               IF ~ T!HasLocation(c) \/ T!Dangles(info, c.type)
                 THEN info.c.fault ELSE T!Starts(info, child)
    BY <1>1, <1>4, ChildVerdict DEF InStructure
  <1>6. T!AtChild /\ c.tag = "member" =>
          (T!Dangles(info, c.type) <=> T!Referent(owner.unit, c.type) = T!NoNode)
    BY <1>1, <1>2, <1>4, DanglesIs
  <1> HIDE DEF n, c
  <1>7. CASE T!SkipChild
    <2>1. /\ T!AtChild /\ ~ T!Asked(info, c)
          /\ c.tag = "member" => c.name \notin {"undecodable", "overlong"}
          /\ child' = child + 1
          /\ UNCHANGED <<info, step, owner, open, members, what>>
      BY <1>2, <1>7 DEF T!SkipChild
    <2>2. T!IsRead(info, child)
      BY <1>5, <2>1
    <2> QED
      BY <1>1, <1>2, <1>4, <2>1, <2>2, ChildRead DEF n, c
  <1>8. CASE T!BadName
    <2>1. /\ T!AtChild /\ c.tag = "member" /\ c.name \in {"undecodable", "overlong"}
          /\ T!Stop(IF c.name = "overlong" THEN "limit" ELSE "broken")
      BY <1>2, <1>8 DEF T!BadName
    <2> QED
      BY <1>5, <2>1, StopsRightly
  <1>9. CASE T!BadMember
    <2>1. /\ T!AtChild /\ T!Asked(info, c) /\ c.tag = "member" /\ T!Stop("broken")
          /\ ~ T!HasLocation(c) \/ T!Referent(owner.unit, c.type) = T!NoNode
      BY <1>2, <1>9 DEF T!BadMember, T!IsWanted
    <2> QED
      BY <1>5, <1>6, <2>1, StopsRightly
  <1>10. CASE T!StartType
    <2>1. /\ T!AtChild /\ T!Asked(info, c) /\ c.tag = "member"
          /\ T!HasLocation(c) /\ T!Referent(owner.unit, c.type) # T!NoNode
          /\ at' = T!Referent(owner.unit, c.type) /\ visited' = <<>> /\ step' = "type"
          /\ UNCHANGED <<info, owner, child, open, type, members, what>>
      BY <1>2, <1>10 DEF T!StartType, T!IsWanted
    <2>2. T!Starts(info, child)
      BY <1>5, <1>6, <2>1
    <2>3. PICK p : p = info.c.paths[child]
      OBVIOUS
    <2>4. T!IsWholePath(info, p, ToType) /\ T!Leads(info, owner.unit, c.type, p[1])
      BY <1>1, <2>2, <2>3 DEF T!Starts, ChildOf, c, InStructure, ToType
    <2>5. at' = p[1]
      BY <1>1, <1>2, <1>4, <2>1, <2>4, LeadsThere DEF n, c
    <2>6. Upon(info.c.paths[child])'
      <3>1. p \in Seq(T!Nodes(info)) /\ p # <<>>
        BY <2>4 DEF T!IsWholePath, T!IsPath
      <3>2. Len(p) \in Nat /\ Len(p) > 0
        BY <3>1
      <3>3. visited' \in Seq({}) /\ Len(visited') = 0
        BY <2>1
      <3>4. p = info'.c.paths[child']
        BY <2>1, <2>3
      <3> QED
        BY <2>1, <2>5, <3>2, <3>3, <3>4 DEF Upon, IsSequence
    <2>7. InType'
      BY <1>1, <1>4, <2>1, <2>2
         DEF InType, InStructure, FieldsBefore, ChildOf, n, c
    <2>8. ArraysOn(info, open, info.c.paths[child], Len(visited))'
      <3>1. Len(visited') = 0
        BY <2>1
      <3>2. ArraysOn(info, <<>>, p, 0)
        BY ArraysNone
      <3> QED
        BY <1>1, <2>1, <2>3, <3>1, <3>2
    <2> QED
      BY <1>1, <2>1, <2>6, <2>7, <2>8 DEF MeantInv
  <1>11. CASE T!StructureRead
    <2>1. /\ child > n /\ T!Stop("parsed")
      BY <1>2, <1>11 DEF T!StructureRead, n
    <2>2. child = n + 1 /\ child - 1 = n
      BY <1>2, <1>3, <2>1
    <2>3. \A i \in 1 .. n : T!IsRead(info, i)
      BY <1>1, <2>2 DEF InStructure
    <2>4. /\ ~ info.c.fault /\ ~ info.c.deep
          /\ DOMAIN info.c.fields = {i \in 1 .. n : ChildOf(i).tag = "member"}
      BY <1>1, <2>3 DEF T!IsC, T!ChildrenAreC, InStructure, ChildOf, n
    <2>5. \A i \in DOMAIN info.c.fields : info.c.fields[i].name = ChildOf(i).name
      BY <2>3, <2>4 DEF T!IsRead, ChildOf
    <2>6. {i \in DOMAIN info.c.fields :
             info.c.fields[i].name \in T!WantedNames(info.target)}
            = {i \in 1 .. n : T!Asked(info, ChildOf(i))}
      BY <2>4, <2>5 DEF T!Asked
    <2>7. members = {T!Meant(info.c.fields[i]) :
                      i \in {x \in 1 .. n : T!Asked(info, ChildOf(x))}}
      BY <1>1, <2>2 DEF InStructure, FieldsBefore
    <2>8. step' = "done" /\ what' = "parsed" /\ UNCHANGED <<info, members>>
      BY <2>1 DEF T!Stop
    <2>9. DefinitionIsMeant'
      BY <2>4, <2>6, <2>7, <2>8 DEF DefinitionIsMeant, T!DefinitionIsMeant
    <2> QED
      BY <1>1, <2>8, <2>9 DEF MeantInv
  <1>12. T!SkipChild \/ T!BadName \/ T!BadMember \/ T!StartType \/ T!StructureRead
    BY DEF T!Next, T!TooDeep, T!Cycle, T!NoEntry, T!BadReference, T!Follow, T!Refers, T!At,
           T!Fresh, T!Chasing, T!NotAStructure, T!Incomplete, T!StartMembers, T!Leaf,
           T!BadDimensions, T!CloseArray, T!AddMember
  <1> QED
    BY <1>7, <1>8, <1>9, <1>10, <1>11, <1>12

LEMMA PathSteps ==
  ASSUME TypesInv, MeantInv, step = "type", T!Next
  PROVE  MeantInv'
  <1>1. PICK p : p = info.c.paths[child]
    OBVIOUS
  <1>2. /\ T!IsInfo(info) /\ T!IsC(info) /\ InType /\ InStructure /\ what = "none"
        /\ Upon(p) /\ ArraysOn(info, open, p, Len(visited))
    BY <1>1 DEF TypesInv, MeantInv, InType
  <1>3. T!IsWholePath(info, p, ToType)
    BY <1>1, <1>2 DEF InType, T!Starts, ToType
  <1>4. T!Refers => T!At(ToType)
    BY DEF T!Refers, T!At, ToType
  <1>5. /\ T!Sticks(info, p, ToType) => info.c.fault
        /\ T!Exceeds(p) => info.c.deep
        /\ T!Arrives(info, p, ToType) =>
             T!IsRead(info, child) \/ (info.c.fault /\ HasBadArray(p, Len(p) - 1))
    BY <1>1, <1>2, ChildVerdict DEF InType, InStructure
  <1>6. CASE T!TooDeep \/ T!Cycle \/ T!NoEntry \/ T!BadReference
    BY <1>2, <1>3, <1>4, <1>5, <1>6, PathStops
  <1>7. CASE T!Follow
    <2>1. /\ Upon(p)' /\ Len(visited') = Len(visited) + 1 /\ Len(visited) \in Nat
          /\ at = p[Len(visited) + 1]
          /\ open' = IF IsArray(info, at) THEN Append(open, at) ELSE open
          /\ UNCHANGED <<info, step, owner, child, type, members, what>>
      BY <1>2, <1>3, <1>4, <1>7, PathGoesOn
    <2>2. Upon(info.c.paths[child])'
      BY <1>1, <2>1 DEF Upon
    <2>3. ArraysOn(info, open', p, Len(visited) + 1)
      BY <1>2, <2>1, ArraysFollow
    <2>4. ArraysOn(info, open, info.c.paths[child], Len(visited))'
      BY <1>1, <2>1, <2>3
    <2>5. InType'
      BY <1>2, <2>1 DEF InType, InStructure, FieldsBefore, ChildOf
    <2> QED
      BY <1>2, <2>1, <2>2, <2>4, <2>5 DEF MeantInv
  <1>8. CASE T!Leaf
    <2>1. /\ T!At(T!Tags \ ToType) /\ type' = T!LeafType(T!Die(at)) /\ step' = "unwind"
          /\ UNCHANGED <<info, at, visited, owner, child, open, members, what>>
      BY <1>8 DEF T!Leaf, ToType
    <2>2. /\ Len(visited) \in Nat /\ Len(p) = Len(visited) + 1 /\ at = T!Last(p)
          /\ T!Arrives(info, p, ToType)
      BY <1>2, <1>3, <2>1, OnPath DEF T!At, T!Fresh
    <2>3. T!Die(at) = info.dies[T!Last(p).at] /\ T!Die(at).tag \in T!Tags \ {"alias", "array"}
      BY <2>1, <2>2 DEF T!Die, T!At, ToType
    <2> DEFINE ty == info.c.fields[child].type
               m == Len(visited)
    <2>4. m \in 0 .. Len(p) - 1 /\ Len(p) - 1 = m
      BY <2>2
    <2>5. T!IsRead(info, child) => Len(ty.layers) = m /\ type' = T!Inner(ty)[Len(ty.layers) - m]
      <3> SUFFICES ASSUME T!IsRead(info, child)
                   PROVE  Len(ty.layers) = m /\ type' = T!Inner(ty)[Len(ty.layers) - m]
        OBVIOUS
      <3>1. T!IsWritten(info, ty, p)
        BY <1>1, <1>2, AskedNames DEF T!IsRead, InType, ChildOf
      <3>2. Len(ty.layers) = m /\ T!IsLeaf(T!Die(at), ty)
        BY <2>3, <2>4, <3>1 DEF T!IsWritten
      <3>3. type' = LeafOf(ty)
        BY <2>1, <2>3, <3>2, LeafLayer
      <3>4. Len(ty.layers) \in Nat /\ Len(ty.layers) - m = 0
        BY <2>2, <3>2
      <3> QED
        BY <3>2, <3>3, <3>4, InnerIs
    <2>6. OpenUpTo(info.c.paths[child], ty, m)'
      <3>1. ArraysOn(info, open, p, m)
        BY <1>2
      <3>2. \/ T!IsRead(info, child) /\ type' = T!Inner(ty)[Len(ty.layers) - m]
            \/ info.c.fault /\ HasBadArray(p, m)
        BY <1>5, <2>2, <2>4, <2>5
      <3> QED
        BY <1>1, <2>1, <3>1, <3>2 DEF OpenUpTo, HasBadArray
    <2>7. InType'
      BY <1>2, <2>1 DEF InType, InStructure, FieldsBefore, ChildOf
    <2>8. T!Arrives(info, info.c.paths[child], ToType)'
      BY <1>1, <2>1, <2>2
    <2>9. \E x \in 0 .. Len(info'.c.paths[child']) - 1 :
            OpenUpTo(info.c.paths[child], info.c.fields[child].type, x)'
      BY <1>1, <2>1, <2>4, <2>6
    <2> QED
      BY <1>2, <2>1, <2>7, <2>8, <2>9 DEF MeantInv
  <1>9. T!TooDeep \/ T!Cycle \/ T!NoEntry \/ T!BadReference \/ T!Follow \/ T!Leaf
    BY DEF T!Next, T!NotAStructure, T!Incomplete, T!StartMembers, T!SkipChild, T!BadName,
           T!BadMember, T!StartType, T!AtChild, T!BadDimensions, T!CloseArray, T!AddMember,
           T!StructureRead
  <1> QED
    BY <1>6, <1>7, <1>8, <1>9

LEMMA UnwindSteps ==
  ASSUME TypesInv, MeantInv, step = "unwind", T!Next
  PROVE  MeantInv'
  <1>1. PICK p : p = info.c.paths[child]
    OBVIOUS
  <1>2. PICK ty : ty = info.c.fields[child].type
    OBVIOUS
  <1>3. /\ T!IsInfo(info) /\ T!IsC(info) /\ InType /\ InStructure /\ what = "none"
        /\ T!Arrives(info, p, ToType)
    BY <1>1 DEF TypesInv, MeantInv, InType
  <1>4. PICK m \in 0 .. Len(p) - 1 : OpenUpTo(p, ty, m)
    BY <1>1, <1>2 DEF MeantInv
  <1>5. /\ Len(p) \in Nat /\ m \in Nat
        /\ \A j \in 1 .. Len(p) - 1 :
             /\ IsDieOf(info.dies[p[j].at])
             /\ info.dies[p[j].at].tag \in {"alias", "array"}
    <2>1. T!IsWholePath(info, p, ToType)
      BY <1>1, <1>3 DEF InType, T!Starts, ToType
    <2>2. Len(p) \in Nat
      BY <2>1 DEF T!IsWholePath, T!IsPath
    <2>3. \A j \in 1 .. Len(p) - 1 :
            p[j].at \in DOMAIN info.dies /\ info.dies[p[j].at].tag \in {"alias", "array"}
      BY <2>1 DEF T!IsWholePath, T!IsPath, T!HasDie, ToType
    <2>4. \A j \in 1 .. Len(p) - 1 : IsDieOf(info.dies[p[j].at])
      BY <1>3, <2>3, DieThere DEF T!Die
    <2> QED
      BY <1>4, <2>2, <2>3, <2>4
  <1>6. T!IsRead(info, child) =>
          /\ Len(ty.layers) = Len(p) - 1 /\ Len(ty.layers) \in Nat
          /\ \A j \in 1 .. Len(p) - 1 :
               /\ T!IsLayer(info.dies[p[j].at], ty, j)
               /\ ~ IsArray(info, p[j]) => ty.layers[j] = <<>>
    <2> SUFFICES ASSUME T!IsRead(info, child)
                 PROVE  /\ Len(ty.layers) = Len(p) - 1 /\ Len(ty.layers) \in Nat
                        /\ \A j \in 1 .. Len(p) - 1 :
                             /\ T!IsLayer(info.dies[p[j].at], ty, j)
                             /\ ~ IsArray(info, p[j]) => ty.layers[j] = <<>>
      OBVIOUS
    <2>1. T!IsWritten(info, ty, p)
      BY <1>1, <1>2, <1>3, AskedNames DEF T!IsRead, InType, ChildOf
    <2>2. Len(ty.layers) = Len(p) - 1 /\ Len(ty.layers) \in Nat
      BY <2>1 DEF T!IsWritten
    <2>3. \A j \in 1 .. Len(p) - 1 : T!IsLayer(info.dies[p[j].at], ty, j)
      BY <2>1, <2>2 DEF T!IsWritten
    <2> QED
      BY <2>2, <2>3 DEF T!IsLayer, IsArray
  <1>7. ASSUME open # <<>>
        PROVE  \E a \in 1 .. m :
                 /\ T!Last(open) = p[a] /\ IsArray(info, p[a])
                 /\ ArraysOn(info, T!Front(open), p, a - 1)
                 /\ \A j \in a + 1 .. m : ~ IsArray(info, p[j])
    BY <1>4, <1>5, <1>7, ArraysClose DEF OpenUpTo
  <1>8. ASSUME NEW a \in 1 .. m, T!IsRead(info, child), IsArray(info, p[a])
        PROVE  /\ ~ T!Invalid(info.dies[p[a].at])
               /\ T!ArrayType(info.dies[p[a].at], T!Inner(ty)[Len(ty.layers) - a])
                    = T!Inner(ty)[Len(ty.layers) - (a - 1)]
    <2>1. a \in 1 .. Len(p) - 1 /\ a \in 1 .. Len(ty.layers)
      BY <1>4, <1>5, <1>6, <1>8
    <2> QED
      BY <1>5, <1>6, <1>8, <2>1, ArrayLayer DEF IsArray
  <1>9. CASE T!BadDimensions
    <2>1. open # <<>> /\ T!Invalid(T!Die(T!Last(open))) /\ T!Stop("broken")
      BY <1>9 DEF T!BadDimensions
    <2>2. PICK a \in 1 .. m : T!Last(open) = p[a] /\ IsArray(info, p[a])
      BY <1>7, <2>1
    <2>3. ~ T!IsRead(info, child)
      BY <1>8, <2>1, <2>2 DEF T!Die
    <2>4. info.c.fault
      BY <1>4, <2>3 DEF OpenUpTo
    <2> QED
      BY <2>1, <2>4, StopsRightly
  <1>10. CASE T!CloseArray
    <2>1. /\ open # <<>> /\ ~ T!Invalid(T!Die(T!Last(open)))
          /\ type' = T!ArrayType(T!Die(T!Last(open)), type) /\ open' = T!Front(open)
          /\ UNCHANGED <<info, step, at, visited, owner, child, members, what>>
      BY <1>10 DEF T!CloseArray
    <2>2. PICK a \in 1 .. m :
            /\ T!Last(open) = p[a] /\ IsArray(info, p[a])
            /\ ArraysOn(info, T!Front(open), p, a - 1)
            /\ \A j \in a + 1 .. m : ~ IsArray(info, p[j])
      BY <1>7, <2>1
    <2>3. a \in 1 .. Len(p) - 1 /\ a - 1 \in 0 .. Len(p) - 1 /\ a <= m
      BY <1>4, <1>5, <2>2
    <2>4. ASSUME T!IsRead(info, child), type = T!Inner(ty)[Len(ty.layers) - m]
          PROVE  type' = T!Inner(ty)[Len(ty.layers) - (a - 1)]
      <3>1. /\ Len(ty.layers) \in Nat /\ m \in 0 .. Len(ty.layers) /\ a \in 0 .. Len(ty.layers)
            /\ \A j \in a + 1 .. m : j \in 1 .. Len(p) - 1
        BY <1>4, <1>5, <1>6, <2>3, <2>4
      <3>2. \A j \in a + 1 .. m : ty.layers[j] = <<>>
        BY <1>6, <2>2, <2>4, <3>1
      <3>3. type = T!Inner(ty)[Len(ty.layers) - a]
        BY <2>3, <2>4, <3>1, <3>2, AliasesAreNothing
      <3> QED
        BY <1>8, <2>1, <2>2, <2>4, <3>3 DEF T!Die
    <2>5. ASSUME HasBadArray(p, m) PROVE HasBadArray(p, a - 1)
      <3>1. PICK j \in 1 .. m :
              IsArray(info, p[j]) /\ T!Contradictory(info.dies[p[j].at])
        BY <2>5 DEF HasBadArray
      <3>2. j # a
        BY <1>5, <2>1, <2>2, <2>3, <3>1, ContradictoryIs DEF T!Die
      <3>3. j \notin a + 1 .. m
        BY <2>2, <3>1
      <3>4. j \in 1 .. a - 1
        BY <1>5, <2>3, <3>2, <3>3
      <3> QED
        BY <3>1, <3>4 DEF HasBadArray
    <2>6. \/ T!IsRead(info, child) /\ type' = T!Inner(ty)[Len(ty.layers) - (a - 1)]
          \/ info.c.fault /\ HasBadArray(p, a - 1)
      BY <1>4, <2>4, <2>5 DEF OpenUpTo
    <2>7. OpenUpTo(info.c.paths[child], info.c.fields[child].type, a - 1)'
      BY <1>1, <1>2, <2>1, <2>2, <2>6 DEF OpenUpTo, HasBadArray
    <2>8. \E x \in 0 .. Len(info'.c.paths[child']) - 1 :
            OpenUpTo(info.c.paths[child], info.c.fields[child].type, x)'
      BY <1>1, <2>1, <2>3, <2>7
    <2>9. InType'
      BY <1>3, <2>1 DEF InType, InStructure, FieldsBefore, ChildOf
    <2>10. T!Arrives(info, info.c.paths[child], ToType)'
      BY <1>1, <1>3, <2>1
    <2> QED
      BY <1>3, <2>1, <2>8, <2>9, <2>10 DEF MeantInv
  <1>11. CASE T!AddMember
    <2>1. /\ open = <<>> /\ members' = members \cup {T!MemberOf(T!Child, type)}
          /\ child' = child + 1 /\ step' = "members"
          /\ UNCHANGED <<info, at, visited, owner, open, what>>
      BY <1>11 DEF T!AddMember
    <2>2. \A j \in 1 .. m : ~ IsArray(info, p[j])
      BY <1>4, <1>5, <2>1, ArraysNone DEF OpenUpTo
    <2>3. T!IsRead(info, child) /\ type = T!Inner(ty)[Len(ty.layers) - m]
      BY <1>4, <2>2 DEF OpenUpTo, HasBadArray
    <2>4. type = T!Inner(ty)[Len(ty.layers)]
      <3>1. /\ Len(ty.layers) \in Nat /\ m \in 0 .. Len(ty.layers) /\ 0 \in 0 .. Len(ty.layers)
            /\ 0 <= m /\ Len(ty.layers) - 0 = Len(ty.layers)
            /\ \A j \in 0 + 1 .. m : j \in 1 .. m /\ j \in 1 .. Len(p) - 1
        BY <1>4, <1>5, <1>6, <2>3
      <3>2. \A j \in 0 + 1 .. m : ty.layers[j] = <<>>
        BY <1>6, <2>2, <2>3, <3>1
      <3> QED
        BY <2>3, <3>1, <3>2, AliasesAreNothing
    <2>5. T!Child = ChildOf(child) /\ Len(T!Structure(info).children) \in Nat
      BY <1>3, ChildIs
    <2>6. /\ info.c.fields[child].name = ChildOf(child).name
          /\ info.c.fields[child].offset = ChildOf(child).location.offset
      BY <1>3, <2>3, AskedNames DEF T!IsRead, InType, ChildOf
    <2>7. T!MemberOf(T!Child, type) = T!Meant(info.c.fields[child])
      BY <1>2, <2>4, <2>5, <2>6 DEF T!MemberOf, T!Meant
    <2> QED
      BY <1>3, <2>1, <2>3, <2>5, <2>7, ChildRead DEF InType
  <1>12. T!BadDimensions \/ T!CloseArray \/ T!AddMember
    BY DEF T!Next, T!TooDeep, T!Cycle, T!NoEntry, T!BadReference, T!Follow, T!Refers, T!At,
           T!Fresh, T!Chasing, T!NotAStructure, T!Incomplete, T!StartMembers, T!SkipChild,
           T!BadName, T!BadMember, T!StartType, T!AtChild, T!Leaf, T!StructureRead
  <1> QED
    BY <1>9, <1>10, <1>11, <1>12

LEMMA StepMeant == TypesInv /\ MeantInv /\ [T!Next]_typeVars => MeantInv'
  <1> SUFFICES ASSUME TypesInv, MeantInv, [T!Next]_typeVars PROVE MeantInv'
    OBVIOUS
  <1>1. CASE UNCHANGED typeVars
    <2>1. UNCHANGED <<info, step, at, visited, owner, child, open, type, members, what>>
      BY <1>1 DEF typeVars
    <2> QED
      BY <2>1 DEF MeantInv, Upon, InType, InStructure, FieldsBefore, ChildOf, OpenUpTo,
                  HasBadArray, DefinitionIsMeant, T!DefinitionIsMeant
  <1>2. CASE T!Next
    <2>1. step \in {"structure", "members", "type", "unwind"}
      BY <1>2 DEF T!Next, T!TooDeep, T!Cycle, T!NoEntry, T!BadReference, T!Follow, T!Refers,
                  T!At, T!Fresh, T!Chasing, T!NotAStructure, T!Incomplete, T!StartMembers,
                  T!SkipChild, T!BadName, T!BadMember, T!StartType, T!AtChild, T!Leaf,
                  T!BadDimensions, T!CloseArray, T!AddMember, T!StructureRead
    <2> QED
      BY <1>2, <2>1, StructureSteps, MembersSteps, PathSteps, UnwindSteps
  <1> QED
    BY <1>1, <1>2

(* A definition is read as what it means in C, all of its wanted members   *)
(* and no other, however it is spread over units and typedefs; a damaged   *)
(* one is refused as broken and an overlong one as beyond the limit, and   *)
(* none is refused that is whole (resolve_structure, parse_structure,      *)
(* resolve_type).                                                          *)
THEOREM DefinitionAlwaysMeant == FileSpec => []DefinitionIsMeant
  <1>1. MeantInv => DefinitionIsMeant
    BY DEF MeantInv, DefinitionIsMeant, T!DefinitionIsMeant
  <1>2. FileInit => TypesInv /\ MeantInv
    BY InitTypes, InitMeant
  <1>3. TypesInv /\ MeantInv /\ [FileNext]_<<vars, sectionVars, typeVars>>
          => TypesInv' /\ MeantInv'
    BY TypeSteps, StepTypes, StepMeant
  <1> QED
    BY <1>1, <1>2, <1>3, PTL DEF FileSpec

-----------------------------------------------------------------------------
(* The scan.  Before a definition is taken it is counted, before a unit is *)
(* left all its definitions are taken, and each is taken as often as it is *)
(* there; so select sees the candidates of the whole file.                 *)

\* The DIEs counted so far.
Scanned(p) ==
  \/ pc = "dies" /\ (p[1] < u \/ (p[1] = u /\ p[2] < k))
  \/ pc = "resolve" /\ p[1] <= u
  \/ pc = "select"

ScannedPlaces == {p \in Places : Scanned(p)}
ScannedWanted == {p \in WantedPlaces : Scanned(p)}

\* The wanted ones of this unit, and those whose structure has been taken.
FoundDies == {DieAt(p) : p \in {q \in ScannedWanted : q[1] = u}}

EarlierDies ==
  {DieAt(p) : p \in {q \in WantedPlaces : pc # "headers" /\ q[1] < u}}

ResolvedDies == {found[m] : m \in {n \in 1 .. Len(found) : pc = "resolve" /\ n < k}}

TakenDies == EarlierDies \cup ResolvedDies

StructsTaken(t) == {d.struct : d \in {e \in TakenDies : e.name = t /\ Parses(e)}}

Idle == status # "loaded" => pc = "headers" /\ u = 1

Position ==
  /\ pc \in {"headers", "dies", "resolve", "select", "done"}
  /\ u \in Nat \ {0} /\ k \in Nat \ {0}
  /\ u <= Len(file.units) + 1
  /\ pc = "headers" => k = 1
  /\ pc \in {"dies", "resolve"} => u <= Len(file.units)
  /\ pc = "resolve" => k <= Len(found) + 1
  /\ pc = "select" => u = Len(file.units) + 1 /\ k <= Required + 1

UnitsPassed ==
  /\ pc = "headers" => u - 1 <= MaxUnits
  /\ pc \in {"dies", "resolve", "select"} =>
       /\ Len(file.units) \in 1 .. MaxUnits
       /\ \A i \in 1 .. Len(file.units) :
            i < u \/ (pc = "resolve" /\ i = u) => file.units[i].kind = "compile"

Counted ==
  pc # "done" =>
    /\ dies = Cardinality(ScannedPlaces) /\ dies <= MaxDies
    /\ candidateCount = Cardinality(ScannedWanted) /\ candidateCount <= MaxCandidates
    /\ \A p \in ScannedPlaces : DieAt(p).name # "undecodable"

FoundHere ==
  /\ IsSequence(found)
  /\ pc \in {"headers", "select"} => found = <<>>
  /\ pc \in {"dies", "resolve"} => {found[m] : m \in 1 .. Len(found)} = FoundDies

SeenHere ==
  /\ pc \in {"headers", "dies", "select"} => seen = {}
  /\ pc = "resolve" => seen = {Key(d) : d \in ResolvedDies}

CandidatesTaken ==
  pc # "done" =>
    /\ \A d \in TakenDies : d.what \in {"parsed", "broken"}
    /\ DOMAIN candidates = TargetSet
    /\ \A t \in TargetSet :
         /\ IsSequence(candidates[t])
         /\ {candidates[t][m] : m \in 1 .. Len(candidates[t])} = StructsTaken(t)

\* The structures the file defines for a target.
Structs(t) == {d.struct : d \in {e \in AllDies : e.name = t}}

LayoutInFile ==
  /\ DOMAIN layout = TargetSet
  /\ pc \in {"headers", "dies", "resolve"} => \A t \in TargetSet : layout[t] = None
  /\ pc = "select" =>
       \A i \in 1 .. Required : i < k => UsableLayouts(Targets[i]) = {layout[Targets[i]]}
  /\ \A t \in TargetSet :
       layout[t] # None =>
         \E s \in Structs(t) : layout[t] = Layout(t, s) /\ Validates(t, s)

Verdict ==
  /\ pc # "done" => result = "none"
  /\ AcceptedIsUnanimous
  /\ RejectedHasCause

ScanInv ==
  /\ IsDebugFile(file)
  /\ Idle
  /\ Position
  /\ UnitsPassed
  /\ Counted
  /\ FoundHere
  /\ SeenHere
  /\ CandidatesTaken
  /\ LayoutInFile
  /\ Verdict

-----------------------------------------------------------------------------
\* What only the file decides.
Cause == ~ Readable \/ \E t \in Wanted : Cardinality(UsableLayouts(t)) # 1

LEMMA SameFile ==
  ASSUME UNCHANGED file
  PROVE  /\ IsDebugFile(file)' = IsDebugFile(file)
         /\ Places' = Places /\ WantedPlaces' = WantedPlaces /\ AllDies' = AllDies
         /\ \A p : DieAt(p)' = DieAt(p)
         /\ \A t : Structs(t)' = Structs(t) /\ UsableLayouts(t)' = UsableLayouts(t)
         /\ Required' = Required /\ Wanted' = Wanted /\ Cause' = Cause
         /\ Readable' = Readable
  <1>1. Places' = Places /\ (\A p : DieAt(p)' = DieAt(p)) /\ IsDebugFile(file)' = IsDebugFile(file)
    BY DEF Places, DieAt
  <1>2. AllDies' = AllDies /\ WantedPlaces' = WantedPlaces
    BY <1>1 DEF AllDies, WantedPlaces
  <1>3. Readable' = Readable
    BY <1>1, <1>2 DEF Readable
  <1>4. \A t : Structs(t)' = Structs(t) /\ UsableLayouts(t)' = UsableLayouts(t)
    BY <1>2 DEF Structs, UsableLayouts, Usable
  <1>5. Required' = Required /\ Wanted' = Wanted
    BY DEF Required, Wanted
  <1>6. Cause' = Cause
    BY <1>3, <1>4, <1>5 DEF Cause
  <1> QED
    BY <1>1, <1>2, <1>3, <1>4, <1>5, <1>6

(* A place is a unit and a DIE in it.                                      *)
LEMMA PlaceIs ==
  ASSUME IsDebugFile(file)
  PROVE  /\ Len(file.units) \in Nat /\ DOMAIN file.units = 1 .. Len(file.units)
         /\ \A i \in 1 .. Len(file.units) :
              /\ Len(file.units[i].dies) \in Nat
              /\ DOMAIN file.units[i].dies = 1 .. Len(file.units[i].dies)
         /\ \A i \in 1 .. Len(file.units) : \A j \in 1 .. Len(file.units[i].dies) :
              <<i, j>> \in Places /\ DieAt(<<i, j>>) = file.units[i].dies[j]
         /\ \A p \in Places :
              /\ p = <<p[1], p[2]>>
              /\ p[1] \in 1 .. Len(file.units)
              /\ p[2] \in 1 .. Len(file.units[p[1]].dies)
         /\ Required \in {3, 4}
  <1>1. Len(file.units) \in Nat /\ DOMAIN file.units = 1 .. Len(file.units)
    BY DEF IsDebugFile
  <1>2. \A i \in 1 .. Len(file.units) :
              /\ Len(file.units[i].dies) \in Nat
              /\ DOMAIN file.units[i].dies = 1 .. Len(file.units[i].dies)
    BY <1>1 DEF IsDebugFile
  <1>3. ASSUME NEW i \in 1 .. Len(file.units), NEW j \in 1 .. Len(file.units[i].dies)
        PROVE  <<i, j>> \in Places /\ DieAt(<<i, j>>) = file.units[i].dies[j]
    BY <1>1, <1>2 DEF Places, DieAt
  <1>4. ASSUME NEW p \in Places
        PROVE  /\ p = <<p[1], p[2]>>
               /\ p[1] \in 1 .. Len(file.units)
               /\ p[2] \in 1 .. Len(file.units[p[1]].dies)
    <2>1. PICK i \in DOMAIN file.units : p \in {i} \X DOMAIN file.units[i].dies
      BY DEF Places
    <2>2. p = <<p[1], p[2]>> /\ p[1] = i /\ p[2] \in DOMAIN file.units[i].dies
      BY <2>1
    <2> QED
      BY <1>1, <1>2, <2>2
  <1> QED
    BY <1>1, <1>2, <1>3, <1>4 DEF Required

LEMMA PlacesFinite ==
  ASSUME IsDebugFile(file)
  PROVE  IsFiniteSet(Places) /\ IsFiniteSet(WantedPlaces)
         /\ IsFiniteSet(ScannedPlaces) /\ IsFiniteSet(ScannedWanted)
  <1> DEFINE n == Len(file.units)
             In(i) == {i} \X DOMAIN file.units[i].dies
             f == [i \in 1 .. n |-> In(i)]
             Sets == {f[i] : i \in 1 .. n}
  <1>a. \A m \in Nat : IsFiniteSet(1 .. m)
    BY FS_Interval
  <1>b. n \in Nat /\ DOMAIN file.units = 1 .. n
    BY PlaceIs
  <1>1. IsFiniteSet(1 .. n) /\ n \in Nat /\ DOMAIN file.units = 1 .. n
    BY <1>a, <1>b
  <1>2. Places = UNION Sets
    BY <1>1 DEF Places
  <1>3. ASSUME NEW i \in 1 .. n PROVE IsFiniteSet(f[i])
    <2>a. /\ Len(file.units[i].dies) \in Nat
          /\ DOMAIN file.units[i].dies = 1 .. Len(file.units[i].dies)
      BY PlaceIs
    <2>1. IsFiniteSet({i}) /\ IsFiniteSet(DOMAIN file.units[i].dies)
      BY <1>a, <2>a, FS_Singleton
    <2>2. IsFiniteSet(In(i))
      BY <2>1, FS_Product
    <2> QED
      BY <2>2
  <1> HIDE DEF f
  <1>4. f \in [1 .. n -> Sets] /\ \A s \in Sets : \E i \in 1 .. n : f[i] = s
    BY DEF f
  <1>5. f \in Surjection(1 .. n, Sets)
    BY <1>4 DEF Surjection
  <1>6. IsFiniteSet(Sets)
    BY <1>1, <1>5, FS_Surjection
  <1>7. \A s \in Sets : IsFiniteSet(s)
    BY <1>3
  <1> HIDE DEF Sets
  <1>8. IsFiniteSet(Places)
    BY <1>2, <1>6, <1>7, FS_UNION
  <1>9. /\ WantedPlaces \subseteq Places
        /\ ScannedPlaces \subseteq Places /\ ScannedWanted \subseteq Places
    BY DEF WantedPlaces, ScannedPlaces, ScannedWanted
  <1> QED
    BY <1>8, <1>9, FS_Subset

LEMMA InitScan == FileInit => ScanInv
  <1> SUFFICES ASSUME FileInit PROVE ScanInv
    OBVIOUS
  <1>1. /\ IsDebugFile(file) /\ MaxUnits \in Nat /\ MaxDies \in Nat /\ MaxCandidates \in Nat
    BY DwarfFileAssumption, DwarfScanAssumption DEF FileInit
  <1>2. /\ pc = "headers" /\ u = 1 /\ k = 1 /\ dies = 0 /\ candidateCount = 0
        /\ found = <<>> /\ seen = {}
        /\ candidates = [t \in TargetSet |-> <<>>]
        /\ layout = [t \in TargetSet |-> None]
        /\ result = "none"
    BY DEF FileInit
  <1>3. /\ ScannedPlaces = {} /\ ScannedWanted = {}
        /\ EarlierDies = {} /\ ResolvedDies = {} /\ TakenDies = {}
    BY <1>2 DEF ScannedPlaces, ScannedWanted, Scanned, EarlierDies, ResolvedDies, TakenDies
  <1>4. Position /\ UnitsPassed /\ Idle /\ SeenHere
    BY <1>1, <1>2, PlaceIs DEF Position, UnitsPassed, Idle, SeenHere
  <1>5. Counted
    BY <1>1, <1>2, <1>3, FS_EmptySet DEF Counted
  <1>6. IsSequence(<<>>)
    BY DEF IsSequence
  <1>7. FoundHere
    BY <1>2, <1>6 DEF FoundHere
  <1>8. CandidatesTaken
    <2>1. \A t \in TargetSet : StructsTaken(t) = {}
      BY <1>3 DEF StructsTaken
    <2>2. ASSUME NEW t \in TargetSet
          PROVE  /\ IsSequence(candidates[t])
                 /\ {candidates[t][m] : m \in 1 .. Len(candidates[t])} = {}
      <3>1. candidates[t] = <<>>
        BY <1>2
      <3> QED
        BY <3>1, <1>6
    <2> QED
      BY <1>2, <1>3, <2>1, <2>2 DEF CandidatesTaken
  <1>9. LayoutInFile
    BY <1>2 DEF LayoutInFile
  <1>10. Verdict
    BY <1>2 DEF Verdict, AcceptedIsUnanimous, RejectedHasCause
  <1> QED
    BY <1>1, <1>4, <1>5, <1>7, <1>8, <1>9, <1>10 DEF ScanInv

-----------------------------------------------------------------------------
(* Whatever ends the extraction is in the file.                            *)

LEMMA DieInFile ==
  ASSUME IsDebugFile(file), NEW p \in Places
  PROVE  DieAt(p) \in AllDies /\ IsDie(DieAt(p))
  BY PlaceIs DEF AllDies, IsDebugFile, DieAt

(* The DIE looked at is one not counted yet.                               *)
LEMMA NextPlace ==
  ASSUME ScanInv, AtDie
  PROVE  /\ <<u, k>> \in Places /\ DieAt(<<u, k>>) = Die
         /\ <<u, k>> \notin ScannedPlaces /\ <<u, k>> \notin ScannedWanted
  <1>1. u \in 1 .. Len(file.units) /\ k \in 1 .. Len(file.units[u].dies)
    <2>1. IsDebugFile(file) /\ u \in Nat \ {0} /\ k \in Nat \ {0} /\ u <= Len(file.units)
      BY DEF ScanInv, Position, AtDie
    <2>2. u \in 1 .. Len(file.units)
      BY <2>1, PlaceIs
    <2>3. Len(file.units[u].dies) \in Nat
      BY <2>1, <2>2, PlaceIs
    <2> QED
      BY <2>1, <2>2, <2>3 DEF AtDie
  <1>2. <<u, k>> \in Places /\ DieAt(<<u, k>>) = Die
    BY <1>1, PlaceIs DEF ScanInv, Die
  <1>3. ~ Scanned(<<u, k>>)
    BY <1>1 DEF Scanned, AtDie
  <1> QED
    BY <1>2, <1>3 DEF ScannedPlaces, ScannedWanted

(* Every definition found is one of the unit.                              *)
LEMMA FoundIsThere ==
  ASSUME ScanInv, pc = "resolve", NEW m \in 1 .. Len(found)
  PROVE  \E p \in WantedPlaces : p \in Places /\ p[1] = u /\ DieAt(p) = found[m]
  <1>1. found[m] \in FoundDies
    BY DEF ScanInv, FoundHere
  <1> QED
    BY <1>1 DEF FoundDies, ScannedWanted, WantedPlaces

LEMMA LimitsAreCauses ==
  ASSUME ScanInv, AtDie, Exhausted
  PROVE  ~ Readable
  <1> DEFINE q == <<u, k>>
  <1>1. /\ IsFiniteSet(Places) /\ IsFiniteSet(WantedPlaces)
        /\ IsFiniteSet(ScannedPlaces) /\ IsFiniteSet(ScannedWanted)
    BY PlacesFinite DEF ScanInv
  <1>2. /\ q \in Places /\ DieAt(q) = Die
        /\ q \notin ScannedPlaces /\ q \notin ScannedWanted
    BY NextPlace
  <1>3. /\ dies = Cardinality(ScannedPlaces)
        /\ candidateCount = Cardinality(ScannedWanted)
    BY DEF ScanInv, Counted, AtDie
  <1> HIDE DEF q
  <1>4. MaxDies \in Nat /\ MaxCandidates \in Nat
    BY DwarfScanAssumption
  <1>5. CASE dies + 1 > MaxDies
    <2>1. ScannedPlaces \cup {q} \subseteq Places
      BY <1>2 DEF ScannedPlaces
    <2>2. /\ Cardinality(ScannedPlaces \cup {q}) = dies + 1
          /\ IsFiniteSet(ScannedPlaces \cup {q}) /\ dies \in Nat
      BY <1>1, <1>2, <1>3, FS_AddElement, FS_CardinalityType
    <2>3. dies + 1 <= Cardinality(Places) /\ Cardinality(Places) \in Nat
      BY <1>1, <2>1, <2>2, FS_Subset, FS_CardinalityType
    <2> QED
      BY <1>4, <1>5, <2>2, <2>3 DEF Readable
  <1>6. CASE Die.name \in TargetSet /\ candidateCount + 1 > MaxCandidates
    <2>1. ScannedWanted \cup {q} \subseteq WantedPlaces
      BY <1>2, <1>6 DEF ScannedWanted, WantedPlaces
    <2>2. /\ Cardinality(ScannedWanted \cup {q}) = candidateCount + 1
          /\ IsFiniteSet(ScannedWanted \cup {q}) /\ candidateCount \in Nat
      BY <1>1, <1>2, <1>3, FS_AddElement, FS_CardinalityType
    <2>3. /\ candidateCount + 1 <= Cardinality(WantedPlaces)
          /\ Cardinality(WantedPlaces) \in Nat
      BY <1>1, <2>1, <2>2, FS_Subset, FS_CardinalityType
    <2> QED
      BY <1>4, <1>6, <2>2, <2>3 DEF Readable
  <1> QED
    BY <1>5, <1>6 DEF Exhausted

(* In select the candidates are those of the file.                         *)
LEMMA CandidatesAreUsable ==
  ASSUME ScanInv, pc = "select", NEW t \in TargetSet
  PROVE  ValidLayouts(t) = UsableLayouts(t)
  <1>1. {candidates[t][m] : m \in 1 .. Len(candidates[t])} = StructsTaken(t)
    BY DEF ScanInv, CandidatesTaken
  <1>2. ToSet(candidates[t]) = StructsTaken(t)
    <2>1. IsSequence(candidates[t])
      BY DEF ScanInv, CandidatesTaken
    <2>2. DOMAIN candidates[t] = 1 .. Len(candidates[t])
      BY <2>1 DEF IsSequence
    <2> QED
      BY <1>1, <2>2 DEF ToSet
  <1>3. TakenDies = {DieAt(p) : p \in WantedPlaces}
    <2>1. \A p \in WantedPlaces : p[1] < u
      BY PlaceIs DEF ScanInv, Position, WantedPlaces
    <2>2. ResolvedDies = {}
      BY DEF ResolvedDies
    <2> QED
      BY <2>1, <2>2 DEF TakenDies, EarlierDies
  <1>4. {e \in TakenDies : e.name = t} = {e \in AllDies : e.name = t}
    BY <1>3 DEF AllDies, WantedPlaces
  <1> QED
    BY <1>2, <1>4 DEF ValidLayouts, UsableLayouts, Usable, StructsTaken

LEMMA FailuresHaveCause ==
  ASSUME ScanInv,
         \/ TooManyUnits \/ UnsupportedUnit \/ NoUnits \/ SplitUnit \/ DieLimit
         \/ BadName \/ ResolveLimit \/ SelectFails
  PROVE  Cause
  <1> USE DEF Cause
  <1>1. IsDebugFile(file) /\ u \in Nat \ {0} /\ k \in Nat \ {0}
    BY DEF ScanInv, Position
  <1>2. CASE TooManyUnits \/ NoUnits
    BY <1>1, <1>2, PlaceIs, DwarfScanAssumption DEF TooManyUnits, NoUnits, Readable
  <1>3. CASE UnsupportedUnit \/ SplitUnit
    <2>1. u \in 1 .. Len(file.units) /\ file.units[u].kind # "compile"
      BY <1>1, <1>3, PlaceIs DEF UnsupportedUnit, SplitUnit, ScanInv, Position
    <2> QED
      BY <2>1 DEF Readable
  <1>4. CASE DieLimit
    BY <1>4, LimitsAreCauses DEF DieLimit
  <1>5. CASE BadName
    <2>1. Die \in AllDies /\ Die.name = "undecodable"
      BY <1>1, <1>5, NextPlace, DieInFile DEF BadName
    <2> QED
      BY <2>1 DEF Readable
  <1>6. CASE ResolveLimit
    <2>1. k \in 1 .. Len(found) /\ pc = "resolve" /\ found[k].what = "limit"
      <3>1. Len(found) \in Nat
        BY DEF ScanInv, FoundHere, IsSequence
      <3> QED
        BY <1>1, <1>6, <3>1 DEF ResolveLimit, AtFound
    <2>2. PICK p \in WantedPlaces : p \in Places /\ DieAt(p) = found[k]
      BY <2>1, FoundIsThere
    <2>3. found[k] \in AllDies /\ found[k].name \in TargetSet
      BY <1>1, <2>2, DieInFile DEF WantedPlaces
    <2> QED
      BY <2>1, <2>3 DEF Readable
  <1>7. CASE SelectFails
    <2>1. /\ pc = "select" /\ k <= Required
          /\ Cardinality(ValidLayouts(Targets[k])) # 1
      BY <1>7 DEF SelectFails
    <2>2. k \in 1 .. Required /\ Targets[k] \in TargetSet
      BY <1>1, <2>1, PlaceIs DEF Targets, TargetSet
    <2>3. Targets[k] \in Wanted
      BY <2>2 DEF Wanted
    <2> QED
      BY <2>1, <2>2, <2>3, CandidatesAreUsable
  <1> QED
    BY <1>2, <1>3, <1>4, <1>5, <1>6, <1>7

-----------------------------------------------------------------------------
(* The steps of the scan.                                                  *)

LEMMA FailStep ==
  ASSUME ScanInv, Cause,
         UNCHANGED <<file, status, u, k, counters, found, seen, index, layout>>,
         pc' = "done", result' # "ok", status = "loaded"
  PROVE  ScanInv'
  <1>1. /\ IsDebugFile(file)' /\ Cause'
        /\ \A t : Structs(t)' = Structs(t) /\ UsableLayouts(t)' = UsableLayouts(t)
    BY SameFile DEF ScanInv
  <1>2. Idle' /\ Position' /\ UnitsPassed' /\ Counted' /\ SeenHere'
    BY DEF ScanInv, Idle, Position, UnitsPassed, Counted, SeenHere
  <1>3. FoundHere' /\ CandidatesTaken'
    BY DEF ScanInv, FoundHere, CandidatesTaken
  <1>4. LayoutInFile'
    BY <1>1 DEF ScanInv, LayoutInFile
  <1>5. Verdict'
    BY <1>1 DEF Verdict, AcceptedIsUnanimous, RejectedHasCause, Cause
  <1> QED
    BY <1>1, <1>2, <1>3, <1>4, <1>5 DEF ScanInv

LEMMA AssembledStep ==
  ASSUME ScanInv, Assembled, UNCHANGED status, status = "loaded"
  PROVE  ScanInv'
  <1>1. /\ UNCHANGED <<file, u, k, counters, found, seen, index, layout>>
        /\ pc = "select" /\ k > Required /\ pc' = "done" /\ result' = "ok"
    BY DEF Assembled
  <1>2. /\ IsDebugFile(file) /\ IsDebugFile(file)' /\ Readable' = Readable /\ Wanted' = Wanted
        /\ \A t : Structs(t)' = Structs(t) /\ UsableLayouts(t)' = UsableLayouts(t)
    BY <1>1, SameFile DEF ScanInv
  <1>3. Idle' /\ Position' /\ UnitsPassed' /\ Counted' /\ SeenHere'
    BY <1>1 DEF ScanInv, Idle, Position, UnitsPassed, Counted, SeenHere
  <1>4. FoundHere' /\ CandidatesTaken'
    BY <1>1 DEF ScanInv, FoundHere, CandidatesTaken
  <1>5. LayoutInFile'
    BY <1>1, <1>2 DEF ScanInv, LayoutInFile
  <1>6. Readable
    <2>1. /\ Len(file.units) \in 1 .. MaxUnits
          /\ \A i \in 1 .. Len(file.units) : file.units[i].kind = "compile"
      BY <1>1, <1>2, PlaceIs DEF ScanInv, UnitsPassed, Position
    <2>2. ScannedPlaces = Places /\ ScannedWanted = WantedPlaces
      BY <1>1 DEF ScannedPlaces, ScannedWanted, Scanned
    <2>3. /\ Cardinality(Places) <= MaxDies
          /\ Cardinality(WantedPlaces) <= MaxCandidates
          /\ \A p \in Places : DieAt(p).name # "undecodable"
      BY <1>1, <2>2 DEF ScanInv, Counted
    <2>4. \A p \in WantedPlaces : DieAt(p) \in TakenDies
      <3> SUFFICES ASSUME NEW p \in WantedPlaces PROVE DieAt(p) \in EarlierDies
        BY DEF TakenDies
      <3>1. p[1] < u
        BY <1>1, <1>2, PlaceIs DEF WantedPlaces, ScanInv, Position
      <3> QED
        BY <1>1, <3>1 DEF EarlierDies
    <2>5. \A p \in WantedPlaces : DieAt(p).what # "limit"
      BY <1>1, <2>4 DEF ScanInv, CandidatesTaken
    <2>6. \A d \in AllDies : d.name # "undecodable" /\ (d.name \in TargetSet => d.what # "limit")
      BY <2>3, <2>5 DEF AllDies, WantedPlaces
    <2> QED
      BY <2>1, <2>3, <2>6 DEF Readable
  <1>7. \A t \in Wanted : UsableLayouts(t) = {layout[t]}
    <2>1. Required \in {3, 4} /\ k \in Nat
      BY <1>2, PlaceIs DEF ScanInv, Position
    <2>2. \A i \in 1 .. Required : i < k
      BY <1>1, <2>1
    <2>3. \A i \in 1 .. Required : UsableLayouts(Targets[i]) = {layout[Targets[i]]}
      BY <1>1, <2>2 DEF ScanInv, LayoutInFile
    <2> QED
      BY <2>3 DEF Wanted
  <1>8. Verdict'
    BY <1>1, <1>2, <1>6, <1>7 DEF Verdict, AcceptedIsUnanimous, RejectedHasCause
  <1> QED
    BY <1>2, <1>3, <1>4, <1>5, <1>8 DEF ScanInv

(* What a step does that neither ends the scan nor selects.                *)
LEMMA ScanGoesOn ==
  ASSUME ScanInv, UNCHANGED <<file, status, layout, result>>, status = "loaded",
         pc \in {"headers", "dies", "resolve"},
         pc' \in {"headers", "dies", "resolve"} \/ (pc' = "select" /\ k' = 1),
         Position', UnitsPassed', Counted', FoundHere', SeenHere', CandidatesTaken'
  PROVE  ScanInv'
  <1>1. /\ IsDebugFile(file)' /\ Required' = Required
        /\ \A t : Structs(t)' = Structs(t) /\ UsableLayouts(t)' = UsableLayouts(t)
    BY SameFile DEF ScanInv
  <1>2. Required \in {3, 4}
    BY PlaceIs DEF ScanInv
  <1>3. LayoutInFile'
    BY <1>1, <1>2 DEF ScanInv, LayoutInFile
  <1>4. Verdict'
    BY DEF ScanInv, Verdict, AcceptedIsUnanimous, RejectedHasCause
  <1>5. Idle'
    BY DEF Idle
  <1> QED
    BY <1>1, <1>3, <1>4, <1>5 DEF ScanInv

(* A step that counts no DIE and takes no structure.                       *)
LEMMA SameCounts ==
  ASSUME ScanInv, pc # "done", UNCHANGED <<file, counters, candidates>>,
         ScannedPlaces' = ScannedPlaces, ScannedWanted' = ScannedWanted,
         TakenDies' = TakenDies
  PROVE  Counted' /\ CandidatesTaken'
  <1>1. \A p : DieAt(p)' = DieAt(p)
    BY SameFile
  <1>2. UNCHANGED <<dies, candidateCount>>
    BY DEF counters
  <1>3. Counted'
    BY <1>1, <1>2 DEF ScanInv, Counted
  <1>4. \A t : StructsTaken(t)' = StructsTaken(t)
    BY DEF StructsTaken, Parses, ValidSize
  <1>5. CandidatesTaken'
    BY <1>4 DEF ScanInv, CandidatesTaken
  <1> QED
    BY <1>3, <1>5

LEMMA HeaderSteps ==
  ASSUME ScanInv, KeepHeader \/ HeadersRead, UNCHANGED status, status = "loaded"
  PROVE  ScanInv'
  <1>1. /\ UNCHANGED <<file, counters, found, seen, candidates, layout, result, k>>
        /\ pc = "headers" /\ IsDebugFile(file) /\ u \in Nat \ {0} /\ k \in Nat \ {0}
    BY DEF KeepHeader, HeadersRead, index, ScanInv, Position
  <1>2. \/ pc' = "headers" /\ u' = u + 1 /\ u <= Len(file.units) /\ u <= MaxUnits
        \/ pc' = "dies" /\ u' = 1 /\ u > Len(file.units) /\ file.units # <<>>
    BY DEF KeepHeader, HeadersRead
  <1>3. /\ Len(file.units) \in Nat /\ Len(file.units)' = Len(file.units)
        /\ file.units # <<>> => Len(file.units) >= 1
    BY <1>1, PlaceIs DEF IsDebugFile
  <1>4. MaxUnits \in Nat
    BY DwarfScanAssumption
  <1>5. Position'
    BY <1>1, <1>2, <1>3 DEF ScanInv, Position
  <1>6. UnitsPassed'
    BY <1>1, <1>2, <1>3, <1>4 DEF ScanInv, UnitsPassed
  <1>7. /\ Places' = Places /\ WantedPlaces' = WantedPlaces
        /\ \A p : DieAt(p)' = DieAt(p)
    BY <1>1, SameFile
  <1>8. ScannedPlaces' = {} /\ ScannedWanted' = {}
    <2>1. ASSUME NEW p \in Places PROVE ~ Scanned(p)'
      <3>1. p[1] \in Nat \ {0} /\ p[2] \in Nat \ {0}
        BY <1>1, PlaceIs
      <3>2. k' = 1
        BY <1>1 DEF ScanInv, Position
      <3> QED
        BY <1>2, <3>1, <3>2 DEF Scanned
    <2> QED
      BY <1>7, <2>1 DEF ScannedPlaces, ScannedWanted, WantedPlaces
  <1>9. ScannedPlaces = {} /\ ScannedWanted = {} /\ TakenDies = {}
    BY <1>1 DEF ScannedPlaces, ScannedWanted, Scanned, TakenDies, EarlierDies, ResolvedDies
  <1>10. TakenDies' = {}
    <2>1. \A p \in Places : ~ (pc' # "headers" /\ p[1] < u')
      BY <1>1, <1>2, PlaceIs
    <2>2. EarlierDies' = {}
      BY <1>7, <2>1 DEF EarlierDies, WantedPlaces
    <2> QED
      BY <1>2, <2>2 DEF TakenDies, ResolvedDies
  <1>11. Counted' /\ CandidatesTaken'
    BY <1>1, <1>8, <1>9, <1>10, SameCounts
  <1>12. FoundHere'
    <2>1. found = <<>> /\ IsSequence(found)
      BY <1>1 DEF ScanInv, FoundHere
    <2>2. FoundDies' = {}
      BY <1>8 DEF FoundDies
    <2> QED
      BY <1>1, <2>1, <2>2 DEF FoundHere
  <1>13. SeenHere'
    BY <1>1, <1>2 DEF ScanInv, SeenHere
  <1> QED
    BY <1>1, <1>2, <1>5, <1>6, <1>11, <1>12, <1>13, ScanGoesOn

LEMMA DiesReadStep ==
  ASSUME ScanInv, DiesRead, UNCHANGED status, status = "loaded"
  PROVE  ScanInv'
  <1>1. /\ UNCHANGED <<file, u, counters, found, seen, candidates, layout, result>>
        /\ pc = "dies" /\ pc' = "resolve" /\ k' = 1
        /\ IsDebugFile(file) /\ u \in 1 .. Len(file.units)
        /\ file.units[u].kind = "compile" /\ k > Len(file.units[u].dies)
        /\ k \in Nat
    BY PlaceIs DEF DiesRead, index, ScanInv, Position
  <1>2. /\ Places' = Places /\ WantedPlaces' = WantedPlaces
        /\ \A p : DieAt(p)' = DieAt(p)
    BY <1>1, SameFile
  <1>3. Len(found) \in Nat
    BY DEF ScanInv, FoundHere, IsSequence
  <1>4. Position' /\ UnitsPassed'
    BY <1>1, <1>3 DEF ScanInv, Position, UnitsPassed
  <1>5. \A p \in Places : Scanned(p)' <=> Scanned(p)
    <2>1. \A p \in Places : p[1] \in Nat /\ (p[1] = u => p[2] < k)
      BY <1>1, PlaceIs
    <2> QED
      BY <1>1, <2>1 DEF Scanned
  <1>6. ScannedPlaces' = ScannedPlaces /\ ScannedWanted' = ScannedWanted
    BY <1>2, <1>5 DEF ScannedPlaces, ScannedWanted, WantedPlaces
  <1>7. ResolvedDies = {} /\ ResolvedDies' = {}
    BY <1>1, <1>3 DEF ResolvedDies
  <1>8. TakenDies' = TakenDies
    BY <1>1, <1>2, <1>7 DEF TakenDies, EarlierDies
  <1>9. Counted' /\ CandidatesTaken'
    BY <1>1, <1>6, <1>8, SameCounts
  <1>10. FoundDies' = FoundDies
    BY <1>1, <1>2, <1>6 DEF FoundDies
  <1>11. FoundHere' /\ SeenHere'
    BY <1>1, <1>7, <1>10 DEF ScanInv, FoundHere, SeenHere
  <1> QED
    BY <1>1, <1>4, <1>9, <1>11, ScanGoesOn

LEMMA CountDieStep ==
  ASSUME ScanInv, CountDie, UNCHANGED status, status = "loaded"
  PROVE  ScanInv'
  <1> DEFINE q == <<u, k>>
  <1>1. /\ UNCHANGED <<file, pc, u, seen, candidates, layout, result>>
        /\ pc = "dies" /\ k' = k + 1 /\ AtDie /\ ~ Exhausted
        /\ IsDebugFile(file) /\ u \in 1 .. Len(file.units) /\ k \in Nat \ {0}
        /\ Die.name # "undecodable" /\ dies' = dies + 1
    BY PlaceIs DEF CountDie, AtDie, index, ScanInv, Position
  <1>2. /\ Places' = Places /\ WantedPlaces' = WantedPlaces
        /\ \A p : DieAt(p)' = DieAt(p)
    BY <1>1, SameFile
  <1>3. /\ q \in Places /\ DieAt(q) = Die
        /\ q \notin ScannedPlaces /\ q \notin ScannedWanted
    BY <1>1, NextPlace
  <1>4. Position' /\ UnitsPassed'
    BY <1>1 DEF ScanInv, Position, UnitsPassed
  <1>5. ASSUME NEW p \in Places PROVE Scanned(p)' <=> Scanned(p) \/ p = q
    <2>1. p = <<p[1], p[2]>> /\ p[1] \in Nat /\ p[2] \in Nat
      BY <1>1, PlaceIs
    <2>2. p = q <=> p[1] = u /\ p[2] = k
      BY <2>1
    <2> HIDE DEF q
    <2> QED
      BY <1>1, <2>1, <2>2 DEF Scanned
  <1> HIDE DEF q
  <1>6. ScannedPlaces' = ScannedPlaces \cup {q}
    BY <1>2, <1>3, <1>5 DEF ScannedPlaces
  <1>7. /\ Die.name \in TargetSet => ScannedWanted' = ScannedWanted \cup {q}
        /\ Die.name \notin TargetSet => ScannedWanted' = ScannedWanted
    BY <1>2, <1>3, <1>5 DEF ScannedWanted, WantedPlaces
  <1>8. /\ IsFiniteSet(ScannedPlaces) /\ IsFiniteSet(ScannedWanted)
        /\ dies = Cardinality(ScannedPlaces) /\ dies \in Nat
        /\ candidateCount = Cardinality(ScannedWanted) /\ candidateCount \in Nat
        /\ \A p \in ScannedPlaces : DieAt(p).name # "undecodable"
    BY <1>1, PlacesFinite, FS_CardinalityType DEF ScanInv, Counted
  <1>9. /\ dies' = Cardinality(ScannedPlaces') /\ dies' <= MaxDies
    <2>1. dies + 1 <= MaxDies
      BY <1>1, <1>8, DwarfScanAssumption DEF Exhausted
    <2>2. Cardinality(ScannedPlaces \cup {q}) = dies + 1
      BY <1>3, <1>8, FS_AddElement
    <2> QED
      BY <1>1, <1>6, <2>1, <2>2
  <1>10. /\ candidateCount' = Cardinality(ScannedWanted')
         /\ candidateCount' <= MaxCandidates
    <2>1. CASE Die.name \in TargetSet
      <3>1. candidateCount' = candidateCount + 1 /\ candidateCount + 1 <= MaxCandidates
        BY <1>1, <1>8, <2>1, DwarfScanAssumption DEF CountDie, Exhausted
      <3> QED
        BY <1>3, <1>7, <1>8, <2>1, <3>1, FS_AddElement
    <2>2. CASE Die.name \notin TargetSet
      <3>1. candidateCount' = candidateCount /\ candidateCount <= MaxCandidates
        BY <1>1, <2>2 DEF CountDie, ScanInv, Counted
      <3> QED
        BY <1>7, <1>8, <2>2, <3>1
    <2> QED
      BY <2>1, <2>2
  <1>11. Counted'
    <2>1. \A p \in ScannedPlaces' : DieAt(p)'.name # "undecodable"
      BY <1>1, <1>2, <1>3, <1>6, <1>8
    <2> QED
      BY <1>9, <1>10, <2>1 DEF Counted
  <1>12. TakenDies' = TakenDies /\ ResolvedDies' = {}
    BY <1>1, <1>2 DEF TakenDies, EarlierDies, ResolvedDies
  <1>13. CandidatesTaken'
    <2>1. \A t : StructsTaken(t)' = StructsTaken(t)
      BY <1>12 DEF StructsTaken, Parses, ValidSize
    <2> QED
      BY <1>1, <1>12, <2>1 DEF ScanInv, CandidatesTaken
  <1>14. q[1] = u
    BY DEF q
  <1>15. FoundHere'
    <2>1. IsSequence(found) /\ {found[m] : m \in 1 .. Len(found)} = FoundDies
      BY <1>1 DEF ScanInv, FoundHere
    <2>2. CASE Die.name \in TargetSet
      <3>1. found' = Append(found, Die)
        BY <2>2 DEF CountDie
      <3>2. /\ IsSequence(found') /\ Len(found) \in Nat /\ Len(found') = Len(found) + 1
            /\ \A m \in 1 .. Len(found) + 1 :
                 found'[m] = IF m = Len(found) + 1 THEN Die ELSE found[m]
        BY <2>1, <3>1, AppendIsSequence
      <3>3. {found'[m] : m \in 1 .. Len(found')} = {found[m] : m \in 1 .. Len(found)} \cup {Die}
        BY <3>2
      <3>4. FoundDies' = FoundDies \cup {Die}
        BY <1>1, <1>2, <1>3, <1>7, <1>14, <2>2 DEF FoundDies
      <3> QED
        BY <1>1, <2>1, <3>2, <3>3, <3>4 DEF FoundHere
    <2>3. CASE Die.name \notin TargetSet
      <3>1. found' = found
        BY <2>3 DEF CountDie
      <3>2. FoundDies' = FoundDies
        BY <1>1, <1>2, <1>7, <2>3 DEF FoundDies
      <3> QED
        BY <1>1, <2>1, <3>1, <3>2 DEF FoundHere
    <2> QED
      BY <2>2, <2>3
  <1>16. SeenHere'
    BY <1>1 DEF ScanInv, SeenHere
  <1> QED
    BY <1>1, <1>4, <1>11, <1>13, <1>15, <1>16, ScanGoesOn

LEMMA UnitDoneStep ==
  ASSUME ScanInv, UnitDone, UNCHANGED status, status = "loaded"
  PROVE  ScanInv'
  <1>1. /\ UNCHANGED <<file, counters, candidates, layout, result>>
        /\ pc = "resolve" /\ k > Len(found) /\ u' = u + 1 /\ k' = 1
        /\ found' = <<>> /\ seen' = {}
        /\ pc' = IF u < Len(file.units) THEN "dies" ELSE "select"
        /\ IsDebugFile(file) /\ u \in 1 .. Len(file.units) /\ k \in Nat \ {0}
        /\ Len(file.units) \in Nat
    BY PlaceIs DEF UnitDone, index, ScanInv, Position
  <1>2. /\ Places' = Places /\ WantedPlaces' = WantedPlaces
        /\ Required' = Required /\ Required \in {3, 4}
        /\ \A p : DieAt(p)' = DieAt(p)
    BY <1>1, SameFile, PlaceIs
  <1>3. Position'
    BY <1>1, <1>2 DEF ScanInv, Position
  <1>4. UnitsPassed'
    BY <1>1 DEF ScanInv, UnitsPassed
  <1>5. \A p \in Places : Scanned(p)' <=> Scanned(p)
    <2>1. \A p \in Places : p[1] \in 1 .. Len(file.units) /\ p[2] \in Nat \ {0}
      BY <1>1, PlaceIs
    <2> QED
      BY <1>1, <2>1 DEF Scanned
  <1>6. ScannedPlaces' = ScannedPlaces /\ ScannedWanted' = ScannedWanted
    BY <1>2, <1>5 DEF ScannedPlaces, ScannedWanted, WantedPlaces
  <1>7. TakenDies' = TakenDies
    <2>1. ResolvedDies = FoundDies
      <3>1. Len(found) \in Nat /\ {found[m] : m \in 1 .. Len(found)} = FoundDies
        BY <1>1 DEF ScanInv, FoundHere, IsSequence
      <3>2. {n \in 1 .. Len(found) : pc = "resolve" /\ n < k} = 1 .. Len(found)
        BY <1>1, <3>1
      <3> QED
        BY <3>1, <3>2 DEF ResolvedDies
    <2>2. ResolvedDies' = {}
      BY <1>1 DEF ResolvedDies
    <2>3. {q \in WantedPlaces : q[1] < u + 1} =
            {q \in WantedPlaces : q[1] < u} \cup {q \in ScannedWanted : q[1] = u}
      BY <1>1, PlaceIs DEF ScannedWanted, WantedPlaces, Scanned
    <2>4. EarlierDies' = {DieAt(p) : p \in {q \in WantedPlaces : q[1] < u + 1}}
      BY <1>1, <1>2 DEF EarlierDies
    <2>5. EarlierDies = {DieAt(p) : p \in {q \in WantedPlaces : q[1] < u}}
      BY <1>1 DEF EarlierDies
    <2>6. EarlierDies' = EarlierDies \cup FoundDies
      BY <2>3, <2>4, <2>5 DEF FoundDies
    <2> QED
      BY <2>1, <2>2, <2>6 DEF TakenDies
  <1>8. Counted' /\ CandidatesTaken'
    BY <1>1, <1>6, <1>7, SameCounts
  <1>9. FoundHere'
    <2>1. IsSequence(<<>>)
      BY DEF IsSequence
    <2>2. pc' = "dies" => FoundDies' = {}
      <3>1. \A p \in Places : p[2] \in Nat \ {0}
        BY <1>1, PlaceIs
      <3>2. pc' = "dies" => \A p \in Places : p[1] = u' => ~ Scanned(p)'
        BY <1>1, <3>1 DEF Scanned
      <3> QED
        BY <1>2, <3>2 DEF FoundDies, ScannedWanted, WantedPlaces
    <2> QED
      BY <1>1, <2>1, <2>2 DEF FoundHere
  <1>10. SeenHere'
    BY <1>1 DEF SeenHere
  <1> QED
    BY <1>1, <1>3, <1>4, <1>8, <1>9, <1>10, ScanGoesOn

(* Two definitions of the unit with the same key are the same.             *)
LEMMA SameKeySameDie ==
  ASSUME ScanInv, pc = "resolve",
         NEW m \in 1 .. Len(found), NEW n \in 1 .. Len(found), Key(found[m]) = Key(found[n])
  PROVE  found[m] = found[n]
  <1>1. IsDebugFile(file)
    BY DEF ScanInv
  <1>2. PICK p \in WantedPlaces : p \in Places /\ p[1] = u /\ DieAt(p) = found[m]
    BY FoundIsThere
  <1>3. PICK q \in WantedPlaces : q \in Places /\ q[1] = u /\ DieAt(q) = found[n]
    BY FoundIsThere
  <1>4. /\ u \in DOMAIN file.units
        /\ p[2] \in DOMAIN file.units[u].dies /\ q[2] \in DOMAIN file.units[u].dies
        /\ found[m] = file.units[u].dies[p[2]] /\ found[n] = file.units[u].dies[q[2]]
    BY <1>1, <1>2, <1>3, PlaceIs DEF DieAt
  <1>5. ReadAlike(file.units[u].dies)
    BY <1>1, <1>4 DEF IsDebugFile
  <1> QED
    BY <1>4, <1>5 DEF ReadAlike, Key

LEMMA TakeStep ==
  ASSUME NEW d, d.name \in TargetSet, Take(d), CandidatesTaken, pc # "done",
         UNCHANGED pc, TakenDies' = TakenDies \cup {d}, d.what \in {"parsed", "broken"}
  PROVE  CandidatesTaken'
  <1>1. /\ \A e \in TakenDies' : e.what \in {"parsed", "broken"}
        /\ DOMAIN candidates = TargetSet
        /\ \A t \in TargetSet :
             /\ IsSequence(candidates[t])
             /\ {candidates[t][m] : m \in 1 .. Len(candidates[t])} = StructsTaken(t)
    BY DEF CandidatesTaken
  <1>2. \A e : Parses(e)' <=> Parses(e)
    BY DEF Parses, ValidSize
  <1>3. CASE Parses(d)
    <2>1. candidates' = [candidates EXCEPT ![d.name] = Append(@, d.struct)]
      BY <1>3 DEF Take
    <2>2. DOMAIN candidates' = TargetSet
      BY <1>1, <2>1
    <2>3. ASSUME NEW t \in TargetSet
          PROVE  /\ IsSequence(candidates'[t])
                 /\ {candidates'[t][m] : m \in 1 .. Len(candidates'[t])} = StructsTaken(t)'
      <3>1. CASE t = d.name
        <4>1. candidates'[t] = Append(candidates[t], d.struct)
          BY <1>1, <2>1, <3>1
        <4>2. IsSequence(candidates'[t])
          BY <1>1, <4>1, AppendIsSequence
        <4>3. {candidates'[t][m] : m \in 1 .. Len(candidates'[t])} =
                {candidates[t][m] : m \in 1 .. Len(candidates[t])} \cup {d.struct}
          BY <1>1, <4>1, AppendRange
        <4>4. StructsTaken(t)' = StructsTaken(t) \cup {d.struct}
          BY <1>2, <1>3, <3>1 DEF StructsTaken
        <4> QED
          BY <1>1, <4>2, <4>3, <4>4
      <3>2. CASE t # d.name
        <4>1. candidates'[t] = candidates[t]
          BY <1>1, <2>1, <3>2
        <4>2. StructsTaken(t)' = StructsTaken(t)
          BY <1>2, <3>2 DEF StructsTaken
        <4> QED
          BY <1>1, <4>1, <4>2
      <3> QED
        BY <3>1, <3>2
    <2> QED
      BY <1>1, <2>2, <2>3 DEF CandidatesTaken
  <1>4. CASE ~ Parses(d)
    <2>1. candidates' = candidates
      BY <1>4 DEF Take
    <2>2. \A t : StructsTaken(t)' = StructsTaken(t)
      BY <1>2, <1>4 DEF StructsTaken
    <2> QED
      BY <1>1, <2>1, <2>2 DEF CandidatesTaken
  <1> QED
    BY <1>3, <1>4

LEMMA ResolveFoundStep ==
  ASSUME ScanInv, ResolveFound, UNCHANGED status, status = "loaded"
  PROVE  ScanInv'
  <1>1. /\ UNCHANGED <<file, pc, u, counters, found, layout, result>>
        /\ pc = "resolve" /\ k' = k + 1 /\ k \in Nat \ {0}
        /\ k <= Len(found) /\ Len(found) \in Nat /\ IsDebugFile(file)
    BY DEF ResolveFound, AtFound, ScanInv, Position, FoundHere, IsSequence
  <1> DEFINE d == found[k]
  <1>2. /\ Places' = Places /\ WantedPlaces' = WantedPlaces
        /\ \A p : DieAt(p)' = DieAt(p)
    BY <1>1, SameFile
  <1>3. k \in 1 .. Len(found)
    BY <1>1
  <1>4. d.name \in TargetSet
    BY <1>1, <1>3, FoundIsThere DEF WantedPlaces
  <1>5. ResolvedDies' = ResolvedDies \cup {d}
    <2>1. {n \in 1 .. Len(found) : n < k + 1} = {n \in 1 .. Len(found) : n < k} \cup {k}
      BY <1>1, <1>3
    <2>2. ResolvedDies' = {found[m] : m \in {n \in 1 .. Len(found) : n < k + 1}}
      BY <1>1 DEF ResolvedDies
    <2>3. ResolvedDies = {found[m] : m \in {n \in 1 .. Len(found) : n < k}}
      BY <1>1 DEF ResolvedDies
    <2> QED
      BY <2>1, <2>2, <2>3
  <1>6. EarlierDies' = EarlierDies
    BY <1>1, <1>2 DEF EarlierDies
  <1>7. Position' /\ UnitsPassed'
    BY <1>1 DEF ScanInv, Position, UnitsPassed
  <1>8. ScannedPlaces' = ScannedPlaces /\ ScannedWanted' = ScannedWanted
    BY <1>1, <1>2 DEF ScannedPlaces, ScannedWanted, Scanned
  <1>9. Counted'
    BY <1>1, <1>2, <1>8 DEF ScanInv, Counted, counters
  <1>10. FoundHere'
    <2>1. FoundDies' = FoundDies
      BY <1>1, <1>2, <1>8 DEF FoundDies
    <2> QED
      BY <1>1, <2>1 DEF ScanInv, FoundHere
  <1>11. seen = {Key(e) : e \in ResolvedDies}
    BY <1>1 DEF ScanInv, SeenHere
  <1>12. CASE Key(d) \in seen
    <2>1. PICK e \in ResolvedDies : Key(e) = Key(d)
      BY <1>11, <1>12
    <2>2. PICK m \in 1 .. Len(found) : m < k /\ e = found[m]
      BY <2>1 DEF ResolvedDies
    <2>3. e = d
      BY <1>1, <1>3, <2>1, <2>2, SameKeySameDie
    <2> HIDE DEF d
    <2>4. ResolvedDies' = ResolvedDies
      BY <1>5, <2>1, <2>3
    <2>5. seen' = seen /\ candidates' = candidates
      BY <1>12 DEF ResolveFound, index, d
    <2>6. TakenDies' = TakenDies
      BY <1>6, <2>4 DEF TakenDies
    <2>7. CandidatesTaken'
      BY <1>1, <1>8, <2>5, <2>6, SameCounts
    <2>8. SeenHere'
      BY <1>1, <1>11, <2>4, <2>5 DEF SeenHere, Key
    <2> QED
      BY <1>1, <1>7, <1>9, <1>10, <2>7, <2>8, ScanGoesOn
  <1>13. CASE Key(d) \notin seen
    <2>1. Take(d) /\ d.what \in {"parsed", "broken"}
      BY <1>13 DEF ResolveFound
    <2> HIDE DEF d
    <2>2. TakenDies' = TakenDies \cup {d}
      BY <1>5, <1>6 DEF TakenDies
    <2>3. CandidatesTaken /\ pc # "done"
      BY <1>1 DEF ScanInv
    <2>4. CandidatesTaken'
      BY <1>1, <1>4, <2>1, <2>2, <2>3, TakeStep
    <2>5. seen' = seen \cup {Key(d)}
      BY <2>1 DEF Take
    <2>6. SeenHere'
      BY <1>1, <1>5, <1>11, <2>5 DEF SeenHere, Key
    <2> QED
      BY <1>1, <1>7, <1>9, <1>10, <2>4, <2>6, ScanGoesOn
  <1> QED
    BY <1>12, <1>13

-----------------------------------------------------------------------------
(* The selection.                                                          *)

(* A usable layout is that of a structure of the file which validates.     *)
LEMMA UsableIsInFile ==
  ASSUME NEW t, NEW l \in UsableLayouts(t)
  PROVE  \E s \in Structs(t) : l = Layout(t, s) /\ Validates(t, s)
  BY DEF UsableLayouts, Usable, Structs

LEMMA SelectOneStep ==
  ASSUME ScanInv, SelectOne, UNCHANGED status, status = "loaded"
  PROVE  ScanInv'
  <1> DEFINE t0 == Targets[k]
             l0 == CHOOSE l \in ValidLayouts(t0) : TRUE
  <1>1. /\ UNCHANGED <<file, pc, u, counters, found, seen, candidates, result>>
        /\ pc = "select" /\ k' = k + 1 /\ k \in Nat \ {0} /\ k <= Required
        /\ IsDebugFile(file) /\ Cardinality(ValidLayouts(t0)) = 1
        /\ layout' = [layout EXCEPT ![t0] = l0]
    BY DEF SelectOne, index, ScanInv, Position
  <1>2. /\ IsDebugFile(file)' /\ Required' = Required
        /\ Places' = Places /\ WantedPlaces' = WantedPlaces
        /\ \A p : DieAt(p)' = DieAt(p)
        /\ \A t : Structs(t)' = Structs(t) /\ UsableLayouts(t)' = UsableLayouts(t)
    BY <1>1, SameFile
  <1>3. /\ Required \in {3, 4}
        /\ t0 \in TargetSet
        /\ \A i \in 1 .. Required : i < k => Targets[i] \in TargetSet /\ Targets[i] # t0
    BY <1>1, PlaceIs DEF Targets, TargetSet
  <1>4. ValidLayouts(t0) = UsableLayouts(t0)
    BY <1>1, <1>3, CandidatesAreUsable
  <1>5. IsFiniteSet(UsableLayouts(t0))
    <2> DEFINE f == [p \in Places |-> Layout(t0, DieAt(p).struct)]
               R == {f[p] : p \in Places}
    <2>1. IsFiniteSet(Places)
      BY <1>1, PlacesFinite
    <2>2. UsableLayouts(t0) \subseteq R
      <3> SUFFICES ASSUME NEW l \in UsableLayouts(t0) PROVE l \in R
        OBVIOUS
      <3>1. PICK d \in AllDies : l = Layout(t0, d.struct)
        BY DEF UsableLayouts, Usable
      <3>2. PICK p \in Places : d = DieAt(p)
        BY DEF AllDies
      <3> QED
        BY <3>1, <3>2
    <2> HIDE DEF f
    <2>3. f \in [Places -> R] /\ \A s \in R : \E p \in Places : f[p] = s
      BY DEF f
    <2>4. f \in Surjection(Places, R)
      BY <2>3 DEF Surjection
    <2>5. IsFiniteSet(R)
      BY <2>1, <2>4, FS_Surjection
    <2> QED
      BY <2>2, <2>5, FS_Subset
  <1>6. UsableLayouts(t0) = {l0}
    <2>1. PICK x : UsableLayouts(t0) = {x}
      BY <1>1, <1>4, <1>5, FS_Singleton
    <2> QED
      BY <1>4, <2>1
  <1> HIDE DEF t0, l0
  <1>7. Idle' /\ Position' /\ UnitsPassed' /\ SeenHere'
    BY <1>1, <1>2, <1>3 DEF ScanInv, Idle, Position, UnitsPassed, SeenHere
  <1>8. ScannedPlaces' = ScannedPlaces /\ ScannedWanted' = ScannedWanted
    BY <1>1, <1>2 DEF ScannedPlaces, ScannedWanted, Scanned
  <1>9. TakenDies' = TakenDies
    BY <1>1, <1>2 DEF TakenDies, EarlierDies, ResolvedDies
  <1>10. Counted' /\ CandidatesTaken'
    BY <1>1, <1>8, <1>9, SameCounts
  <1>11. FoundHere'
    BY <1>1 DEF ScanInv, FoundHere
  <1>12. LayoutInFile'
    <2>1. LayoutInFile
      BY DEF ScanInv
    <2>2. /\ DOMAIN layout' = TargetSet /\ layout'[t0] = l0
          /\ \A t \in TargetSet : t # t0 => layout'[t] = layout[t]
      BY <1>1, <1>3, <2>1 DEF LayoutInFile
    <2>3. ASSUME NEW i \in 1 .. Required, i < k'
          PROVE  UsableLayouts(Targets[i]) = {layout'[Targets[i]]}
      <3>1. CASE i = k
        BY <1>6, <2>2, <3>1 DEF t0
      <3>2. CASE i < k
        BY <1>1, <1>3, <2>1, <2>2, <3>2 DEF LayoutInFile
      <3> QED
        BY <1>1, <2>3, <3>1, <3>2
    <2>4. ASSUME NEW t \in TargetSet, layout'[t] # None
          PROVE  \E s \in Structs(t) : layout'[t] = Layout(t, s) /\ Validates(t, s)
      <3>1. CASE t = t0
        BY <1>6, <2>2, <3>1, UsableIsInFile
      <3>2. CASE t # t0
        BY <2>1, <2>2, <2>4, <3>2 DEF LayoutInFile
      <3> QED
        BY <3>1, <3>2
    <2>5. \A i \in 1 .. Required' : i < k' => UsableLayouts(Targets[i])' = {layout'[Targets[i]]}
      BY <1>2, <2>3
    <2>6. \A t \in TargetSet :
            layout'[t] # None =>
              \E s \in Structs(t)' : layout'[t] = Layout(t, s) /\ Validates(t, s)
      BY <1>2, <2>4
    <2> QED
      BY <1>1, <2>2, <2>5, <2>6 DEF LayoutInFile
  <1>13. Verdict'
    BY <1>1 DEF ScanInv, Verdict, AcceptedIsUnanimous, RejectedHasCause
  <1> QED
    BY <1>2, <1>7, <1>10, <1>11, <1>12, <1>13 DEF ScanInv

-----------------------------------------------------------------------------
(* Before the scan: what is loaded is a file to be scanned from its start. *)
LEMMA LoadSectionsStep ==
  ASSUME ScanInv, LoadSections
  PROVE  ScanInv'
  <1>1. /\ UNCHANGED <<pc, u, k, dies, candidateCount, found, seen, candidates, layout, result>>
        /\ status = "loading"
        /\ file' = file \/ file' = [file EXCEPT !.units = <<>>]
    BY DEF LoadSections, counters, index, S!Next, S!SkipSection, S!OutsideFile, S!BadHeader,
           S!OverBudget, S!WrongSize, S!Duplicate, S!Load, S!Loaded, S!Readable,
           S!AtWanted, S!AtSection
  <1>2. pc = "headers" /\ u = 1 /\ k = 1 /\ IsDebugFile(file)
    BY <1>1 DEF ScanInv, Idle, Position
  <1>3. IsDebugFile(file')
    <2>1. CASE file' = [file EXCEPT !.units = <<>>]
      <3>1. file' = [tcache |-> file.tcache, units |-> <<>>] /\ file.tcache \in BOOLEAN
        BY <1>2, <2>1 DEF IsDebugFile
      <3>2. <<>> \in Seq(ToSet(<<>>)) /\ DOMAIN <<>> = {}
        OBVIOUS
      <3> QED
        BY <3>1, <3>2 DEF IsDebugFile
    <2> QED
      BY <1>1, <1>2, <2>1
  <1>4. Len(file'.units) \in Nat
    BY <1>3 DEF IsDebugFile
  <1>5. /\ ScannedPlaces' = {} /\ ScannedWanted' = {} /\ TakenDies' = {}
        /\ ScannedPlaces = {} /\ ScannedWanted = {} /\ TakenDies = {}
    BY <1>1, <1>2 DEF ScannedPlaces, ScannedWanted, Scanned, TakenDies, EarlierDies,
                      ResolvedDies
  <1>6. Idle' /\ Position' /\ UnitsPassed' /\ FoundHere' /\ SeenHere'
    BY <1>1, <1>2, <1>4 DEF ScanInv, Idle, Position, UnitsPassed, FoundHere, SeenHere
  <1>7. Counted'
    BY <1>1, <1>2, <1>5 DEF ScanInv, Counted
  <1>8. CandidatesTaken'
    <2>1. \A t : StructsTaken(t)' = StructsTaken(t)
      BY <1>5 DEF StructsTaken
    <2> QED
      BY <1>1, <1>2, <1>5, <2>1 DEF ScanInv, CandidatesTaken
  <1>9. LayoutInFile'
    BY <1>1, <1>2 DEF ScanInv, LayoutInFile
  <1>10. Verdict'
    BY <1>1, <1>2 DEF ScanInv, Verdict, AcceptedIsUnanimous, RejectedHasCause
  <1>11. IsDebugFile(file)'
    BY <1>3 DEF IsDebugFile, IsDie, ReadAlike
  <1> QED
    BY <1>6, <1>7, <1>8, <1>9, <1>10, <1>11 DEF ScanInv

-----------------------------------------------------------------------------
(* The reading of a definition changes nothing of those taken before.      *)

LEMMA FunctionIsSequence ==
  ASSUME NEW n \in Nat, NEW f, DOMAIN f = 1 .. n, f = [i \in 1 .. n |-> f[i]]
  PROVE  f \in Seq(ToSet(f)) /\ Len(f) = n /\ IsSequence(f)
  <1>1. f \in [1 .. n -> ToSet(f)]
    BY DEF ToSet
  <1>2. f \in Seq(ToSet(f)) /\ Len(f) = n
    BY <1>1
  <1> QED
    BY <1>2 DEF IsSequence

LEMMA RereadIs ==
  ASSUME NEW ds, NEW n \in Nat, DOMAIN ds = 1 .. n
  PROVE  /\ Reread(ds) \in Seq(ToSet(Reread(ds)))
         /\ IsSequence(Reread(ds)) /\ Len(Reread(ds)) = n /\ DOMAIN Reread(ds) = 1 .. n
         /\ \A i \in 1 .. n : Reread(ds)[i] = IF ds[i] = found[k] THEN AsRead ELSE ds[i]
  <1> DEFINE f == Reread(ds)
  <1>1. /\ DOMAIN f = 1 .. n /\ f = [i \in 1 .. n |-> f[i]]
        /\ \A i \in 1 .. n : f[i] = IF ds[i] = found[k] THEN AsRead ELSE ds[i]
    BY DEF Reread
  <1> HIDE DEF f
  <1>2. f \in Seq(ToSet(f)) /\ Len(f) = n /\ IsSequence(f)
    BY <1>1, FunctionIsSequence
  <1> QED
    BY <1>1, <1>2 DEF f

(* What has been read is a definition, of the same name and structure.     *)
LEMMA AsReadIsDie ==
  ASSUME TypesInv, step = "done", IsDie(found[k])
  PROVE  /\ IsDie(AsRead)
         /\ AsRead.name = found[k].name /\ AsRead.id = found[k].id
  <1> DEFINE d == found[k]
             new == IF what = "parsed" THEN [size |-> T!Die(owner).size, members |-> members]
                    ELSE d.struct
  <1>1. AsRead = [name |-> d.name, id |-> d.id, what |-> what, struct |-> new]
    <2>1. d \in [name : TargetSet \cup {"other", "undecodable"}, id : Ids,
                what : {"unread", "parsed", "broken", "limit"}, struct : {d.struct}]
      BY DEF IsDie
    <2>2. AsRead = [d EXCEPT !.what = what, !.struct = new]
      BY DEF AsRead
    <2> HIDE DEF d, new
    <2> QED
      BY <2>1, <2>2
  <1>2. what \in {"parsed", "broken", "limit"}
    BY DEF TypesInv
  <1>3. IsStruct(new)
    <2>1. CASE what = "parsed"
      <3>1. /\ T!Die(owner).size \in Number
            /\ IsFiniteSet(members) /\ \A m \in members : IsMember(m)
        BY <2>1 DEF TypesInv, OwnerIsThere
      <3>2. new.size = T!Die(owner).size /\ new.members = members
        BY <2>1
      <3> HIDE DEF new
      <3> QED
        BY <3>1, <3>2 DEF IsStruct
    <2>2. CASE what # "parsed"
      BY <2>2 DEF IsDie
    <2> QED
      BY <2>1, <2>2
  <1> HIDE DEF new
  <1> QED
    BY <1>1, <1>2, <1>3 DEF IsDie

LEMMA TypeReadStep ==
  ASSUME ScanInv, TypesInv, TypeRead
  PROVE  ScanInv'
  <1> DEFINE old == found[k]
             ds == file.units[u].dies
  <1>1. /\ UNCHANGED <<pc, u, k, dies, candidateCount, seen, candidates, layout, result, status>>
        /\ pc = "resolve" /\ status = "loaded" /\ step = "done"
        /\ k \in Nat \ {0} /\ k <= Len(found) /\ Len(found) \in Nat
        /\ old.what = "unread" /\ found' = Reread(found)
        /\ file' = [file EXCEPT !.units[u].dies = Reread(@)]
    BY DEF TypeRead, AtUnread, AtFound, counters, index, sectionVars, ScanInv, Position,
           FoundHere, IsSequence
  <1>2. /\ IsDebugFile(file) /\ u \in 1 .. Len(file.units) /\ Len(file.units) \in Nat
        /\ Len(ds) \in Nat /\ DOMAIN ds = 1 .. Len(ds)
        /\ DOMAIN file.units = 1 .. Len(file.units)
    <2>1. IsDebugFile(file) /\ u \in Nat \ {0} /\ u <= Len(file.units)
      BY <1>1 DEF ScanInv, Position
    <2>2. u \in 1 .. Len(file.units)
      BY <2>1, PlaceIs
    <2> QED
      BY <2>1, <2>2, PlaceIs
  <1>3. k \in 1 .. Len(found) /\ old.name \in TargetSet /\ IsDie(old)
    <2>1. k \in 1 .. Len(found)
      BY <1>1
    <2>2. PICK p \in WantedPlaces : p \in Places /\ DieAt(p) = old
      BY <1>1, <2>1, FoundIsThere
    <2> QED
      BY <1>2, <2>1, <2>2, DieInFile DEF WantedPlaces
  <1>4. IsDie(AsRead) /\ AsRead.name = old.name /\ AsRead.id = old.id
    BY <1>1, <1>3, AsReadIsDie
  <1> HIDE DEF old
  <1>5. /\ Reread(ds) \in Seq(ToSet(Reread(ds))) /\ Len(Reread(ds)) = Len(ds)
        /\ DOMAIN Reread(ds) = 1 .. Len(ds)
        /\ \A j \in 1 .. Len(ds) : Reread(ds)[j] = IF ds[j] = old THEN AsRead ELSE ds[j]
    BY <1>2, RereadIs DEF old
  <1> DEFINE new == Reread(ds)
             units == [file.units EXCEPT ![u] = [@ EXCEPT !.dies = new]]
  <1>6. file' = [file EXCEPT !.units = units]
    BY <1>1
  <1>7. /\ file.tcache \in BOOLEAN
        /\ file'.tcache = file.tcache /\ file'.units = units
        /\ file' = [tcache |-> file.tcache, units |-> units]
    <2>1. file \in [tcache : BOOLEAN, units : Seq(ToSet(file.units))]
      BY <1>2 DEF IsDebugFile
    <2> HIDE DEF units
    <2> QED
      BY <1>6, <2>1
  <1>8. /\ units \in Seq(ToSet(units)) /\ Len(units) = Len(file.units)
        /\ DOMAIN units = 1 .. Len(file.units)
        /\ \A i \in 1 .. Len(file.units) : i # u => units[i] = file.units[i]
        /\ units[u] = [file.units[u] EXCEPT !.dies = new]
    <2>1. /\ DOMAIN units = 1 .. Len(file.units)
          /\ units = [i \in 1 .. Len(file.units) |-> units[i]]
          /\ \A i \in 1 .. Len(file.units) : i # u => units[i] = file.units[i]
          /\ units[u] = [file.units[u] EXCEPT !.dies = new]
      BY <1>2
    <2> HIDE DEF units
    <2>2. units \in Seq(ToSet(units)) /\ Len(units) = Len(file.units)
      BY <1>2, <2>1, FunctionIsSequence
    <2> QED
      BY <2>1, <2>2
  <1> HIDE DEF units, new
  <1>9. /\ units[u] = [kind |-> file.units[u].kind, dies |-> new]
        /\ file.units[u].kind \in {"compile", "type", "dwo"}
    <2>1. file.units[u] \in [kind : {"compile", "type", "dwo"}, dies : Seq(ToSet(ds))]
      BY <1>2 DEF IsDebugFile
    <2> HIDE DEF ds
    <2> QED
      BY <1>8, <2>1
  <1>10. /\ units[u].kind = file.units[u].kind /\ units[u].dies = new
    BY <1>9
  <1>11. IsDebugFile(file)'
    <2>1. file' \in [tcache : BOOLEAN, units : Seq(ToSet(file'.units))]
      BY <1>7, <1>8
    <2>2. ASSUME NEW i \in 1 .. Len(file.units)
          PROVE  /\ units[i] \in [kind : {"compile", "type", "dwo"},
                                  dies : Seq(ToSet(units[i].dies))]
                 /\ \A j \in DOMAIN units[i].dies : IsDie(units[i].dies[j])
                 /\ ReadAlike(units[i].dies)
      <3>1. CASE i # u
        <4>1. units[i] = file.units[i] /\ i \in DOMAIN file.units
          BY <1>2, <1>8, <3>1
        <4> QED
          BY <1>2, <4>1 DEF IsDebugFile
      <3>2. CASE i = u
        <4>1. new \in Seq(ToSet(new))
          BY <1>5 DEF new
        <4>2. units[u] \in [kind : {"compile", "type", "dwo"}, dies : Seq(ToSet(new))]
          BY <1>9, <4>1
        <4>3. \A j \in 1 .. Len(ds) : IsDie(ds[j])
          BY <1>2 DEF IsDebugFile
        <4>4. /\ DOMAIN new = 1 .. Len(ds)
              /\ \A j \in 1 .. Len(ds) : new[j] = IF ds[j] = old THEN AsRead ELSE ds[j]
          BY <1>5 DEF new
        <4>5. \A j \in DOMAIN new : IsDie(new[j])
          BY <1>4, <4>3, <4>4
        <4>6. ReadAlike(new)
          <5>1. ReadAlike(ds)
            BY <1>2 DEF IsDebugFile
          <5>2. \A j \in 1 .. Len(ds) : new[j].name = ds[j].name /\ new[j].id = ds[j].id
            BY <1>4, <4>4
          <5> HIDE DEF ds
          <5> QED
            BY <1>2, <4>4, <5>1, <5>2 DEF ReadAlike
        <4> QED
          BY <1>10, <3>2, <4>2, <4>5, <4>6
      <3> QED
        BY <3>1, <3>2
    <2>3. \A i \in DOMAIN file'.units :
            /\ file'.units[i] \in [kind : {"compile", "type", "dwo"},
                                   dies : Seq(ToSet(file'.units[i].dies))]
            /\ \A j \in DOMAIN file'.units[i].dies : IsDie(file'.units[i].dies[j])
            /\ ReadAlike(file'.units[i].dies)
      BY <1>7, <1>8, <2>2
    <2>4. IsDebugFile(file')
      BY <2>1, <2>3 DEF IsDebugFile
    <2> QED
      BY <2>4 DEF IsDebugFile, IsDie, ReadAlike
  <1>12. /\ \A i \in 1 .. Len(file.units) :
              file'.units[i].kind = file.units[i].kind
         /\ \A i \in 1 .. Len(file.units) :
              DOMAIN file'.units[i].dies = DOMAIN file.units[i].dies
         /\ DOMAIN file'.units = DOMAIN file.units /\ Len(file'.units) = Len(file.units)
    BY <1>2, <1>5, <1>7, <1>8, <1>10 DEF new
  <1>13. Places' = Places
    BY <1>2, <1>12 DEF Places
  <1>14. \A p \in Places :
           /\ p[1] # u => DieAt(p)' = DieAt(p)
           /\ p[1] = u => DieAt(p)' = IF DieAt(p) = old THEN AsRead ELSE DieAt(p)
    <2> SUFFICES ASSUME NEW p \in Places
                 PROVE  /\ p[1] # u => DieAt(p)' = DieAt(p)
                        /\ p[1] = u => DieAt(p)' = IF DieAt(p) = old THEN AsRead ELSE DieAt(p)
      OBVIOUS
    <2>1. p[1] \in 1 .. Len(file.units) /\ p[2] \in 1 .. Len(file.units[p[1]].dies)
      BY <1>2, PlaceIs
    <2>2. CASE p[1] # u
      BY <1>7, <1>8, <2>1, <2>2 DEF DieAt
    <2>3. CASE p[1] = u
      <3>1. DieAt(p)' = new[p[2]] /\ DieAt(p) = ds[p[2]] /\ p[2] \in 1 .. Len(ds)
        BY <1>7, <1>10, <2>1, <2>3 DEF DieAt
      <3> QED
        BY <1>5, <2>3, <3>1 DEF new
    <2> QED
      BY <2>2, <2>3
  <1> HIDE DEF ds
  <1>15. \A p \in Places : DieAt(p)'.name = DieAt(p).name
    BY <1>4, <1>14
  <1>16. WantedPlaces' = WantedPlaces
    BY <1>13, <1>15 DEF WantedPlaces
  <1>17. ScannedPlaces' = ScannedPlaces /\ ScannedWanted' = ScannedWanted
    BY <1>1, <1>13, <1>16 DEF ScannedPlaces, ScannedWanted, Scanned
  <1>18. Counted'
    <2>1. \A p \in ScannedPlaces' : DieAt(p)'.name # "undecodable"
      BY <1>1, <1>15, <1>17 DEF ScanInv, Counted, ScannedPlaces
    <2> QED
      BY <1>1, <1>17, <2>1 DEF ScanInv, Counted
  <1>19. /\ IsSequence(found') /\ Len(found') = Len(found)
         /\ \A m \in 1 .. Len(found) : found'[m] = IF found[m] = old THEN AsRead ELSE found[m]
    <2>1. DOMAIN found = 1 .. Len(found)
      BY DEF ScanInv, FoundHere, IsSequence
    <2> QED
      BY <1>1, <2>1, RereadIs DEF old
  <1>20. FoundHere'
    <2> DEFINE image(d) == IF d = old THEN AsRead ELSE d
    <2>1. {found[m] : m \in 1 .. Len(found)} = FoundDies
      BY <1>1 DEF ScanInv, FoundHere
    <2>2. {found'[m] : m \in 1 .. Len(found')} = {image(d) : d \in FoundDies}
      BY <1>19, <2>1
    <2>3. FoundDies' = {image(d) : d \in FoundDies}
      BY <1>1, <1>14, <1>17 DEF FoundDies, ScannedWanted, WantedPlaces
    <2> QED
      BY <1>1, <1>19, <2>2, <2>3 DEF FoundHere
  <1>21. \A m \in 1 .. Len(found) : m < k => found'[m] = found[m]
    <2> SUFFICES ASSUME NEW m \in 1 .. Len(found), m < k PROVE found[m] # old
      BY <1>19
    <2>1. found[m] \in TakenDies
      BY <1>1 DEF TakenDies, ResolvedDies
    <2>2. found[m].what \in {"parsed", "broken"}
      BY <1>1, <2>1 DEF ScanInv, CandidatesTaken
    <2> QED
      BY <1>1, <2>2
  <1>22. ResolvedDies' = ResolvedDies
    BY <1>1, <1>19, <1>21 DEF ResolvedDies
  <1>23. EarlierDies' = EarlierDies
    <2>1. \A p \in WantedPlaces : p[1] < u => DieAt(p)' = DieAt(p)
      <3>1. \A p \in WantedPlaces : p \in Places /\ p[1] \in Nat
        BY <1>2, PlaceIs DEF WantedPlaces
      <3> QED
        BY <1>2, <1>14, <3>1
    <2> QED
      BY <1>1, <1>16, <2>1 DEF EarlierDies
  <1>24. TakenDies' = TakenDies
    BY <1>22, <1>23 DEF TakenDies
  <1>25. CandidatesTaken'
    <2>1. \A t : StructsTaken(t)' = StructsTaken(t)
      BY <1>24 DEF StructsTaken, Parses, ValidSize
    <2> QED
      BY <1>1, <1>24, <2>1 DEF ScanInv, CandidatesTaken
  <1>26. SeenHere'
    BY <1>1, <1>22 DEF ScanInv, SeenHere, Key
  <1>27. Idle' /\ Position' /\ UnitsPassed'
    BY <1>1, <1>2, <1>12, <1>19 DEF ScanInv, Idle, Position, UnitsPassed
  <1>28. LayoutInFile'
    BY <1>1 DEF ScanInv, LayoutInFile
  <1>29. Verdict'
    BY <1>1 DEF ScanInv, Verdict, AcceptedIsUnanimous, RejectedHasCause
  <1> QED
    BY <1>11, <1>18, <1>20, <1>25, <1>26, <1>27, <1>28, <1>29 DEF ScanInv

-----------------------------------------------------------------------------
(* The whole.                                                              *)

LEMMA ScanStutters ==
  ASSUME ScanInv, UNCHANGED <<vars, status>>
  PROVE  ScanInv'
  <1>1. UNCHANGED <<file, pc, u, k, dies, candidateCount, found, seen, candidates, layout,
                    result, status>>
    BY DEF vars
  <1>2. /\ IsDebugFile(file)' /\ Required' = Required
        /\ Places' = Places /\ WantedPlaces' = WantedPlaces
        /\ \A p : DieAt(p)' = DieAt(p)
        /\ Readable' = Readable /\ Wanted' = Wanted
        /\ \A t : Structs(t)' = Structs(t) /\ UsableLayouts(t)' = UsableLayouts(t)
    BY <1>1, SameFile DEF ScanInv
  <1>3. ScannedPlaces' = ScannedPlaces /\ ScannedWanted' = ScannedWanted
    BY <1>1, <1>2 DEF ScannedPlaces, ScannedWanted, Scanned
  <1>4. ResolvedDies' = ResolvedDies /\ TakenDies' = TakenDies
    BY <1>1, <1>2 DEF TakenDies, EarlierDies, ResolvedDies
  <1>5. FoundDies' = FoundDies
    BY <1>1, <1>2, <1>3 DEF FoundDies
  <1>6. \A t : StructsTaken(t)' = StructsTaken(t)
    BY <1>4 DEF StructsTaken, Parses, ValidSize
  <1>7. Idle' /\ Position' /\ UnitsPassed'
    BY <1>1, <1>2 DEF ScanInv, Idle, Position, UnitsPassed
  <1>8. Counted' /\ FoundHere'
    BY <1>1, <1>2, <1>3, <1>5 DEF ScanInv, Counted, FoundHere
  <1>9. SeenHere' /\ CandidatesTaken'
    BY <1>1, <1>4, <1>6 DEF ScanInv, SeenHere, CandidatesTaken, Key
  <1>10. LayoutInFile' /\ Verdict'
    BY <1>1, <1>2 DEF ScanInv, LayoutInFile, Verdict, AcceptedIsUnanimous, RejectedHasCause
  <1> QED
    BY <1>2, <1>7, <1>8, <1>9, <1>10 DEF ScanInv

LEMMA ScanStep ==
  ASSUME ScanInv, Scan
  PROVE  ScanInv'
  <1>1. status = "loaded" /\ UNCHANGED status /\ Next
    BY DEF Scan, sectionVars
  <1>2. CASE \/ TooManyUnits \/ UnsupportedUnit \/ NoUnits \/ SplitUnit \/ DieLimit
             \/ BadName \/ ResolveLimit \/ SelectFails
    <2>1. Cause
      BY <1>2, FailuresHaveCause
    <2>2. /\ UNCHANGED <<file, u, k, counters, found, seen, index, layout>>
          /\ pc' = "done" /\ result' # "ok"
      BY <1>2 DEF TooManyUnits, UnsupportedUnit, NoUnits, SplitUnit, DieLimit, BadName,
                  ResolveLimit, SelectFails, Fail
    <2> QED
      BY <1>1, <2>1, <2>2, FailStep
  <1>3. CASE KeepHeader \/ HeadersRead
    BY <1>1, <1>3, HeaderSteps
  <1>4. CASE CountDie
    BY <1>1, <1>4, CountDieStep
  <1>5. CASE DiesRead
    BY <1>1, <1>5, DiesReadStep
  <1>6. CASE ResolveFound
    BY <1>1, <1>6, ResolveFoundStep
  <1>7. CASE UnitDone
    BY <1>1, <1>7, UnitDoneStep
  <1>8. CASE SelectOne
    BY <1>1, <1>8, SelectOneStep
  <1>9. CASE Assembled
    BY <1>1, <1>9, AssembledStep
  <1> QED
    BY <1>1, <1>2, <1>3, <1>4, <1>5, <1>6, <1>7, <1>8, <1>9 DEF Next

LEMMA StepScan ==
  ScanInv /\ TypesInv /\ [FileNext]_<<vars, sectionVars, typeVars>> => ScanInv'
  <1> SUFFICES ASSUME ScanInv, TypesInv, [FileNext]_<<vars, sectionVars, typeVars>>
               PROVE  ScanInv'
    OBVIOUS
  <1>1. CASE LoadSections
    BY <1>1, LoadSectionsStep
  <1>2. CASE Scan
    BY <1>2, ScanStep
  <1>3. CASE TypeRead
    BY <1>3, TypeReadStep
  <1>4. CASE ReadType \/ UNCHANGED <<vars, sectionVars, typeVars>>
    <2>1. UNCHANGED <<vars, status>>
      BY <1>4 DEF ReadType, sectionVars
    <2> QED
      BY <2>1, ScanStutters
  <1> QED
    BY <1>1, <1>2, <1>3, <1>4 DEF FileNext

(* A definition that was read is a structure, and the scan is consistent   *)
(* with the file as far as it has come.                                    *)
LEMMA ScanAlways == FileSpec => [](ScanInv /\ TypesInv)
  <1>1. TypesInv /\ [FileNext]_<<vars, sectionVars, typeVars>> => TypesInv'
    BY TypeSteps, StepTypes
  <1> QED
    BY <1>1, InitTypes, InitScan, StepScan, PTL DEF FileSpec

(* Whatever the limits, the units and their order, and whatever reading a  *)
(* definition gives: a layout is accepted only from a file that was read   *)
(* to its end and in which all usable definitions agree.                   *)
THEOREM AcceptedAlwaysUnanimous == FileSpec => []AcceptedIsUnanimous
  <1>1. ScanInv => AcceptedIsUnanimous
    BY DEF ScanInv, Verdict
  <1> QED
    BY <1>1, ScanAlways, PTL

(* Nothing else is refused: a file is rejected because some of it cannot   *)
(* be read, or because a wanted structure has no usable layout or several. *)
THEOREM RejectedAlwaysHasCause == FileSpec => []RejectedHasCause
  <1>1. ScanInv => RejectedHasCause
    BY DEF ScanInv, Verdict
  <1> QED
    BY <1>1, ScanAlways, PTL

LEMMA SelectedSafe == ScanInv => SelectedIsSafe
  <1> SUFFICES ASSUME ScanInv, NEW t \in TargetSet, layout[t] # None
               PROVE  \E d \in AllDies :
                        d.name = t /\ layout[t] = Layout(t, d.struct) /\ Safe(t, d.struct)
    BY DEF SelectedIsSafe
  <1>1. PICK s \in Structs(t) : layout[t] = Layout(t, s) /\ Validates(t, s)
    BY DEF ScanInv, LayoutInFile
  <1>2. PICK d \in AllDies : d.name = t /\ d.struct = s
    BY <1>1 DEF Structs
  <1>3. PICK p \in Places : d = DieAt(p)
    BY <1>2 DEF AllDies
  <1>4. IsStruct(s)
    BY <1>2, <1>3, DieInFile DEF ScanInv, IsDie
  <1>5. Safe(t, s)
    BY <1>1, <1>4, ValidatedIsSafe
  <1> QED
    BY <1>1, <1>2, <1>5

(* A layout that was selected is always one through which the analysis can *)
(* read: its offsets come from a structure of the file whose fields lie    *)
(* where they are read, and apart.                                         *)
THEOREM SelectedAlwaysSafe == FileSpec => []SelectedIsSafe
  BY ScanAlways, SelectedSafe, PTL
=============================================================================
