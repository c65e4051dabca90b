---------------------------- MODULE DwarfLayout ----------------------------
(***************************************************************************)
(* Which structure definitions src/src/glibc/dwarf.rs trusts: the four     *)
(* validators with the helpers they share, and the layout one yields. The  *)
(* offsets of an accepted one are dereferenced in the core's memory with   *)
(* no further test, so they must hold a field each, of the right kind, in  *)
(* the structure.                                                          *)
(*                                                                         *)
(* A structure is [size, members]; a member is [name, offset, kind, bytes, *)
(* elem, width, count], the last four Unknown where DWARF leaves them out. *)
(* Numbers stand for u64 of a machine whose largest is AddrMax: a sum      *)
(* beyond it is an error of the code's checked arithmetic. select() treats *)
(* all errors of a candidate alike, so a structure is valid or it is not.  *)
(***************************************************************************)
EXTENDS Integers, Sequences, FiniteSets

CONSTANTS Word,            \* the address size
          AddrMax,
          MaxFieldOffset, MaxArrayBytes, MaxStructSize,
          MaxFastbins, MaxTcacheBins,
          Unknown          \* an attribute DWARF does not give

Number == 0 .. AddrMax

ASSUME DwarfLayoutAssumption ==
  /\ AddrMax \in Nat
  /\ Word \in Number \ {0}
  /\ Unknown \notin Number

\* The order in which assemble_layout selects.
Targets == <<"malloc_state", "malloc_par", "heap_info", "tcache_perthread_struct">>

TargetSet == {"malloc_state", "malloc_par", "heap_info", "tcache_perthread_struct"}

Kinds == {"pointer", "unsigned", "signed", "array", "structure", "other"}

IsMember(m) ==
  /\ m.kind \in Kinds
  /\ m.elem \in Kinds \cup {"none"}
  /\ m.offset \in Number
  /\ {m.bytes, m.width, m.count} \subseteq Number \cup {Unknown}

IsStruct(s) ==
  /\ s.size \in Number
  /\ IsFiniteSet(s.members)
  /\ \A m \in s.members : IsMember(m)

(***************************************************************************)
(* The helpers.                                                            *)
(***************************************************************************)
Named(s, name) == {m \in s.members : m.name = name}

\* required_member: exactly one. Equal copies were deduplicated before.
The(s, name) == CHOOSE m \in Named(s, name) : TRUE

\* Wrong variant: the offset is bounded and the end is not.
FieldRange_StartOnly(s, m) ==
  /\ m.bytes # Unknown
  /\ m.bytes # 0
  /\ m.offset <= MaxFieldOffset
  /\ m.offset < s.size

FieldRange(s, m) ==
  /\ m.bytes # Unknown
  /\ m.offset + m.bytes <= AddrMax
  /\ m.bytes # 0
  /\ m.offset <= MaxFieldOffset
  /\ m.offset + m.bytes <= s.size

WordOf(s, kind, m) ==
  /\ FieldRange(s, m)
  /\ m.kind = kind
  /\ m.bytes = Word
  /\ m.offset % Word = 0

Pointer(s, m) == WordOf(s, "pointer", m)
UnsignedWord(s, m) == WordOf(s, "unsigned", m)

Array(s, m, kind) ==
  /\ FieldRange(s, m)
  /\ m.kind = "array" /\ m.elem = kind
  /\ m.width # Unknown /\ m.count # Unknown
  /\ m.width # 0 /\ m.count # 0
  /\ m.width * m.count <= AddrMax
  /\ m.width * m.count <= MaxArrayBytes
  /\ m.bytes = m.width * m.count

PointerArray(s, m) == Array(s, m, "pointer") /\ m.width = Word

IntegerArray(s, m) == m.elem \in {"unsigned", "signed"} /\ Array(s, m, m.elem)

Apart(l, r) ==
  \/ l.offset >= r.offset + r.bytes
  \/ r.offset >= l.offset + l.bytes

NoOverlap(fields) ==
  \A i, j \in DOMAIN fields : i < j => Apart(fields[i], fields[j])

AllThere(s, names) == \A n \in names : Cardinality(Named(s, n)) = 1

OptionalWord(s, name) ==
  \/ Named(s, name) = {}
  \/ Cardinality(Named(s, name)) = 1 /\ UnsignedWord(s, The(s, name))

\* validate_struct_size, already when the structure is parsed.
ValidSize(s) ==
  /\ s.size \in 1 .. MaxStructSize
  /\ s.size % Word = 0

(***************************************************************************)
(* The validators.                                                         *)
(***************************************************************************)
ValidMallocState(s) ==
  /\ AllThere(s, {"fastbinsY", "top", "next"})
  /\ PointerArray(s, The(s, "fastbinsY"))
  /\ The(s, "fastbinsY").count <= MaxFastbins
  /\ Pointer(s, The(s, "top"))
  /\ Pointer(s, The(s, "next"))
  /\ NoOverlap(<<The(s, "fastbinsY"), The(s, "top"), The(s, "next")>>)

\* The fields of malloc_par are not tested for overlap.
ValidMallocPar(s) ==
  /\ AllThere(s, {"sbrk_base"})
  /\ Pointer(s, The(s, "sbrk_base"))
  /\ OptionalWord(s, "arena_max")
  /\ OptionalWord(s, "tcache_bins")

ValidHeapInfo(s) ==
  /\ AllThere(s, {"ar_ptr", "prev", "size", "mprotect_size"})
  /\ Pointer(s, The(s, "ar_ptr")) /\ Pointer(s, The(s, "prev"))
  /\ UnsignedWord(s, The(s, "size")) /\ UnsignedWord(s, The(s, "mprotect_size"))
  /\ NoOverlap(<<The(s, "ar_ptr"), The(s, "prev"), The(s, "size"),
                 The(s, "mprotect_size")>>)

ValidTcache(s) ==
  /\ AllThere(s, {"counts", "entries"})
  /\ IntegerArray(s, The(s, "counts"))
  /\ The(s, "counts").width \in {1, 2, 4, 8}
  /\ PointerArray(s, The(s, "entries"))
  /\ The(s, "counts").count = The(s, "entries").count
  /\ The(s, "entries").count <= MaxTcacheBins
  /\ NoOverlap(<<The(s, "counts"), The(s, "entries")>>)

Validates(t, s) ==
  CASE t = "malloc_state" -> ValidMallocState(s)
    [] t = "malloc_par"   -> ValidMallocPar(s)
    [] t = "heap_info"    -> ValidHeapInfo(s)
    [] t = "tcache_perthread_struct" -> ValidTcache(s)

WantedNames(t) ==
  CASE t = "malloc_state" -> {"fastbinsY", "top", "next"}
    [] t = "malloc_par"   -> {"sbrk_base", "arena_max", "tcache_bins"}
    [] t = "heap_info"    -> {"ar_ptr", "prev", "size", "mprotect_size"}
    [] t = "tcache_perthread_struct" -> {"counts", "entries"}

Used(t, s) == {m \in s.members : m.name \in WantedNames(t)}

\* What a validator returns, and select compares: the offsets, the bins of
\* an array and the size where it is kept; nothing of the counts.
Layout(t, s) ==
  [size   |-> IF t \in {"malloc_state", "heap_info"} THEN s.size ELSE 0,
   fields |-> {<<m.name, m.offset, IF m.kind = "array" THEN m.count ELSE Unknown>> :
                 m \in {n \in Used(t, s) : n.name # "counts"}}]

-----------------------------------------------------------------------------
(***************************************************************************)
(* What a layout should be, said in bytes: the cells a field occupies, and *)
(* the cells the analysis reads through it.                                *)
(***************************************************************************)
Cells(m) == {m.offset + b : b \in 0 .. m.bytes - 1}

ReadThrough(m) ==
  IF m.kind = "array"
    THEN UNION {{m.offset + i * m.width + b : b \in 0 .. m.width - 1} :
                i \in 0 .. m.count - 1}
    ELSE {m.offset + b : b \in 0 .. Word - 1}

StructCells(s) == {b \in Number : b < s.size}

Single(t, s) == \A m, n \in Used(t, s) : m.name = n.name => m = n

\* Whatever is read through a field lies in it and in the structure.
ReadsInField(t, s) ==
  \A m \in Used(t, s) : ReadThrough(m) = Cells(m) /\ Cells(m) \subseteq StructCells(s)

\* No two fields share a byte.
NothingShared(t, s) ==
  /\ Single(t, s)
  /\ \A m, n \in Used(t, s) : m # n => Cells(m) \cap Cells(n) = {}

\* A bin has a counter and a counter a bin.
BinsHaveCounters(s) ==
  \A m, n \in Used("tcache_perthread_struct", s) : m.count = n.count

Safe(t, s) ==
  /\ ReadsInField(t, s)
  /\ t # "malloc_par" => NothingShared(t, s)
  /\ t = "tcache_perthread_struct" => BinsHaveCounters(s)
=============================================================================
