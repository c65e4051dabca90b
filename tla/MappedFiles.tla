---------------------------- MODULE MappedFiles ----------------------------
(***************************************************************************)
(* mapped_files (src/src/elf/coredump.rs): the NT_FILE note as the list of *)
(* file-backed mappings. The note holds a table of ranges and, after the   *)
(* whole table, the paths; the two are joined by position.                 *)
(*                                                                         *)
(* A byte is NUL or says which item of the note it belongs to. A word has  *)
(* two bytes, the upper one NUL as in any user-space address; a path has   *)
(* one byte and its terminator; the three words of a range are one item.   *)
(***************************************************************************)
EXTENDS Naturals, Sequences, SequencesExt

CONSTANTS Notes,       \* [n, count, len]: mappings, claimed count, length
          MaxMappings  \* MAX_MAPPINGS

WordBytes == 2
NUL == [item |-> "nul", of |-> 0]

TableStart == 2 * WordBytes
RangeSize == 3 * WordBytes
PathSize == 2

TableEnd(t) == TableStart + t.n * RangeSize

IsNote(t) ==
  /\ t.n \in Nat /\ t.count \in Nat
  /\ t.len \in 0 .. TableEnd(t) + t.n * PathSize

InputsOK ==
  (\A t \in Notes : IsNote(t)) /\ MaxMappings \in Nat

VARIABLES note, pc, off, ranges, files

vars == <<note, pc, off, ranges, files>>

Byte(item, i) == [item |-> item, of |-> i]

RangeBytes(i) ==
  <<Byte("start", i), NUL, Byte("end", i), NUL, Byte("offset", i), NUL>>

PathBytes(i) == <<Byte("path", i), NUL>>

HeadBytes == <<Byte("count", 0), NUL, Byte("page_size", 0), NUL>>

\* The b-th byte of a part made of items of the same size, and its item.
ItemOf(b, size) == (b - 1) \div size + 1
ByteOf(b, size) == ((b - 1) % size) + 1

\* The descriptor, cut to len bytes.
Desc ==
  [b \in 1 .. note.len |->
     IF b <= TableStart THEN HeadBytes[b]
     ELSE IF b <= TableEnd(note)
            THEN LET r == b - TableStart
                 IN  RangeBytes(ItemOf(r, RangeSize))[ByteOf(r, RangeSize)]
     ELSE LET p == b - TableEnd(note)
          IN  PathBytes(ItemOf(p, PathSize))[ByteOf(p, PathSize)]]

Bytes(from, n) == SubSeq(Desc, from + 1, from + n)

Init ==
  /\ note \in Notes
  /\ pc = "count"
  /\ off = TableStart
  /\ ranges = <<>> /\ files = <<>>

\* No NT_FILE note (here: one of length 0), or one without a count.
NoCount ==
  /\ pc = "count" /\ Len(Desc) < WordBytes
  /\ pc' = "done"
  /\ UNCHANGED <<note, off, ranges, files>>

HasCount ==
  /\ pc = "count" /\ Len(Desc) >= WordBytes
  /\ pc' = "table"
  /\ UNCHANGED <<note, off, ranges, files>>

Count == IF note.count < MaxMappings THEN note.count ELSE MaxMappings

TableGoesOn == Len(ranges) < Count /\ off + RangeSize <= Len(Desc)

ReadRange ==
  /\ pc = "table" /\ TableGoesOn
  /\ ranges' = Append(ranges, Bytes(off, RangeSize))
  /\ off' = off + RangeSize
  /\ UNCHANGED <<note, pc, files>>

\* Wrong variant: the paths are looked for from the start of the table.
TableEnds_Rewind ==
  /\ pc = "table" /\ ~TableGoesOn
  /\ pc' = "paths"
  /\ off' = TableStart
  /\ UNCHANGED <<note, ranges, files>>

\* The table is read, or cut: the paths are looked for at off either way.
TableEnds ==
  /\ pc = "table" /\ ~TableGoesOn
  /\ pc' = "paths"
  /\ UNCHANGED <<note, off, ranges, files>>

\* read_cstr: the bytes up to a terminator that must be there.
Terminators == {e \in off + 1 .. Len(Desc) : Desc[e] = NUL}

FirstTerminator == CHOOSE e \in Terminators : \A x \in Terminators : e <= x

ReadPath ==
  /\ pc = "paths" /\ Len(files) < Len(ranges)
  /\ Terminators # {}
  /\ files' = Append(files, [range |-> ranges[Len(files) + 1],
                             path |-> SubSeq(Desc, off + 1, FirstTerminator - 1)])
  /\ off' = FirstTerminator
  /\ UNCHANGED <<note, pc, ranges>>

PathsEnd ==
  /\ pc = "paths"
  /\ Len(files) = Len(ranges) \/ Terminators = {}
  /\ pc' = "done"
  /\ UNCHANGED <<note, off, ranges, files>>

Next ==
  NoCount \/ HasCount \/ ReadRange \/ TableEnds \/ ReadPath \/ PathsEnd

Spec == Init /\ [][Next]_vars

-----------------------------------------------------------------------------
\* The mappings the note was written for.
Mapping(i) == [range |-> RangeBytes(i), path |-> <<Byte("path", i)>>]
Mappings == [i \in 1 .. note.n |-> Mapping(i)]

\* The count is the one of the note, and the table is there to its end.
TableIntact == note.count = note.n /\ note.n <= MaxMappings /\ note.len >= TableEnd(note)

(***************************************************************************)
(* The state has its type, and the limit on entries holds.                 *)
(***************************************************************************)
TypeOK ==
  /\ IsNote(note)
  /\ pc \in {"count", "table", "paths", "done"}
  /\ off \in Nat
  /\ Len(ranges) <= MaxMappings
  /\ Len(files) <= Len(ranges)

(***************************************************************************)
(* When the table is whole, a note cut among its paths gives the mappings  *)
(* whose path is there, each range with its own path, and no other. And    *)
(* wherever the note is cut, a range is never put together from two.       *)
(***************************************************************************)
WholeMappingsOnly ==
  /\ TableIntact =>
       /\ IsPrefix(files, Mappings)
       /\ pc = "done" => Len(files) >= (note.len - TableEnd(note)) \div PathSize
  /\ note.count <= note.n => \A i \in DOMAIN ranges : ranges[i] = RangeBytes(i)

(***************************************************************************)
(* What the comment on mapped_files promises of a truncated note: whatever *)
(* parsed cleanly. Only mappings that the note holds come out of it.       *)
(***************************************************************************)
TruncationIsClean ==
  note.count = note.n /\ note.n <= MaxMappings => IsPrefix(files, Mappings)
=============================================================================
