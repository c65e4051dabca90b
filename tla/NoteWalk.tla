------------------------------ MODULE NoteWalk ------------------------------
(***************************************************************************)
(* ELF notes (src/src/elf/notes.rs): the walk over one note segment, the   *)
(* notes of a whole file, and the three ways to a build-id, from segments, *)
(* from sections, and from a piece of memory that starts like a file.      *)
(*                                                                         *)
(* A segment is a sequence of cells, read at any offset: a header is three *)
(* cells (namesz, descsz, type), a name or descriptor a cell per byte, and *)
(* both are padded to Align, which stands for 4 as the three cells of the  *)
(* header stand for 12 bytes.  The sizes are u32 and the offsets those of  *)
(* a 64-bit host: the checked additions cannot fail.                       *)
(*                                                                         *)
(* An image is [cells, table, headers, sections], where a header or        *)
(* section is [note, start, size] and table is where the headers start,    *)
(* one cell each.                                                          *)
(***************************************************************************)
EXTENDS Naturals, SequencesExt

CONSTANTS Align,
          NoId   \* no build-id

HeaderCells == 3

ASSUME NoteWalkAssumption ==
  /\ Align \in Nat \ {0} /\ HeaderCells % Align = 0
  /\ NoId \notin Seq(Nat)

NUL == 0
GNU == 1          \* the names "GNU" and "CORE", one cell each
CORE == 2
BadByte == 3      \* not UTF-8

NT_GNU_BUILD_ID == 3

align4(n) == ((n + Align - 1) \div Align) * Align

\* Wrong variant: the name is taken to end where its padding ends.
DescStart_Unpadded(nameEnd) == nameEnd

DescStart(nameEnd) == align4(nameEnd)

Trimmed(bytes) ==
  LET nuls == {i \in DOMAIN bytes : bytes[i] = NUL}
  IN  IF nuls = {} THEN bytes ELSE SubSeq(bytes, 1, Min(nuls) - 1)

(* Where the name and the descriptor of the note at off end.               *)
NameEnd(data, off) == off + HeaderCells + data[off + 1]

DescEnd(data, off) == DescStart(NameEnd(data, off)) + data[off + 2]

NoteAt(data, off) ==
  [name |-> Trimmed(SubSeq(data, off + HeaderCells + 1, NameEnd(data, off))),
   type |-> data[off + 3],
   desc |-> SubSeq(data, DescStart(NameEnd(data, off)) + 1, DescEnd(data, off))]

IsWhole(data, off) ==
  off + HeaderCells <= Len(data) /\ DescEnd(data, off) <= Len(data)

IsText(name) == BadByte \notin ToSet(name)

(* A note whose name is no text is stepped over like any other.            *)
WalkNoteSegment(data) ==
  LET walk[off \in Nat] ==
        IF ~ IsWhole(data, off) THEN <<>>
        ELSE (IF IsText(NoteAt(data, off).name) THEN <<NoteAt(data, off)>> ELSE <<>>)
               \o walk[align4(DescEnd(data, off))]
  IN  walk[0]

-----------------------------------------------------------------------------
InCells(image, h) == h.start + h.size <= Len(image.cells)

NotesIn(image, h) ==
  WalkNoteSegment(SubSeq(image.cells, h.start + 1, h.start + h.size))

\* A range that leaves the file has no notes, not those in front of its end.
Walkable(image, h) == h.note /\ InCells(image, h)

WalkAllNotes(image) ==
  FlattenSeq([i \in DOMAIN image.headers |->
                IF Walkable(image, image.headers[i])
                  THEN NotesIn(image, image.headers[i]) ELSE <<>>])

FirstId(notes) ==
  LET ids == {i \in DOMAIN notes : notes[i].type = NT_GNU_BUILD_ID /\ notes[i].name = <<GNU>>}
  IN  IF ids = {} THEN NoId ELSE notes[Min(ids)].desc

BuildIdFromNoteSections(image) ==
  LET id(i) == FirstId(NotesIn(image, image.sections[i]))
      ids   == {i \in DOMAIN image.sections :
                  Walkable(image, image.sections[i]) /\ id(i) # NoId}
  IN  IF ids = {} THEN NoId ELSE id(Min(ids))

(* Wrong variant: the first PT_NOTE has to have it.                        *)
RawBuildId_FirstNote(buf) ==
  LET notes == {i \in DOMAIN buf.headers : buf.headers[i].note}
  IN  IF notes = {} \/ ~ InCells(buf, buf.headers[Min(notes)]) THEN NoId
      ELSE FirstId(NotesIn(buf, buf.headers[Min(notes)]))

(* The headers in their order, until one cannot be read, one is a PT_NOTE  *)
(* outside the buffer, or one has the build-id.                            *)
RawBuildId(buf) ==
  LET h(i)  == buf.headers[i]
      there(i) == buf.table + i <= Len(buf.cells)
      ends  == {i \in DOMAIN buf.headers :
                  \/ ~ there(i)
                  \/ h(i).note /\ ~ InCells(buf, h(i))
                  \/ h(i).note /\ FirstId(NotesIn(buf, h(i))) # NoId}
  IN  IF ends = {} \/ ~ there(Min(ends)) \/ ~ InCells(buf, h(Min(ends))) THEN NoId
      ELSE FirstId(NotesIn(buf, h(Min(ends))))

-----------------------------------------------------------------------------
(***************************************************************************)
(* What a producer writes: records [name, type, desc], the name as stored, *)
(* one after the other.                                                    *)
(***************************************************************************)
Padded(s) == s \o [i \in 1 .. align4(Len(s)) - Len(s) |-> NUL]

Record(r) ==
  <<Len(r.name), Len(r.desc), r.type>> \o Padded(r.name) \o Padded(r.desc)

Laid(records) == FlattenSeq([i \in DOMAIN records |-> Record(records[i])])

RecordEnd(records, i) ==
  Len(Laid(SubSeq(records, 1, i))) - (align4(Len(records[i].desc)) - Len(records[i].desc))

Kept(r) ==
  IF IsText(Trimmed(r.name))
  THEN << [name |-> Trimmed(r.name), type |-> r.type, desc |-> r.desc] >> ELSE <<>>

(* The notes a reader should find in the first len cells of a segment.     *)
NotesOf(records, len) ==
  LET whole == {i \in DOMAIN records : RecordEnd(records, i) <= len}
  IN  FlattenSeq([i \in 1 .. Cardinality(whole) |-> Kept(records[i])])

(* The build-id that the records behind some headers give: in the first    *)
(* GNU record of that type. image.written and .sectionsWritten say what    *)
(* records are behind each header or section that lies in the file.        *)
GivesId(r) == r.type = NT_GNU_BUILD_ID /\ Trimmed(r.name) = <<GNU>>

WithId(image, headers, written) ==
  {i \in DOMAIN headers :
     /\ Walkable(image, headers[i])
     /\ \E j \in DOMAIN written[i] : GivesId(written[i][j])}

GivenId(image, headers, written) ==
  LET with    == WithId(image, headers, written)
      records == written[Min(with)]
  IN  IF with = {} THEN NoId
      ELSE records[Min({j \in DOMAIN records : GivesId(records[j])})].desc

Records == [name : Seq(Nat), type : Nat, desc : Seq(Nat)]

IsWritten(image, headers, written) ==
  /\ headers \in Seq(Range(headers))
  /\ \A i \in DOMAIN headers :
       /\ {headers[i].start, headers[i].size} \subseteq Nat
       /\ Walkable(image, headers[i]) =>
            /\ written[i] \in Seq(Records)
            /\ SubSeq(image.cells, headers[i].start + 1, headers[i].start + headers[i].size)
                 = Laid(written[i])
=============================================================================
