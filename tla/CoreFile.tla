------------------------------ MODULE CoreFile ------------------------------
(***************************************************************************)
(* What analyze_core_with_debug takes from the core file, in its order:    *)
(* the threads out of the notes in its PT_NOTE segments (a malformed note  *)
(* ends the analysis here), the mapped files, and then memory, one query   *)
(* of which stands for all: Elf keeps nothing from one to the next.        *)
(*                                                                         *)
(* The parts are modules of their own: NoteWalk and Threads (extended),    *)
(* MappedFiles and CoreImage.                                              *)
(***************************************************************************)
EXTENDS Threads, Memory, NoteWalk

CONSTANTS Files,      \* the core files, as [stored, note, core, query]
          MaxMappings

VARIABLES stored, walked,                \* the notes in the core; read yet?
          note, pc, off, ranges, files,  \* of MappedFiles
          core, query, i, answer         \* of CoreImage

fileVars == <<note, pc, off, ranges, files>>
imageVars == <<core, query, i, answer>>

FileNotes == {f.note : f \in Files}
FileCores == {f.core : f \in Files}
FileQueries == {f.query : f \in Files}

M == INSTANCE MappedFiles WITH Notes <- FileNotes
C == INSTANCE CoreImage WITH Cores <- FileCores, Queries <- FileQueries

-----------------------------------------------------------------------------
(* A dump is stored as records in two PT_NOTE segments, the first split of *)
(* its notes in one.  The second is size cells long by its header, which   *)
(* may be too few, and of the file keep cells are left.  A thread's note   *)
(* holds the thread and its pointer, a short one lacks the pointer; an     *)
(* `other` note that is not whole has a name that is no text.              *)
NoteTypes == [prstatus |-> 1, tls |-> 2, other |-> 4]

RecordOf(n) ==
  [name |-> IF n.kind = "other" /\ ~ n.whole THEN <<BadByte, CORE, NUL>> ELSE <<CORE, NUL>>,
   type |-> NoteTypes[n.kind],
   desc |-> IF n.whole THEN <<n.owner, n.tp>> ELSE <<n.owner>>]

RecordsOf(notes) == [j \in DOMAIN notes |-> RecordOf(notes[j])]

FirstOf(s) == RecordsOf(SubSeq(s.dump.notes, 1, s.split))

RestOf(s) == RecordsOf(SubSeq(s.dump.notes, s.split + 1, Len(s.dump.notes)))

IsStored(s) ==
  /\ s.dump \in Dumps
  /\ s.split \in 0 .. Len(s.dump.notes)
  /\ s.size \in Nat
  /\ s.keep \in 0 .. Len(Laid(FirstOf(s)) \o Laid(RestOf(s)))

ASSUME CoreFileAssumption ==
  /\ \A f \in Files : IsStored(f.stored)
  /\ M!InputsOK
  /\ C!QueriesOK

First == FirstOf(stored)

Rest == RestOf(stored)

Image ==
  LET first == Len(Laid(First))
  IN  [cells   |-> SubSeq(Laid(First) \o Laid(Rest), 1, stored.keep),
       headers |-> <<[note |-> TRUE, start |-> 0, size |-> first],
                     [note |-> FALSE, start |-> 0, size |-> first + 1],
                     [note |-> TRUE, start |-> first, size |-> stored.size]>>]

(* What Threads sees of a walked note (parse_prstatus, parse_tls_note).    *)
NoteSeen(n) ==
  [kind  |-> CHOOSE kind \in Kinds : NoteTypes[kind] = n.type,
   owner |-> n.desc[1],
   whole |-> Len(n.desc) >= 2,
   tp    |-> IF Len(n.desc) >= 2 THEN n.desc[2] ELSE 0]

Seen(notes) == [j \in DOMAIN notes |-> NoteSeen(notes[j])]

CoreInit ==
  /\ \E f \in Files :
       stored = f.stored /\ note = f.note /\ core = f.core /\ query = f.query
  /\ walked = FALSE
  /\ dump = [stored.dump EXCEPT !.notes = <<>>]
  /\ k = 1 /\ threads = <<>> /\ pendingTp = {} /\ failed = FALSE
  /\ M!Init /\ C!Init

ReadNotes ==
  /\ ~ walked
  /\ walked' = TRUE
  /\ dump' = [dump EXCEPT !.notes = Seen(WalkAllNotes(Image))]
  /\ UNCHANGED <<stored, k, threads, pendingTp, failed, fileVars, imageVars>>

ReadThreads ==
  /\ walked
  /\ Next
  /\ UNCHANGED <<stored, walked, fileVars, imageVars>>

ReadFiles ==
  /\ walked /\ Done /\ ~ failed
  /\ M!Next
  /\ UNCHANGED <<stored, walked, vars, imageVars>>

ReadMemory ==
  /\ walked /\ Done /\ ~ failed
  /\ pc = "done"
  /\ C!Next
  /\ UNCHANGED <<stored, walked, vars, fileVars>>

CoreNext == ReadNotes \/ ReadThreads \/ ReadFiles \/ ReadMemory

CoreSpec == CoreInit /\ [][CoreNext]_<<stored, walked, vars, fileVars, imageVars>>

-----------------------------------------------------------------------------
(* The state of the three parts has its type.                              *)
TypesOK == TypeOK /\ M!TypeOK /\ C!TypeOK

(* The notes of the core are exactly those whose descriptor ends inside    *)
(* their segment, in order and with the contents they were written with:   *)
(* padding, a cut, or a note of an odd name in between never shifts what   *)
(* is read as a header.  Only a segment that leaves the file has none.     *)
NotesAreWhole ==
  walked /\ k = 1 =>
    dump.notes =
      (IF Len(Laid(First)) <= stored.keep
         THEN Seen(NotesOf(First, Len(Laid(First)))) ELSE <<>>)
      \o (IF Len(Laid(First)) + stored.size <= stored.keep
           THEN Seen(NotesOf(Rest, stored.size)) ELSE <<>>)

(* The threads are the prstatus notes in their order, all of them; one     *)
(* malformed prstatus, wherever it stands, and nothing is read after it    *)
(* ("a half-known thread set isn't worth pressing on with").               *)
ThreadsOrNothing ==
  /\ walked => AllThreadsOrNone
  /\ failed => files = <<>> /\ answer = C!Pending

(* A TLS note is joined with the thread it was written for.                *)
ThreadPointersAreOwn == walked => OwnThreadPointer

(* Ranges and paths of the NT_FILE note are joined as they belong.         *)
WholeMappingsOnly == M!WholeMappingsOnly

(* A read returns the bytes the dump has for the address, if it has them.  *)
ReadIsRight == C!ReadIsRight

(* segment_bounds answers with the segment of the address.                 *)
BoundsAreRight == C!BoundsAreRight

(* What the comment on mapped_files promises of a truncated note: whatever *)
(* parsed cleanly.  Only mappings that the note holds come out of it.      *)
TruncationIsClean == M!TruncationIsClean
=============================================================================
