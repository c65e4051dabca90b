----------------------------- MODULE DwarfFile -----------------------------
(***************************************************************************)
(* extract_layout (src/src/glibc/dwarf.rs) as a whole: the sections are    *)
(* loaded, the units scanned, each definition that is found is read, and a *)
(* layout is selected.                                                     *)
(*                                                                         *)
(* The parts are modules of their own: DwarfScan (extended), DwarfSections *)
(* and DwarfTypes.  Of the definitions in a file one is unread at first:   *)
(* DwarfTypes reads it when the scan comes to it.  Reading keeps nothing   *)
(* from one definition to the next, so the others may have been read.      *)
(***************************************************************************)
EXTENDS DwarfScan

CONSTANTS Elfs, Infos, \* what DwarfSections and DwarfTypes look at
          Inputs,  \* families [elfs, files, infos], which go together
          MaxSectionBytes, MaxTotalBytes, Corrupt, \* of DwarfSections
          MaxDepth                                 \* of DwarfTypes

VARIABLES elf, status, position, total, expanded, sections, \* of DwarfSections
          info, step, at, visited, owner, child, open, type, members, what \* of DwarfTypes

sectionVars == <<elf, status, position, total, expanded, sections>>
typeVars == <<info, step, at, visited, owner, child, open, type, members, what>>

S == INSTANCE DwarfSections
T == INSTANCE DwarfTypes WITH pc <- step, k <- child

ASSUME DwarfFileAssumption ==
  /\ \A f \in Inputs :
       f.elfs \subseteq Elfs /\ f.files \subseteq DebugFiles /\ f.infos \subseteq Infos
  /\ S!ElfsOK
  /\ T!InfosOK

FileInit ==
  /\ \E f \in Inputs : elf \in f.elfs /\ file \in f.files /\ info \in f.infos
  /\ S!Begin /\ T!Begin
  /\ pc = "headers"
  /\ u = 1 /\ k = 1
  /\ dies = 0 /\ candidateCount = 0
  /\ found = <<>> /\ seen = {}
  /\ candidates = [t \in TargetSet |-> <<>>]
  /\ errors = [t \in TargetSet |-> FALSE]
  /\ layout = [t \in TargetSet |-> None]
  /\ result = "none"

(* What is scanned is what was loaded: no units without .debug_info.       *)
LoadSections ==
  /\ S!Next
  /\ file' = IF status' = "loaded" /\ ~ S!Holds(".debug_info")
               THEN [file EXCEPT !.units = <<>>] ELSE file
  /\ UNCHANGED <<pc, u, k, counters, found, seen, index, layout, result, typeVars>>

Scan ==
  /\ status = "loaded"
  /\ Next
  /\ UNCHANGED <<sectionVars, typeVars>>

AtUnread ==
  /\ status = "loaded"
  /\ AtFound
  /\ found[k].what = "unread"

ReadType ==
  /\ AtUnread
  /\ T!Next
  /\ UNCHANGED <<vars, sectionVars>>

AsRead ==
  [found[k] EXCEPT !.what = what,
                   !.struct = IF what = "parsed" THEN [size |-> T!Die(owner).size, members |-> members]
                              ELSE @]

\* Wherever the definition stands, it has been read.
Reread(ds) == [i \in DOMAIN ds |-> IF ds[i] = found[k] THEN AsRead ELSE ds[i]]

TypeRead ==
  /\ AtUnread
  /\ step = "done"
  /\ found' = Reread(found)
  /\ file' = [file EXCEPT !.units[u].dies = Reread(@)]
  /\ UNCHANGED <<pc, u, k, counters, seen, index, layout, result, sectionVars, typeVars>>

FileNext == LoadSections \/ Scan \/ ReadType \/ TypeRead

FileSpec == FileInit /\ [][FileNext]_<<vars, sectionVars, typeVars>>

-----------------------------------------------------------------------------
(* The state of the three parts has its type.                              *)
TypesOK == TypeOK /\ S!TypeOK /\ T!TypeOK

(* The reader works on the sections of the file, each once, whole and as   *)
(* large as it claims to be, and never expands more than its budget.       *)
SectionsAreWhole == S!SectionsAreWhole

(* A definition is read as what it means in C, or refused for a cause,     *)
(* however it is spread over typedefs and units.                           *)
DefinitionIsMeant == T!DefinitionIsMeant
=============================================================================
