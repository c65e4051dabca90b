--------------------------- MODULE DwarfSections ---------------------------
(***************************************************************************)
(* load_sections (src/src/glibc/dwarf.rs): the sections of a debug file    *)
(* that the reader needs, stored plainly or compressed in one of two ways. *)
(* All sizes are those of an untrusted file; they are held against two     *)
(* limits before anything is expanded.                                     *)
(*                                                                         *)
(* A section is [name, legacy, flag, start, size, header, declared,        *)
(* actual]: name is the canonical one, legacy says that it was written     *)
(* .zdebug_*, flag is SHF_COMPRESSED.  header is what the compression      *)
(* header looks like ("zlib", "short" or "foreign"), declared the size it  *)
(* gives and actual what the payload expands to (Corrupt if it does not).  *)
(***************************************************************************)
EXTENDS Naturals, Sequences, SequencesExt

CONSTANTS Elfs,            \* the files, as [sections, bytes]
          MaxSectionBytes, MaxTotalBytes,
          AddrMax,         \* the largest u64
          Corrupt

LayoutSections ==
  {".debug_abbrev", ".debug_addr", ".debug_info", ".debug_line",
   ".debug_line_str", ".debug_str", ".debug_str_offsets", ".debug_types"}

IsSection(s) ==
  /\ {s.legacy, s.flag} \subseteq BOOLEAN
  /\ {s.start, s.size, s.declared} \subseteq 0 .. AddrMax
  /\ s.actual \in Nat \cup {Corrupt}
  /\ s.header \in {"zlib", "short", "foreign"}

IsElf(e) ==
  /\ e.bytes \in Nat
  /\ e.sections \in Seq(ToSet(e.sections))
  /\ \A i \in DOMAIN e.sections : IsSection(e.sections[i])

ElfsOK ==
  /\ AddrMax \in Nat /\ MaxSectionBytes \in Nat /\ MaxTotalBytes \in Nat
  /\ Corrupt \notin Nat
  /\ \A e \in Elfs : IsElf(e)

VARIABLES elf,       \* the input
          status,    \* "loading", "loaded" or the kind of error
          position,  \* of the section header to look at
          total,     \* what reserve_section has granted
          expanded,  \* bytes in buffers of our own
          sections   \* canonical name -> [from, bytes], bytes in the store

vars == <<elf, status, position, total, expanded, sections>>

Begin ==
  /\ status = "loading"
  /\ position = 1
  /\ total = 0 /\ expanded = 0
  /\ sections = <<>>

Init == elf \in Elfs /\ Begin

AtSection == status = "loading" /\ position <= Len(elf.sections)

Section == elf.sections[position]

Compressed == Section.legacy \/ Section.flag

Stop(why) ==
  /\ status' = why
  /\ UNCHANGED <<elf, position, total, expanded, sections>>

SkipSection ==
  /\ AtSection
  /\ Section.name \notin LayoutSections
  /\ position' = position + 1
  /\ UNCHANGED <<elf, status, total, expanded, sections>>

AtWanted == AtSection /\ Section.name \in LayoutSections

InFile == Section.start + Section.size <= elf.bytes

OutsideFile ==
  /\ AtWanted
  /\ ~ InFile
  /\ Stop(IF Section.start + Section.size > AddrMax THEN "limit" ELSE "invalid")

\* A section in the old style has no type: it is zlib or it is broken.
BadHeader ==
  /\ AtWanted /\ InFile
  /\ Compressed
  /\ Section.header # "zlib"
  /\ Stop(IF Section.header = "short" \/ Section.legacy THEN "invalid" ELSE "unsupported")

\* Wrong variant: the bytes in the file are counted, not the expanded ones.
Cost_InFile == Section.size

Cost == IF Compressed THEN Section.declared ELSE Section.size

Readable == AtWanted /\ InFile /\ (Compressed => Section.header = "zlib")

Granted == Cost <= MaxSectionBytes /\ total + Cost <= MaxTotalBytes

OverBudget ==
  /\ Readable
  /\ ~ Granted
  /\ Stop("limit")

(* The decoder is stopped one byte after the declared size.                *)
Output ==
  IF ~ Compressed \/ Section.actual = Corrupt THEN 0
  ELSE IF Section.actual > Section.declared THEN Section.declared + 1
  ELSE Section.actual

Expands == Compressed => Output = Section.declared /\ Section.actual # Corrupt

Reserved == total' = total + Cost /\ expanded' = expanded + Output

WrongSize ==
  /\ Readable /\ Granted
  /\ ~ Expands
  /\ Reserved
  /\ status' = IF Section.actual = Corrupt THEN "parse" ELSE "invalid"
  /\ UNCHANGED <<elf, position, sections>>

IsDuplicate == Section.name \in DOMAIN sections

Duplicate ==
  /\ Readable /\ Granted /\ Expands
  /\ IsDuplicate
  /\ Reserved
  /\ status' = "invalid"
  /\ UNCHANGED <<elf, position, sections>>

Load ==
  /\ Readable /\ Granted /\ Expands
  /\ ~ IsDuplicate
  /\ Reserved
  /\ sections' = [n \in DOMAIN sections \cup {Section.name} |->
                    IF n = Section.name
                      THEN [from |-> position, bytes |-> IF Compressed THEN Output ELSE Section.size]
                      ELSE sections[n]]
  /\ position' = position + 1
  /\ UNCHANGED <<elf, status>>

Holds(name) == name \in DOMAIN sections /\ sections[name].bytes > 0

(* Without .debug_info there is no DWARF, which extract_layout looks for   *)
(* first; type units of version 4 it does not support.                     *)
Loaded ==
  /\ status = "loading"
  /\ position > Len(elf.sections)
  /\ status' = IF Holds(".debug_info") /\ Holds(".debug_types") THEN "unsupported" ELSE "loaded"
  /\ UNCHANGED <<elf, position, total, expanded, sections>>

Next ==
  \/ SkipSection \/ OutsideFile \/ BadHeader \/ OverBudget
  \/ WrongSize \/ Duplicate \/ Load \/ Loaded

Spec == Init /\ [][Next]_vars

-----------------------------------------------------------------------------
TypeOK ==
  /\ IsElf(elf)
  /\ status \in {"loading", "loaded", "limit", "invalid", "unsupported", "parse"}
  /\ position \in 1 .. Len(elf.sections) + 1
  /\ {total, expanded} \subseteq Nat
  /\ DOMAIN sections \subseteq LayoutSections

WantedIn(e) == {i \in DOMAIN e.sections : e.sections[i].name \in LayoutSections}

(* How many bytes the section has once it is expanded.                     *)
Contents(sec) == IF sec.legacy \/ sec.flag THEN sec.actual ELSE sec.size

(* Whatever sizes the file claims, no more than the limit is ever held in  *)
(* buffers, but for the one byte that shows a wrong claim; and what is     *)
(* handed on is the file's sections, each once, whole and where it says.   *)
SectionsAreWhole ==
  /\ expanded <= MaxTotalBytes + 1
  /\ status = "loaded" =>
       /\ expanded <= MaxTotalBytes
       /\ {sections[n].from : n \in DOMAIN sections} = WantedIn(elf)
       /\ \A n \in DOMAIN sections :
            LET sec == elf.sections[sections[n].from]
            IN  /\ sec.name = n
                /\ sections[n].bytes = Contents(sec)
                /\ sections[n].bytes <= MaxSectionBytes
                /\ sec.start + sec.size <= elf.bytes
=============================================================================
