---------------------------- MODULE CheckCommand ----------------------------
(***************************************************************************)
(* The check command (src/src/commands/check.rs) around the detection of   *)
(* the glibc layout (src/src/glibc/mod.rs) that the report command shares: *)
(* is the debug file the one of this libc, which definition of a symbol is *)
(* used, which structure layout, what is missing, and what the caller is   *)
(* told by the document and the exit code.                                 *)
(*                                                                         *)
(* A value of a symbol, a build-id or a checksum is a member of a small    *)
(* set. The outcome of the DWARF extraction (modules DwarfScan and         *)
(* DwarfLayout) is part of the input.                                      *)
(***************************************************************************)
EXTENDS NoteWalk, FiniteSets

CONSTANTS Inputs,          \* the files to check
          Values,          \* values of symbols, build-ids and checksums
          None             \* no such value

\* tcache stands for __tcache too, narenas_limit for its LTO names.
Slots == {"main_arena", "mp_", "narenas", "narenas_limit", "tcache",
          "tcache_key", "thread_arena", "__malloc_hugepage_config"}

\* What apply_dwarf always assigns, and what DWARF may leave as it is. The sizes
\* of the structures go by their names (main_arena.size is malloc_state's).
RequiredOffsets ==
  {"layout_source", "malloc_state", "fastbinsY", "fastbin_count", "top", "next",
   "sbrk_base", "heap_info", "ar_ptr", "prev", "size", "mprotect_size"}
TcacheOffsets == {"entries", "bins"}
OptionalOffsets == {"arena_max", "tcache_bins"}
Offsets == RequiredOffsets \cup TcacheOffsets \cup OptionalOffsets

IsSymbol(s) == s.slot \in Slots /\ s.defined \in BOOLEAN /\ s.value \in Values

\* A file shows its build-id in f.image, if at all, in a note of a segment, of
\* a section, or of both; an empty build-id in a segment shadows the section.
HoldsId(f) ==
  LET image      == f.image
      inSegments == GivenId(image, image.headers, image.written)
      inSections == GivenId(image, image.sections, image.sectionsWritten)
  IN  /\ image.cells \in Seq(Nat)
      /\ IsWritten(image, image.headers, image.written)
      /\ IsWritten(image, image.sections, image.sectionsWritten)
      /\ inSegments = CASE f.idIn \in {"segment", "both"} -> <<f.id>>
                         [] f.idIn = "shadowed" -> <<>>
                         [] OTHER -> NoId
      /\ f.idIn = "section" => inSections = <<f.id>>
      /\ f.idIn = "none" => inSections = NoId

Shown(f) == f.idIn \in {"segment", "section", "both"}

IsFile(f) ==
  /\ f.syms \in Seq(ToSet(f.syms))
  /\ \A i \in DOMAIN f.syms : IsSymbol(f.syms[i])
  /\ f.id \in Values                        \* what its build was given
  /\ f.idIn \in {"none", "segment", "section", "both", "shadowed"}
  /\ HoldsId(f)
  /\ f.crc \in Values                       \* checksum of the whole file

IsInput(i) ==
  /\ IsFile(i.libc)
  /\ i.libc.opens \in BOOLEAN               \* can be read, and is an ELF file
  /\ i.libc.arch \in BOOLEAN                \* supported
  /\ i.libc.tpOff \in BOOLEAN               \* a zero-addend TP relocation
  /\ i.libc.version \in {"old", "safe_linking", "unknown"}
  /\ i.libc.link \in {"absent", "malformed", "crc"} /\ i.libc.linkCrc \in Values
  /\ i.debug # None => /\ IsFile(i.debug)
                       /\ i.debug.opens \in BOOLEAN
                       /\ i.debug.sameAbi \in BOOLEAN
                       /\ i.debug.own \in BOOLEAN
  /\ i.dwarf \in {"ok", "unavailable", "failed"}
  /\ i.optional \subseteq OptionalOffsets   \* those the DWARF has

\* What build-ids and checksums are worth: files of one build have the same
\* build-id, and a foreign file differs in the first of ABI, build-id and
\* checksum that both files let one compare. It may agree in a later one.
Evidence(i) ==
  LET bothIds == Shown(i.libc) /\ Shown(i.debug)
  IN  i.debug # None =>
        IF i.debug.own
          THEN i.libc.id = i.debug.id
          ELSE \/ ~i.debug.sameAbi
               \/ bothIds /\ i.libc.id # i.debug.id
               \/ ~bothIds /\ i.debug.crc # i.libc.linkCrc

ASSUME CheckAssumption ==
  /\ Values \subseteq Nat /\ None \notin Nat
  /\ \A i \in Inputs : IsInput(i) /\ Evidence(i)

VARIABLES input, stage,
          table, entry,  \* the symbol table being scanned, the entry in it
          slot,          \* Slots -> value, or None while absent
          problems,      \* the list of problems, in order
          origin,        \* Offsets -> "builtin" or "dwarf"
          safeLinking,
          stdout,        \* "empty", "part" or "whole"
          supported, code

checkVars == <<input, stage, table, entry, slot, problems, origin, safeLinking,
               stdout, supported, code>>

scan == <<table, entry, slot>>
caps == <<origin, safeLinking>>
outcome == <<stdout, supported, code>>

Problem(kind, of) == [kind |-> kind, of |-> of]

Told(kind) == \E i \in DOMAIN problems : problems[i].kind = kind

CheckInit ==
  /\ input \in Inputs
  /\ stage = "arch"
  /\ table = "libc" /\ entry = 1
  /\ slot = [s \in Slots |-> None]
  /\ problems = <<>>
  /\ origin = [o \in Offsets |-> "builtin"]
  /\ safeLinking = FALSE
  /\ stdout = "empty" /\ supported = FALSE /\ code = None

\* compute_identity does not look into sections.
MissingBuildId ==
  IF FirstId(WalkAllNotes(input.libc.image)) = NoId THEN <<Problem("missing_build_id", None)>> ELSE <<>>

LibcUnusable ==
  /\ stage = "arch" /\ ~input.libc.opens
  /\ stage' = "done"
  /\ code' = 1
  /\ UNCHANGED <<input, scan, problems, caps, stdout, supported>>

(***************************************************************************)
(* An unsupported architecture is reported, not refused: the debug file is *)
(* not even opened.                                                        *)
(***************************************************************************)
UnsupportedArch ==
  /\ stage = "arch" /\ input.libc.opens /\ ~input.libc.arch
  /\ problems' = <<Problem("unsupported_arch", None)>> \o MissingBuildId
  /\ stage' = "write"
  /\ UNCHANGED <<input, scan, caps, outcome>>

SupportedArch ==
  /\ stage = "arch" /\ input.libc.opens /\ input.libc.arch
  /\ stage' = "verify"
  /\ UNCHANGED <<input, scan, problems, caps, outcome>>

ElfBuildId(f) ==
  LET inSegments == FirstId(WalkAllNotes(f.image))
      id == IF inSegments # NoId THEN inSegments ELSE BuildIdFromNoteSections(f.image)
  IN  IF id = <<>> THEN NoId ELSE id

LibcId == ElfBuildId(input.libc)

DebugId == ElfBuildId(input.debug)

(***************************************************************************)
(* verify_debug_matches_runtime: two build-ids decide alone, and only      *)
(* without one of them the checksum in .gnu_debuglink is asked.            *)
(***************************************************************************)
LinkMatches == input.libc.link = "crc" /\ input.debug.crc = input.libc.linkCrc

\* Wrong variant: a checksum that matches outweighs build-ids that differ.
Matches_EitherWay ==
  /\ input.debug.sameAbi
  /\ (LibcId = DebugId /\ LibcId # NoId) \/ LinkMatches

Matches ==
  /\ input.debug.sameAbi
  /\ IF NoId \notin {LibcId, DebugId} THEN LibcId = DebugId ELSE LinkMatches

DebugUnusable ==
  /\ stage = "verify" /\ input.debug # None
  /\ ~input.debug.opens
  /\ stage' = "done"
  /\ code' = 1
  /\ UNCHANGED <<input, scan, problems, caps, stdout, supported>>

DebugRefused ==
  /\ stage = "verify" /\ input.debug # None
  /\ input.debug.opens /\ ~Matches
  /\ stage' = "done"
  /\ code' = 1
  /\ UNCHANGED <<input, scan, problems, caps, stdout, supported>>

DebugVerified ==
  /\ stage = "verify"
  /\ input.debug # None => input.debug.opens /\ Matches
  /\ stage' = "symbols"
  /\ UNCHANGED <<input, scan, problems, caps, outcome>>

(***************************************************************************)
(* scan_symbols: the table of the libc, then the one of the debug file,    *)
(* into the same slots.                                                    *)
(***************************************************************************)
Table == IF table = "libc" THEN input.libc.syms ELSE input.debug.syms

Sym == Table[entry]

AtSymbol == stage = "symbols" /\ entry <= Len(Table)

Undefined == ~Sym.defined

FillSymbol ==
  /\ AtSymbol /\ ~Undefined
  /\ slot[Sym.slot] = None
  /\ slot' = [slot EXCEPT ![Sym.slot] = Sym.value]
  /\ entry' = entry + 1
  /\ UNCHANGED <<input, stage, table, problems, caps, outcome>>

\* Wrong variant: only duplicates in one and the same table are compared.
Differs_SameTable == Sym.value # slot[Sym.slot] /\ table = "libc"

Differs == Sym.value # slot[Sym.slot]

SecondDefinition ==
  /\ AtSymbol /\ ~Undefined
  /\ slot[Sym.slot] # None
  /\ problems' = IF Differs
                   THEN Append(problems, Problem("duplicate_symbol", Sym.slot))
                   ELSE problems
  /\ entry' = entry + 1
  /\ UNCHANGED <<input, stage, table, slot, caps, outcome>>

SkipUndefined ==
  /\ AtSymbol /\ Undefined
  /\ entry' = entry + 1
  /\ UNCHANGED <<input, stage, table, slot, problems, caps, outcome>>

DebugTable ==
  /\ stage = "symbols" /\ entry > Len(Table)
  /\ table = "libc" /\ input.debug # None
  /\ table' = "debug" /\ entry' = 1
  /\ UNCHANGED <<input, stage, slot, problems, caps, outcome>>

Missing(name) ==
  IF slot[name] = None THEN <<Problem("missing_symbol", name)>> ELSE <<>>

SymbolsScanned ==
  /\ stage = "symbols" /\ entry > Len(Table)
  /\ table = "debug" \/ input.debug = None
  /\ problems' = problems \o Missing("main_arena") \o Missing("mp_")
  /\ stage' = "relocation"
  /\ UNCHANGED <<input, scan, caps, outcome>>

Relocation ==
  /\ stage = "relocation"
  /\ problems' = IF input.libc.tpOff THEN problems
                 ELSE Append(problems, Problem("missing_relocation", None))
  /\ stage' = "capabilities"
  /\ UNCHANGED <<input, scan, caps, outcome>>

Capabilities ==
  /\ stage = "capabilities"
  /\ safeLinking' = (input.libc.version # "old")
  /\ problems' = IF input.libc.version # "unknown" THEN problems
                 ELSE Append(problems, Problem("unknown_glibc_version", None))
  /\ stage' = "layout"
  /\ UNCHANGED <<input, scan, origin, outcome>>

(***************************************************************************)
(* The layout: DWARF as a set, or what is built in.                        *)
(***************************************************************************)
FromDwarf ==
  RequiredOffsets \cup input.optional
    \cup (IF slot["tcache"] # None THEN TcacheOffsets ELSE {})

ApplyDwarf ==
  /\ stage = "layout" /\ input.dwarf = "ok"
  /\ origin' = [o \in Offsets |-> IF o \in FromDwarf THEN "dwarf" ELSE origin[o]]
  /\ stage' = "identity"
  /\ UNCHANGED <<input, scan, problems, safeLinking, outcome>>

Silent == input.dwarf = "unavailable" /\ input.debug = None

NoDwarf ==
  /\ stage = "layout" /\ input.dwarf # "ok"
  /\ problems' = IF Silent THEN problems
                 ELSE Append(problems, Problem("dwarf_layout_fallback", None))
  /\ stage' = "identity"
  /\ UNCHANGED <<input, scan, caps, outcome>>

(***************************************************************************)
(* The rest of supported_report, the document and the exit code.           *)
(***************************************************************************)
Fatal == {"missing_symbol", "unsupported_arch"}

\* Wrong variant: a missing mp_ is taken for a gap like any other.
IsFatal_MainArenaOnly(p) ==
  p.kind = "unsupported_arch" \/ p.of = "main_arena"

IsFatal(p) == p.kind \in Fatal

Judge ==
  /\ stage = "identity"
  /\ problems' = problems \o MissingBuildId
  /\ supported' = \A i \in DOMAIN problems' : ~IsFatal(problems'[i])
  /\ stage' = "write"
  /\ UNCHANGED <<input, scan, caps, stdout, code>>

Write ==
  /\ stage = "write"
  /\ stdout' = "whole"
  /\ code' = IF supported THEN 0 ELSE 1
  /\ stage' = "done"
  /\ UNCHANGED <<input, scan, problems, caps, supported>>

WriteFails ==
  /\ stage = "write"
  /\ stdout' \in {"empty", "part"}
  /\ code' = 1
  /\ stage' = "done"
  /\ UNCHANGED <<input, scan, problems, caps, supported>>

\* println! panics when the newline after the document cannot be written,
\* and with it the last line that stdout still buffers.
NewlineFails ==
  /\ stage = "write"
  /\ stdout' \in {"part", "whole"}
  /\ code' = 101
  /\ stage' = "done"
  /\ UNCHANGED <<input, scan, problems, caps, supported>>

CheckNext ==
  \/ LibcUnusable \/ UnsupportedArch \/ SupportedArch
  \/ DebugUnusable \/ DebugRefused \/ DebugVerified
  \/ FillSymbol \/ SecondDefinition \/ SkipUndefined \/ DebugTable
  \/ SymbolsScanned \/ Relocation \/ Capabilities
  \/ ApplyDwarf \/ NoDwarf
  \/ Judge \/ Write \/ WriteFails \/ NewlineFails

CheckSpec == CheckInit /\ [][CheckNext]_checkVars

-----------------------------------------------------------------------------
AllSymbols ==
  input.libc.syms \o (IF input.debug = None THEN <<>> ELSE input.debug.syms)

Definitions(name) ==
  {i \in DOMAIN AllSymbols : AllSymbols[i].defined /\ AllSymbols[i].slot = name}

Scanned == stage \in {"relocation", "capabilities", "layout", "identity"}

Delivered == stdout = "whole"

Detected == Delivered /\ input.libc.arch

(***************************************************************************)
(* The state of the command has its type.                                  *)
(***************************************************************************)
CheckTypeOK ==
  /\ IsInput(input)
  /\ stage \in {"arch", "verify", "symbols", "relocation", "capabilities",
             "layout", "identity", "write", "done"}
  /\ table \in {"libc", "debug"} /\ entry \in Nat \ {0}
  /\ \A s \in Slots : slot[s] \in Values \cup {None}
  /\ \A i \in DOMAIN problems : problems[i].of \in Slots \cup {None}
  /\ \A o \in Offsets : origin[o] \in {"builtin", "dwarf"}
  /\ safeLinking \in BOOLEAN /\ supported \in BOOLEAN
  /\ stdout \in {"empty", "part", "whole"}
  /\ code \in {0, 1, 101} \cup {None}
  /\ stage = "done" <=> code # None

(***************************************************************************)
(* Every slot holds the first definition of the libc's table followed by   *)
(* the debug file's, and none that is only imported.  A duplicate is       *)
(* reported for a symbol exactly when two definitions of it, in whichever  *)
(* of the two tables, disagree.                                            *)
(***************************************************************************)
ConflictsAreTold ==
  Scanned =>
    \A s \in Slots :
      /\ slot[s] = IF Definitions(s) = {} THEN None
                   ELSE AllSymbols[Min(Definitions(s))].value
      /\ (\E i \in DOMAIN problems : problems[i] = Problem("duplicate_symbol", s))
        <=> \E i, j \in Definitions(s) : AllSymbols[i].value # AllSymbols[j].value

(***************************************************************************)
(* Nothing is taken from a debug file of another build, and the right one  *)
(* is not refused: not for a broken .gnu_debuglink when the build-ids      *)
(* agree, nor for a missing build-id when the checksum agrees.             *)
(***************************************************************************)
Refused ==
  /\ stage = "done" /\ input.libc.opens /\ input.libc.arch
  /\ input.debug # None /\ table = "libc"

DebugFileJudgedRight ==
  /\ input.debug # None /\ ~input.debug.own =>
       /\ \A s \in Slots : slot[s] = None
       /\ \A o \in Offsets : origin[o] = "builtin"
  /\ Refused /\ input.debug.opens /\ input.debug.own =>
       \/ ~input.debug.sameAbi
       \/ ~(Shown(input.libc) /\ Shown(input.debug)) /\ ~LinkMatches

(***************************************************************************)
(* Each gap in what was detected is in the document: no TLS data, an       *)
(* assumed version (and then safe-linking on), an identity by content (of  *)
(* a file whose build-id is in a section only, too), a debug file whose    *)
(* layout was not used.                                                    *)
(***************************************************************************)
GapsAreTold ==
  Detected =>
    /\ ~input.libc.tpOff => Told("missing_relocation")
    /\ input.libc.version = "unknown" => Told("unknown_glibc_version") /\ safeLinking
    /\ input.libc.idIn \in {"none", "section"} => Told("missing_build_id")
    /\ origin["layout_source"] = "builtin" /\ (input.debug # None \/ input.dwarf = "failed")
         => Told("dwarf_layout_fallback")

(***************************************************************************)
(* Nothing that makes the detected layout less than certain is left out of *)
(* the document: neither contradicting symbols nor a gap.                  *)
(***************************************************************************)
DoubtsAreTold == ConflictsAreTold /\ GapsAreTold

(***************************************************************************)
(* Exit code 0 means a whole document about a libc that report can use: a  *)
(* known architecture, main_arena and mp_ defined. A whole document and    *)
(* exit code 1 means that it cannot.                                       *)
(***************************************************************************)
Analysable ==
  /\ input.libc.arch
  /\ \A s \in {"main_arena", "mp_"} : Definitions(s) # {}

ExitCodeTells ==
  /\ code = 0 => Delivered /\ Analysable
  /\ code = 1 /\ Delivered => ~Analysable
=============================================================================
