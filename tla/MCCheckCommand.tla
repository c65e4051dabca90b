--------------------------- MODULE MCCheckCommand ---------------------------
(***************************************************************************)
(* Four families of inputs: symbol tables (two entries in the libc, two   *)
(* in the debug file, with imports, duplicates and conflicts), the proofs  *)
(* that a debug file belongs to the libc (build-ids in either place, in    *)
(* both, in none or shadowed, and checksums), the gaps of one libc, and    *)
(* files that cannot be used.                                              *)
(***************************************************************************)
EXTENDS CheckCommand

CONSTANTS V1, V2

MCValues == {V1, V2}

Sy(slot_, value, defined) == [slot |-> slot_, value |-> value, defined |-> defined]

MainArena == Sy("main_arena", V1, TRUE)
Mp == Sy("mp_", V1, TRUE)

Symbols ==
  {MainArena, Sy("main_arena", V2, TRUE), Sy("main_arena", V2, FALSE), Mp,
   Sy("tcache", V1, TRUE), Sy("narenas_limit", V2, TRUE)}

Gnu(type, desc) == [name |-> <<GNU, NUL>>, type |-> type, desc |-> desc]

IdNote(id) == Gnu(NT_GNU_BUILD_ID, id)

\* A segment of two notes, and two sections, one of which ends behind the file.
ImageOf(id, idIn) ==
  LET other   == Gnu(1, <<id, id>>)
      behind  == <<other, CASE idIn \in {"segment", "both"} -> IdNote(<<id>>)
                            [] idIn = "shadowed" -> IdNote(<<>>)
                            [] OTHER -> other>>
      shown   == << IF idIn \in {"section", "both", "shadowed"} THEN IdNote(<<id>>) ELSE other >>
      segment == Laid(behind)
      section == Laid(shown)
      at(start, size) == [note |-> TRUE, start |-> start, size |-> size]
  IN  [cells    |-> segment \o section,
       table    |-> 0,
       headers  |-> << at(0, Len(segment)) >>,
       written  |-> << behind >>,
       sectionsWritten |-> << <<>>, shown >>,
       sections |-> << at(Len(segment), Len(section) + 1), at(Len(segment), Len(section)) >>]

Libc(syms, id, idIn, link) ==
  [syms |-> syms, id |-> id, idIn |-> idIn, image |-> ImageOf(id, idIn), crc |-> V2, opens |-> TRUE, arch |-> TRUE, tpOff |-> TRUE,
   version |-> "safe_linking", link |-> link, linkCrc |-> V1]

Debug(syms, id, idIn, crc, abi, own) ==
  [syms |-> syms, id |-> id, idIn |-> idIn, image |-> ImageOf(id, idIn), crc |-> crc, opens |-> TRUE, sameAbi |-> abi, own |-> own]

I(libc, debug, dwarf, optional) ==
  [libc |-> libc, debug |-> debug, dwarf |-> dwarf, optional |-> optional]

Tables ==
  {I(Libc(a, V1, "both", "absent"), Debug(b, V1, "section", V1, TRUE, TRUE), "ok", {}) :
     a \in BoundedSeq(Symbols, 2), b \in BoundedSeq(Symbols, 2)}

Places == {"none", "segment", "section", "both", "shadowed"}

Proofs ==
  {i \in {I(Libc(<<>>, V1, x, l), Debug(<<MainArena, Mp>>, id, y, c, abi, own), "ok", {}) :
            id \in MCValues, x \in Places, y \in Places,
            l \in {"absent", "malformed", "crc"}, c \in MCValues,
            abi \in BOOLEAN, own \in BOOLEAN} : Evidence(i)}

Gaps ==
  {I([Libc(<<MainArena, Mp>> \o t, V1, x, "crc") EXCEPT !.tpOff = tp, !.version = v, !.arch = a],
     d, w, o) :
     t \in {<<>>, <<Sy("tcache", V2, TRUE)>>}, x \in {"segment", "section", "none"},
     tp \in BOOLEAN, v \in {"old", "safe_linking", "unknown"}, a \in BOOLEAN,
     d \in {None, Debug(<<>>, V1, "segment", V1, TRUE, TRUE)},
     w \in {"ok", "unavailable", "failed"}, o \in SUBSET OptionalOffsets}

\* Files that cannot be read or are no ELF files.
Unusable ==
  {I([Libc(<<MainArena, Mp>>, V1, "segment", "crc") EXCEPT !.opens = l],
     [Debug(<<>>, V1, "segment", V1, TRUE, TRUE) EXCEPT !.opens = d], "ok", {}) :
     l \in BOOLEAN, d \in BOOLEAN}

MCInputs == Tables \cup Proofs \cup Gaps \cup Unusable
=============================================================================
