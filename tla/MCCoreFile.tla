----------------------------- MODULE MCCoreFile -----------------------------
(***************************************************************************)
(* Four families of core files; each varies one part and fixes the rest.   *)
(*                                                                         *)
(* Four notes with names, types and descriptors that need every padding,   *)
(* distributed over the two segments in every way, the second header and   *)
(* the file cut after any cell.                                            *)
(*                                                                         *)
(* Dumps of three threads. Each group of notes has a prstatus, another     *)
(* note, and before or after them a TLS note that may be missing, cut      *)
(* short or hold a null pointer; a prstatus may be cut short or null too.  *)
(* A doubled TLS note is left out: the kernel writes one per thread.       *)
(*                                                                         *)
(* NT_FILE notes of up to four mappings, cut after any byte, whose count   *)
(* may be wrong in both directions and exceed the limit of three.          *)
(*                                                                         *)
(* Cores of four or seven bytes with up to two headers over an address     *)
(* space of eight, all of them, and every query of one, two or all bytes.  *)
(* Three headers only repeat what two show: the scans carry nothing from   *)
(* one header to the next.                                                 *)
(***************************************************************************)
EXTENDS CoreFile

Note(kind, id, whole, tp) == [kind |-> kind, owner |-> id, whole |-> whole, tp |-> tp]

Status(id, s) == Note("prstatus", id, s # "cut", IF s = "null" THEN 0 ELSE id)

Tls(id, s) ==
  IF s = "missing" THEN <<>>
  ELSE <<Note("tls", id, s # "cut", IF s = "null" THEN 0 ELSE id)>>

Group(order, id, p, t) ==
  IF order = "prstatus_first"
  THEN <<Status(id, p), Note("other", id, TRUE, 0)>> \o Tls(id, t)
  ELSE Tls(id, t) \o <<Status(id, p), Note("other", id, FALSE, 0)>>

TlsStates == {"whole", "missing", "cut", "null"}

SomeDumps ==
  {[arch |-> a, order |-> o,
    notes |-> Group(o, 1, p, t) \o Group(o, 2, q, u) \o Group(o, 3, "whole", v)] :
     a \in {"x86_64", "aarch64"}, o \in {"prstatus_first", "tls_first"},
     p \in {"whole", "null"}, q \in {"whole", "null", "cut"},
     t \in TlsStates, u \in TlsStates, v \in TlsStates}

\* A mapping takes six bytes of the table and two for its path.
MCNotes == {t \in [n : 0 .. 4, count : 0 .. 5, len : 0 .. 36] : t.len <= 4 + 8 * t.n}

MCAddr == {0, 2, 6, 7}

MCHeaders ==
  [load : {TRUE}, vaddr : {0, 2, 6}, filesz : {0, 1, 2, 4}, offset : {0, 2, 7}]
    \cup [load : {FALSE}, vaddr : {2, 6}, filesz : {4}, offset : {0}]

MCCores ==
  [headers : {<<>>} \cup {<<h>> : h \in MCHeaders}
               \cup {<<h, g>> : h \in MCHeaders, g \in MCHeaders},
   size : {4, 7}]

MCQueries ==
  [op : {"bounds"}, addr : MCAddr, len : {1}]
    \cup [op : {"read"}, addr : MCAddr, len : {1, 2, 7}]

Stored(d, split, size, keep) ==
  [dump |-> d, split |-> split, size |-> size, keep |-> keep]

\* Nine cells a record.
WholeStored(d) == Stored(d, 4, 9 * (Len(d.notes) - 4), 9 * Len(d.notes))

CutDump ==
  [arch |-> "aarch64", order |-> "prstatus_first",
   notes |-> <<Status(1, "cut"), Note("other", 1, FALSE, 0), Note("other", 1, TRUE, 0),
               Tls(1, "whole")[1]>>]

CutStored ==
  {s \in {Stored(CutDump, split, size, keep) : split \in 0 .. 4, size \in 0 .. 36, keep \in 0 .. 36} :
     s.size <= 9 * (4 - s.split)}

NoDump == [arch |-> "x86_64", order |-> "prstatus_first", notes |-> <<>>]
OneStored == Stored(NoDump, 0, 0, 0)
OneNote == [n |-> 0, count |-> 0, len |-> 0]
OneCore == [headers |-> <<>>, size |-> 4]
OneQuery == [op |-> "read", addr |-> 0, len |-> 1]

MCDumps == SomeDumps \cup {NoDump, CutDump}

MCStored == CutStored \cup {WholeStored(d) : d \in SomeDumps}

MCFiles ==
  [stored : MCStored, note : {OneNote}, core : {OneCore}, query : {OneQuery}]
    \cup [stored : {OneStored}, note : MCNotes, core : {OneCore}, query : {OneQuery}]
    \cup [stored : {OneStored}, note : {OneNote}, core : MCCores, query : MCQueries]
=============================================================================
