------------------------------ MODULE MCLocate ------------------------------
(***************************************************************************)
(* Two libc paths and a look-alike, two mappings at 10 and 20 in either    *)
(* order or a later part of one file, every disk and every option, and     *)
(* five versions of 36 cells on a page of 27.  1 has its build-id in the   *)
(* only PT_NOTE; 2 has the same one in the second; 3 has another one in    *)
(* the second, behind a PT_NOTE outside the page; 4 and 5 have none.       *)
(* Of the mapping at 10 the core has nothing, a part that ends before the  *)
(* second note, or the page.                                               *)
(***************************************************************************)
EXTENDS Locate

MCPath == {"libc.so.6", "libc-2.so", "libcap.so"}

MCLibcPaths == {"libc.so.6", "libc-2.so"}

MCVersion == 1 .. 5

Gnu(type, desc) == [name |-> <<GNU, NUL>>, type |-> type, desc |-> desc]

Other(desc) == Gnu(1, <<desc>>)

IdNote(id) == Gnu(NT_GNU_BUILD_ID, <<id, id>>)

H(note, start) == [note |-> note, start |-> start, size |-> 9]

\* Nine cells of ELF header and table, then three records of nine cells.
File(v, headers, records) ==
  [cells    |-> <<77, 77, 77, 77, 77, v, v, v, v>> \o Laid(records),
   table    |-> 1,
   headers  |-> headers,
   written  |-> [i \in DOMAIN headers |->
                   IF headers[i].note THEN <<records[headers[i].start \div 9]>> ELSE <<>>]]

MCLibrary ==
  << File(1, <<H(FALSE, 0), H(TRUE, 9)>>, <<IdNote(51), Other(1), Other(1)>>),
     File(2, <<H(TRUE, 9), H(TRUE, 18)>>, <<Other(1), IdNote(51), Other(1)>>),
     File(3, <<H(TRUE, 27), H(TRUE, 9)>>, <<IdNote(52), Other(1), Other(1)>>),
     File(4, <<H(TRUE, 9)>>, <<Other(4), Other(1), Other(1)>>),
     File(5, <<H(TRUE, 9)>>, <<Other(5), IdNote(51), Other(1)>>) >>

Mapping(start, offset, path, deleted) ==
  [start |-> start, offset |-> offset, path |-> path, deleted |-> deleted]

MCMapped ==
  {<<Mapping(a, 0, p, TRUE), Mapping(30 - a, o, q, FALSE)>> :
     a \in {10, 20}, p \in MCPath, q \in {"libc.so.6", "libcap.so"}, o \in {0, 1}}

MCDisks(W) ==
  {[p \in MCPath |-> IF p = "libc.so.6" THEN v ELSE IF p = "libc-2.so" THEN w ELSE NoPath] :
     v \in MCVersion \cup {NoPath}, w \in W}

Given(libc, disks) ==
  [mapped : MCMapped,
   version : [{10, 20} -> MCVersion],
   dumped : {[a \in {10, 20} |-> IF a = 10 THEN d ELSE 36] : d \in {0, 20, 36}},
   disk : disks,
   libc : {libc},
   force : {NoPath, "libc.so.6"}]

MCSetups ==
  Given(NoPath, MCDisks({1}))
    \cup Given("libc-2.so", {d \in MCDisks({1, 4}) : d["libc.so.6"] = NoPath})
=============================================================================
