----------------------------- MODULE CoreImage ------------------------------
(***************************************************************************)
(* Elf::segment_bounds and Elf::read_bytes: the two scans of the program   *)
(* headers that turn a virtual address of the dumped process into a range  *)
(* or into bytes of the core file.                                         *)
(*                                                                         *)
(* Headers and addresses are untrusted: vaddr, filesz and offset are any   *)
(* numbers of the address width, AddrLimit being 2 ^ 64 in the program.    *)
(***************************************************************************)
EXTENDS Memory, Sequences

CONSTANTS Cores,  \* the core files: their headers and their size
          Queries \* the questions asked: an operation, an address, a length

Headers == [load : BOOLEAN, vaddr : Addr, filesz : Addr, offset : Addr]

IsCore(c) == c.headers \in Seq(Headers) /\ c.size \in Addr

IsQuery(q) ==
  /\ q.op \in {"bounds", "read"}
  /\ {q.addr, q.len} \subseteq Addr
  /\ q.len > 0

QueriesOK ==
  /\ \A c \in Cores : IsCore(c)
  /\ \A q \in Queries : IsQuery(q)

VARIABLES core,   \* the core file
          query,  \* the question
          i,      \* the header looked at
          answer  \* "pending", "none" or "some" range of addresses or offsets

vars == <<core, query, i, answer>>

Pending == [is |-> "pending", first |-> 0, past |-> 0]

None == [is |-> "none", first |-> 0, past |-> 0]

Some(first, past) == [is |-> "some", first |-> first, past |-> past]

TypeOK ==
  /\ IsCore(core)
  /\ IsQuery(query)
  /\ i \in 1 .. Len(core.headers) + 1
  /\ answer \in [is : {"pending", "none", "some"}, first : Addr, past : Addr]

Init ==
  /\ core \in Cores
  /\ query \in Queries
  /\ i = 1
  /\ answer = Pending

Header == core.headers[i]

At(op) ==
  /\ answer = Pending
  /\ i <= Len(core.headers)
  /\ query.op = op

Continue ==
  /\ i' = i + 1
  /\ UNCHANGED <<core, query, answer>>

Answer(a) ==
  /\ answer' = a
  /\ UNCHANGED <<core, query, i>>

NotLoaded ==
  /\ At(query.op)
  /\ ~ Header.load
  /\ Continue

(* The `?` on checked_add: a header that ends at or past the end of the    *)
(* address space makes the whole scan answer None.                         *)
BoundsOverflow ==
  /\ At("bounds")
  /\ Header.load
  /\ AddOverflows(Header.vaddr, Header.filesz)
  /\ Answer(None)

(* Wrong variant: the end of the segment is taken as its last address.     *)
Contains_EndToo(h, a) == a \in h.vaddr .. h.vaddr + h.filesz

Contains(h, a) == a \in h.vaddr .. h.vaddr + h.filesz - 1

BoundsScan ==
  /\ At("bounds")
  /\ Header.load
  /\ ~ AddOverflows(Header.vaddr, Header.filesz)
  /\ IF Contains(Header, query.addr)
     THEN Answer(Some(Header.vaddr, Header.vaddr + Header.filesz))
     ELSE Continue

Within(h) == query.addr - h.vaddr

FileOffset(h) == h.offset + Within(h)

(* Wrong variant: only the first byte has to be in the segment.            *)
Backs_TailToo(h) ==
  /\ query.addr >= h.vaddr
  /\ Within(h) < h.filesz
  /\ ~ AddOverflows(h.offset, Within(h))
  /\ FileOffset(h) + query.len <= core.size

(* Every condition of read_bytes on one header, each failing one continues *)
(* with the next header.                                                   *)
Backs(h) ==
  /\ query.addr >= h.vaddr
  /\ ~ AddOverflows(Within(h), query.len)
  /\ Within(h) + query.len <= h.filesz
  /\ ~ AddOverflows(h.offset, Within(h))
  /\ ~ AddOverflows(FileOffset(h), query.len)
  /\ FileOffset(h) + query.len <= core.size

ReadScan ==
  /\ At("read")
  /\ Header.load
  /\ IF Backs(Header)
     THEN Answer(Some(FileOffset(Header), FileOffset(Header) + query.len))
     ELSE Continue

NotFound ==
  /\ answer = Pending
  /\ i > Len(core.headers)
  /\ Answer(None)

Next ==
  \/ NotLoaded
  \/ BoundsOverflow
  \/ BoundsScan
  \/ ReadScan
  \/ NotFound

Spec == Init /\ [][Next]_vars

-----------------------------------------------------------------------------
(* Properties.                                                             *)

Loaded == {k \in DOMAIN core.headers : core.headers[k].load}

(* Where the dump put the byte at address a according to header h, by the  *)
(* definition of a program header and nothing else.                        *)
Holds(h, a, o) ==
  /\ a - h.vaddr \in 0 .. h.filesz - 1
  /\ o = h.offset + (a - h.vaddr)

(* Bytes that are returned are bytes of the file, and each one is where a  *)
(* single loaded segment says the address is: no BSS tail, no neighbouring *)
(* segment, no wrap of address or offset (image.rs:143-147). And a read    *)
(* fails only when no loaded segment, of however many damaged ones, has    *)
(* all the bytes in the file: an unusable header never hides a good one.   *)
ReadIsRight ==
  query.op = "read" =>
    /\ answer.is = "some" =>
         /\ answer.past <= core.size
         /\ answer.past = answer.first + query.len
         /\ \E k \in Loaded : \A d \in 0 .. query.len - 1 :
              Holds(core.headers[k], query.addr + d, answer.first + d)
    /\ answer = None =>
         \A k \in Loaded : \E d \in 0 .. query.len - 1 :
           \A o \in 0 .. core.size - 1 :
             ~ Holds(core.headers[k], query.addr + d, o)

(* The range that is returned is one loaded segment's, and it holds the    *)
(* address: what segment_start feeds to the main heap's start.  An address *)
(* is said to be in no segment only if that is so, or if a header before   *)
(* the one that has it runs off the address space.                         *)
BoundsAreRight ==
  query.op = "bounds" =>
    /\ answer.is = "some" =>
         /\ query.addr \in answer.first .. answer.past - 1
         /\ \E k \in Loaded :
              \A a \in answer.first .. answer.past - 1 :
                a - core.headers[k].vaddr \in 0 .. core.headers[k].filesz - 1
    /\ answer = None =>
         \A k \in Loaded :
           Contains(core.headers[k], query.addr) =>
             \E j \in Loaded :
               /\ j <= k
               /\ AddOverflows(core.headers[j].vaddr, core.headers[j].filesz)
=============================================================================
