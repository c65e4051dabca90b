------------------------------- MODULE Memory -------------------------------
(***************************************************************************)
(* The process image as the heap walkers see it through the MemReader      *)
(* trait: a partial map from addresses to machine words, and the u64       *)
(* arithmetic the walkers do on untrusted values.                          *)
(*                                                                         *)
(* A read outside the map fails (AddressNotMapped).  Addresses that no     *)
(* walker can reach (unaligned ones, for instance) are simply not in the   *)
(* map.  AddrLimit stands for 2^64: every value is below it, wrapping_add  *)
(* is addition modulo AddrLimit and checked_add fails from AddrLimit on.   *)
(***************************************************************************)
EXTENDS Naturals

CONSTANT AddrLimit

ASSUME AddrLimitAssumption == AddrLimit \in Nat \ {0}

Addr == 0 .. AddrLimit - 1

IsMemory(mem) ==
  /\ DOMAIN mem \subseteq Addr
  /\ \A a \in DOMAIN mem : mem[a] \in Addr

Readable(mem, a) == a \in DOMAIN mem

WrappingAdd(a, b) == (a + b) % AddrLimit

AddOverflows(a, b) == a + b >= AddrLimit

SaturatingSub(a, b) == IF a >= b THEN a - b ELSE 0

(***************************************************************************)
(* The header word of a malloc chunk: three flags below an 8-byte mask.    *)
(***************************************************************************)
PREV_INUSE == 1

PrevInuse(raw) == raw % 2 = 1

NonMainArena(raw) == (raw \div 4) % 2 = 1

ChunkSize(raw) == raw - (raw % 8)
=============================================================================
