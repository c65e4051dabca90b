---------------------------- MODULE MCArenaRing -----------------------------
(***************************************************************************)
(* main_arena at 8 and up to three more malloc_states at 16, 24 and 62,    *)
(* the last with its fields wrapped around the end of an address space of  *)
(* 64; every next pointer is unreadable, null, any of the arenas, or       *)
(* dangling (40), and main_arena's top may be unreadable too.              *)
(***************************************************************************)
EXTENDS ArenaRing

MCMainAddr == 8

NextFields == {WrappingAdd(a, 4) : a \in {8, 16, 24, 62}}

Targets == {0, 8, 16, 24, 40, 62}

MCMemories ==
  LET rings == UNION {[S -> Targets] : S \in SUBSET NextFields}
      WithTop(m) == [a \in DOMAIN m \cup {10} |-> IF a = 10 THEN 1 ELSE m[a]]
  IN  {WithTop(m) : m \in rings} \cup [NextFields -> {0, 16}]
=============================================================================
