----------------------------- MODULE ArenaRing ------------------------------
(***************************************************************************)
(* heap::arena::list: the arenas of the process, found by following        *)
(* malloc_state.next from main_arena until the ring closes.                *)
(*                                                                         *)
(* The memory behind the ring is untrusted input, chosen in Init.          *)
(* main_arena itself is at libc_addr + main_arena.value, wrapped; a        *)
(* malloc_state is an address and its fields sit at fixed offsets, added   *)
(* with wrapping_add.                                                      *)
(***************************************************************************)
EXTENDS Memory, Sequences, Functions

CONSTANTS MainAddr,   \* the address of main_arena
          TopOffset,  \* DetectedLayout.malloc_state_top_offset
          NextOffset, \* DetectedLayout.malloc_state_next_offset
          MaxArenas,  \* MAX_ARENAS
          Memories    \* the memories the walk may meet

ASSUME ArenaRingAssumption ==
  /\ MainAddr \in Addr \ {0}
  /\ TopOffset \in Addr
  /\ NextOffset \in Addr
  /\ MaxArenas \in Nat \ {0}
  /\ \A m \in Memories : IsMemory(m)

VARIABLES mem,      \* the core's memory
          pc,       \* "probe", "walk", "done" or "failed" (a hard error)
          arenas,   \* the malloc_state addresses found; arena i is arenas[i + 1]
          problems  \* the kinds of the Problems pushed

vars == <<mem, pc, arenas, problems>>

(* Types; no arena is null, and the cap holds.                             *)
TypeOK ==
  /\ IsMemory(mem)
  /\ pc \in {"probe", "walk", "done", "failed"}
  /\ arenas \in Seq(Addr \ {0})
  /\ Len(arenas) <= MaxArenas
  /\ problems \in Seq({"HeapWalkTruncated"})

Init ==
  /\ mem \in Memories
  /\ pc = "probe"
  /\ arenas = <<>>
  /\ problems = <<>>

TopField(a) == WrappingAdd(a, TopOffset)

NextField(a) == WrappingAdd(a, NextOffset)

(* current and visited of the code: the last arena found, and all of them. *)
Current == arenas[Len(arenas)]

Visited == Range(arenas)

ProbeFails ==
  /\ pc = "probe"
  /\ ~ Readable(mem, TopField(MainAddr))
  /\ pc' = "failed"
  /\ UNCHANGED <<mem, arenas, problems>>

Probe ==
  /\ pc = "probe"
  /\ Readable(mem, TopField(MainAddr))
  /\ pc' = "walk"
  /\ arenas' = <<MainAddr>>
  /\ UNCHANGED <<mem, problems>>

Truncate ==
  /\ pc' = "done"
  /\ problems' = Append(problems, "HeapWalkTruncated")
  /\ UNCHANGED <<mem, arenas>>

(* index, the number of the next arena, is Len(arenas).                    *)
CapReached ==
  /\ pc = "walk"
  /\ Len(arenas) >= MaxArenas
  /\ Truncate

NextUnreadable ==
  /\ pc = "walk"
  /\ Len(arenas) < MaxArenas
  /\ ~ Readable(mem, NextField(Current))
  /\ Truncate

(* The link out of Current, once the cap and the read are behind us.       *)
LinkRead ==
  /\ pc = "walk"
  /\ Len(arenas) < MaxArenas
  /\ Readable(mem, NextField(Current))

NextArena == mem[NextField(Current)]

(* Wrong variant: any arena seen before closes the ring.                   *)
ClosesRing_AnyVisited == NextArena \in Visited \cup {0}

(* Only a link back to main_arena, or a null one, is a clean end.          *)
ClosesRing == NextArena \in {MainAddr, 0}

RingCloses ==
  /\ LinkRead
  /\ ClosesRing
  /\ pc' = "done"
  /\ UNCHANGED <<mem, arenas, problems>>

MidChainCycle ==
  /\ LinkRead
  /\ ~ ClosesRing
  /\ NextArena \in Visited
  /\ Truncate

CandidateUnreadable ==
  /\ LinkRead
  /\ ~ ClosesRing
  /\ NextArena \notin Visited
  /\ ~ Readable(mem, NextField(NextArena))
  /\ Truncate

(* Wrong variant: the candidate is not probed before it is listed.         *)
AddArena_Unprobed ==
  /\ LinkRead
  /\ ~ ClosesRing
  /\ NextArena \notin Visited
  /\ arenas' = Append(arenas, NextArena)
  /\ UNCHANGED <<mem, pc, problems>>

AddArena ==
  /\ LinkRead
  /\ ~ ClosesRing
  /\ NextArena \notin Visited
  /\ Readable(mem, NextField(NextArena))
  /\ arenas' = Append(arenas, NextArena)
  /\ UNCHANGED <<mem, pc, problems>>

Next ==
  \/ ProbeFails
  \/ Probe
  \/ CapReached
  \/ NextUnreadable
  \/ RingCloses
  \/ MidChainCycle
  \/ CandidateUnreadable
  \/ AddArena

Spec == Init /\ [][Next]_vars

-----------------------------------------------------------------------------
(* Properties.                                                             *)

(* The ring as memory holds it: the arenas whose link can be read, with    *)
(* the two clean ends folded into 0.                                       *)
RingLink ==
  [a \in {b \in Addr \ {0} : Readable(mem, NextField(b))} |->
     IF mem[NextField(a)] = MainAddr THEN 0 ELSE mem[NextField(a)]]

Successor == IF Current \in DOMAIN RingLink THEN RingLink[Current] ELSE Current

(* Listing the arenas is a pointer chase along that ring from main_arena:  *)
(* no arena (and so no heap) is listed twice, a clean end means the whole  *)
(* ring, and a broken, cyclic or overlong ring is reported.                *)
Chase == INSTANCE PointerChase WITH
  Node    <- Addr \ {0},
  End     <- 0,
  Cap     <- MaxArenas,
  link    <- RingLink,
  root    <- MainAddr,
  at      <- IF arenas = <<>> THEN MainAddr ELSE Successor,
  path    <- arenas,
  verdict <- IF \/ problems # <<>>
                \/ arenas # <<>> /\ Current \notin DOMAIN RingLink
             THEN "broken"
             ELSE IF pc = "done" THEN "clean" ELSE "running"

IsPointerChase == Chase!Spec

(* What the caller relies on.  A hard error leaves nothing behind; without *)
(* it the main arena comes first and only there (is_main is index = 0),    *)
(* every secondary arena has a readable malloc_state, and a list without a *)
(* problem is closed: each arena linked from a listed one is listed too.   *)
ListIsUsable ==
  /\ pc = "failed" => arenas = <<>> /\ problems = <<>>
  /\ pc = "done" =>
       /\ arenas[1] = MainAddr
       /\ \A i \in DOMAIN arenas : i > 1 =>
            arenas[i] # MainAddr /\ Readable(mem, NextField(arenas[i]))
       /\ problems = <<>> =>
            \A i \in DOMAIN arenas :
              mem[NextField(arenas[i])] \in
                IF i = Len(arenas) THEN {0, MainAddr} ELSE {arenas[i + 1]}
=============================================================================
