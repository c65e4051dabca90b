-------------------------- MODULE ArenaRingProofs --------------------------
(***************************************************************************)
(* arena::list implements PointerChase and hands its caller a usable list, *)
(* for every memory, every pair of field offsets and every cap.            *)
(*                                                                         *)
(* Linked is the strengthening both results need: each listed arena was    *)
(* read from the link of the one before it, and every arena but the first  *)
(* was probed before it was listed.                                        *)
(***************************************************************************)
EXTENDS ArenaRing, TLAPS

ReadableField(a) == Readable(mem, NextField(a))

Linked ==
  /\ arenas # <<>> => arenas[1] = MainAddr
  /\ \A i \in DOMAIN arenas : i > 1 =>
       arenas[i] # MainAddr /\ ReadableField(arenas[i])
  /\ \A i \in DOMAIN arenas : i < Len(arenas) =>
       ReadableField(arenas[i]) /\ mem[NextField(arenas[i])] = arenas[i + 1]

Phases ==
  /\ pc \in {"probe", "failed"} => arenas = <<>> /\ problems = <<>>
  /\ pc = "walk" => arenas # <<>> /\ problems = <<>>
  /\ pc = "done" => arenas # <<>>
  /\ pc = "done" /\ problems = <<>> =>
       ReadableField(Current) /\ mem[NextField(Current)] \in {0, MainAddr}

IInv == TypeOK /\ Linked /\ Phases

(* What is read from memory is an address.                                 *)
LEMMA ReadTyped ==
  ASSUME IsMemory(mem), NEW a, Readable(mem, a)
  PROVE  mem[a] \in Addr
  BY DEF IsMemory, Readable

LEMMA CurrentTyped ==
  ASSUME TypeOK, arenas # <<>>
  PROVE  /\ Len(arenas) \in Nat \ {0}
         /\ DOMAIN arenas = 1 .. Len(arenas)
         /\ Current = arenas[Len(arenas)]
         /\ Current \in Addr \ {0}
  BY DEF TypeOK, Current

LEMMA InitIInv == Init => IInv
  BY ArenaRingAssumption DEF Init, IInv, TypeOK, Linked, Phases

(* An arena listed behind Current keeps the list linked.                   *)
LEMMA AppendLinked ==
  ASSUME IInv, pc = "walk", AddArena
  PROVE  TypeOK' /\ Linked'
  <1> DEFINE n == Len(arenas)
  <1>1. n \in Nat \ {0} /\ DOMAIN arenas = 1 .. n /\ Current = arenas[n]
    BY CurrentTyped DEF IInv, Phases
  <1>2. /\ NextArena \in Addr \ {0}
        /\ NextArena # MainAddr
        /\ n < MaxArenas
        /\ ReadableField(Current) /\ mem[NextField(Current)] = NextArena
        /\ ReadableField(NextArena)
    BY ReadTyped
       DEF AddArena, LinkRead, ClosesRing, NextArena, IInv, TypeOK, ReadableField
  <1>3. /\ arenas' = Append(arenas, NextArena)
        /\ mem' = mem /\ pc' = pc /\ problems' = problems
    BY DEF AddArena
  <1>4. /\ arenas \in Seq(Addr \ {0})
        /\ arenas' \in Seq(Addr \ {0})
        /\ Len(arenas') = n + 1
        /\ DOMAIN arenas' = 1 .. n + 1
        /\ arenas'[n + 1] = NextArena
        /\ \A i \in 1 .. n : arenas'[i] = arenas[i]
    BY <1>1, <1>2, <1>3 DEF IInv, TypeOK
  <1> HIDE DEF n
  <1>5. TypeOK'
    BY <1>1, <1>2, <1>3, <1>4, ArenaRingAssumption DEF IInv, TypeOK
  <1>6. arenas'[1] = MainAddr
    BY <1>1, <1>4 DEF IInv, Linked
  <1>7. ASSUME NEW i \in DOMAIN arenas', i > 1
        PROVE  arenas'[i] # MainAddr /\ ReadableField(arenas'[i])
    BY <1>1, <1>2, <1>4, <1>7 DEF IInv, Linked
  <1>8. ASSUME NEW i \in DOMAIN arenas', i < Len(arenas')
        PROVE  /\ ReadableField(arenas'[i])
               /\ mem[NextField(arenas'[i])] = arenas'[i + 1]
    <2>1. CASE i < n
      <3>1. i \in 1 .. n /\ i + 1 \in 1 .. n
        BY <1>1, <1>4, <2>1
      <3> QED
        BY <1>1, <1>4, <2>1, <3>1 DEF IInv, Linked, n
    <2>2. CASE i = n
      BY <1>1, <1>2, <1>4, <2>2
    <2> QED
      BY <1>1, <1>4, <1>8, <2>1, <2>2
  <1> QED
    BY <1>3, <1>5, <1>6, <1>7, <1>8 DEF Linked, ReadableField

LEMMA StepIInv == IInv /\ [Next]_vars => IInv'
  <1> SUFFICES ASSUME IInv, [Next]_vars PROVE IInv'
    OBVIOUS
  <1> USE DEF IInv
  <1>1. CASE ProbeFails
    BY <1>1 DEF ProbeFails, TypeOK, Linked, Phases, ReadableField
  <1>2. CASE Probe
    BY <1>2, ArenaRingAssumption DEF Probe, TypeOK, Linked, Phases, ReadableField
  <1>3. ASSUME Truncate, pc = "walk" PROVE IInv'
    <2>1. problems' \in Seq({"HeapWalkTruncated"}) /\ problems' # <<>>
      BY <1>3 DEF Truncate, TypeOK
    <2> QED
      BY <1>3, <2>1 DEF Truncate, TypeOK, Linked, Phases, ReadableField
  <1>4. CASE RingCloses
    BY <1>4 DEF RingCloses, LinkRead, ClosesRing, NextArena, TypeOK, Linked,
                Phases, ReadableField, Current
  <1>5. CASE AddArena
    <2>1. pc = "walk"
      BY <1>5 DEF AddArena, LinkRead
    <2>2. TypeOK' /\ Linked'
      BY <1>5, <2>1, AppendLinked
    <2>3. arenas' # <<>>
      BY <1>5 DEF AddArena, TypeOK
    <2> QED
      BY <1>5, <2>1, <2>2, <2>3 DEF AddArena, Phases
  <1>6. CASE UNCHANGED vars
    BY <1>6 DEF vars, TypeOK, Linked, Phases, ReadableField, Current
  <1> QED
    BY <1>1, <1>2, <1>3, <1>4, <1>5, <1>6
       DEF Next, CapReached, NextUnreadable, MidChainCycle, CandidateUnreadable,
           LinkRead

LEMMA InductiveInvariant == Spec => []IInv
  BY InitIInv, StepIInv, PTL DEF Spec

LEMMA UsableFromIInv == IInv => ListIsUsable
  <1> SUFFICES ASSUME IInv PROVE ListIsUsable
    OBVIOUS
  <1>1. ASSUME pc = "done"
        PROVE  /\ arenas[1] = MainAddr
               /\ \A i \in DOMAIN arenas : i > 1 =>
                    arenas[i] # MainAddr /\ Readable(mem, NextField(arenas[i]))
    BY <1>1 DEF IInv, Linked, Phases, ReadableField
  <1>2. ASSUME pc = "done", problems = <<>>, NEW i \in DOMAIN arenas
        PROVE  mem[NextField(arenas[i])] \in
                 IF i = Len(arenas) THEN {0, MainAddr} ELSE {arenas[i + 1]}
    <2>1. Len(arenas) \in Nat /\ DOMAIN arenas = 1 .. Len(arenas)
      BY DEF IInv, TypeOK
    <2>2. CASE i = Len(arenas)
      BY <1>2, <2>2 DEF IInv, Phases, Current
    <2>3. CASE i # Len(arenas)
      BY <1>2, <2>1, <2>3 DEF IInv, Linked
    <2> QED
      BY <2>2, <2>3
  <1> QED
    BY <1>1, <1>2 DEF ListIsUsable, IInv, Phases

(* Types: no arena is null and the cap on their number holds.              *)
THEOREM TypeCorrect == Spec => []TypeOK
  BY InductiveInvariant, PTL DEF IInv

(* The caller gets main_arena first and only there, every secondary arena  *)
(* with a readable malloc_state, and, without a problem, a closed ring.    *)
THEOREM ListAlwaysUsable == Spec => []ListIsUsable
  BY InductiveInvariant, UsableFromIInv, PTL

-----------------------------------------------------------------------------
(* The refinement.  A step of the walk is a step of the chase, but for a   *)
(* probe that fails and for what comes after an arena without a readable   *)
(* link, which the chase has given up already.                             *)

at == IF arenas = <<>> THEN MainAddr ELSE Successor

verdict ==
  IF \/ problems # <<>>
     \/ arenas # <<>> /\ Current \notin DOMAIN RingLink
  THEN "broken"
  ELSE IF pc = "done" THEN "clean" ELSE "running"

LEMMA RingLinkTyped ==
  ASSUME IsMemory(mem)
  PROVE  /\ DOMAIN RingLink \subseteq Addr \ {0}
         /\ \A a \in DOMAIN RingLink : RingLink[a] \in Addr
         /\ \A a \in Addr \ {0} : ReadableField(a) <=> a \in DOMAIN RingLink
         /\ \A a \in DOMAIN RingLink :
              RingLink[a] = IF mem[NextField(a)] = MainAddr THEN 0
                            ELSE mem[NextField(a)]
  <1>1. 0 \in Addr
    BY AddrLimitAssumption DEF Addr
  <1>2. \A a \in Addr \ {0} : ReadableField(a) => mem[NextField(a)] \in Addr
    BY ReadTyped DEF ReadableField
  <1>3. DOMAIN RingLink = {b \in Addr \ {0} : ReadableField(b)}
    BY DEF RingLink, ReadableField
  <1>4. \A a \in DOMAIN RingLink :
          RingLink[a] = IF mem[NextField(a)] = MainAddr THEN 0
                        ELSE mem[NextField(a)]
    BY DEF RingLink
  <1> QED
    BY <1>1, <1>2, <1>3, <1>4

LEMMA InitRefines == Init => Chase!Init
  <1> SUFFICES ASSUME Init PROVE Chase!Init
    OBVIOUS
  <1>1. IsMemory(mem) /\ arenas = <<>> /\ problems = <<>> /\ pc = "probe"
    BY ArenaRingAssumption DEF Init
  <1> QED
    BY <1>1, RingLinkTyped, ArenaRingAssumption DEF Chase!Init

(* What LinkRead has established before a link is followed.                *)
LEMMA LinkFacts ==
  ASSUME IInv, LinkRead
  PROVE  /\ arenas # <<>> /\ problems = <<>> /\ Len(arenas) < MaxArenas
         /\ Current \in DOMAIN RingLink
         /\ at = RingLink[Current] /\ verdict = "running"
         /\ at = IF ClosesRing THEN 0 ELSE NextArena
         /\ NextArena \in Addr
         /\ Len(arenas) \in Nat
  <1>1. arenas # <<>> /\ problems = <<>> /\ Len(arenas) < MaxArenas /\ pc = "walk"
    BY DEF IInv, Phases, LinkRead
  <1>2. Current \in Addr \ {0} /\ ReadableField(Current) /\ Len(arenas) \in Nat
    BY <1>1, CurrentTyped DEF IInv, LinkRead, ReadableField
  <1>3. IsMemory(mem)
    BY DEF IInv, TypeOK
  <1>4. Current \in DOMAIN RingLink
    BY <1>2, <1>3, RingLinkTyped
  <1>5. NextArena \in Addr
    BY <1>2, <1>3, ReadTyped DEF NextArena, ReadableField
  <1>6. at = RingLink[Current] /\ verdict = "running"
    BY <1>1, <1>4 DEF at, verdict, Successor
  <1>7. RingLink[Current] = IF NextArena = MainAddr THEN 0 ELSE NextArena
    BY <1>3, <1>4, RingLinkTyped DEF NextArena
  <1>8. (IF NextArena = MainAddr THEN 0 ELSE NextArena)
          = IF ClosesRing THEN 0 ELSE NextArena
    BY DEF ClosesRing
  <1> QED
    BY <1>1, <1>2, <1>4, <1>5, <1>6, <1>7, <1>8

LEMMA StepRefines ==
  ASSUME IInv, [Next]_vars
  PROVE  [Chase!Next]_(Chase!vars)
  <1> USE DEF Range, Chase!Range, Visited
  <1>0. /\ IsMemory(mem)
        /\ MaxArenas \in Nat \ {0} /\ MainAddr \in Addr \ {0}
        /\ mem' = mem
    <2>1. mem' = mem
      BY DEF Next, vars, ProbeFails, Probe, CapReached, NextUnreadable, RingCloses,
             MidChainCycle, CandidateUnreadable, AddArena, Truncate
    <2> QED
      BY <2>1, ArenaRingAssumption DEF IInv, TypeOK
  <1>a. RingLink' = RingLink
    BY <1>0 DEF RingLink
  <1>1. CASE ProbeFails
    BY <1>0, <1>1, <1>a DEF ProbeFails, IInv, Phases, Chase!vars
  <1>2. CASE Probe
    <2>1. /\ arenas = <<>> /\ problems = <<>> /\ pc = "probe"
          /\ arenas' = <<MainAddr>> /\ problems' = <<>> /\ pc' = "walk"
      BY <1>2 DEF Probe, IInv, Phases
    <2>2. arenas' = Append(arenas, MainAddr) /\ Current' = MainAddr
      BY <2>1 DEF Current
    <2>3. CASE MainAddr \in DOMAIN RingLink
      <3>1. Chase!Visit
        BY <1>0, <1>a, <2>1, <2>2, <2>3 DEF Chase!Visit, Chase!Fresh, Successor
      <3> QED
        BY <3>1 DEF Chase!Next
    <2>4. CASE MainAddr \notin DOMAIN RingLink
      <3>1. Chase!GiveUp
        BY <1>0, <1>a, <2>1, <2>2, <2>4 DEF Chase!GiveUp, Chase!Fresh, Successor
      <3> QED
        BY <3>1 DEF Chase!Next
    <2> QED
      BY <2>3, <2>4
  <1>3. ASSUME Truncate, IInv, pc = "walk"
        PROVE  /\ UNCHANGED arenas /\ Current' = Current /\ Successor' = Successor
               /\ problems' # <<>> /\ problems = <<>> /\ arenas # <<>>
    BY <1>3, <1>a DEF Truncate, Current, Successor, IInv, Phases, TypeOK
  <1>4. CASE CapReached
    <2>1. CASE Current \in DOMAIN RingLink
      <3>1. Len(arenas) \in Nat /\ Len(arenas) >= MaxArenas
        BY <1>4 DEF CapReached, IInv, TypeOK
      <3>2. Chase!GiveUp
        BY <1>3, <1>4, <1>a, <2>1, <3>1 DEF CapReached, Chase!GiveUp
      <3> QED
        BY <3>2 DEF Chase!Next
    <2>2. CASE Current \notin DOMAIN RingLink
      BY <1>3, <1>4, <1>0, <1>a, <2>2 DEF CapReached, Chase!vars
    <2> QED
      BY <2>1, <2>2
  <1>5. CASE NextUnreadable
    <2>1. Current \notin DOMAIN RingLink
      BY <1>0, <1>5, RingLinkTyped DEF NextUnreadable, ReadableField, RingLink
    <2> QED
      BY <1>3, <1>5, <1>0, <1>a, <2>1 DEF NextUnreadable, Chase!vars
  <1>6. CASE RingCloses
    <2>1. arenas # <<>> /\ at = 0 /\ verdict = "running" /\ Current \in DOMAIN RingLink
      BY <1>6, LinkFacts DEF RingCloses
    <2>2. UNCHANGED arenas /\ problems = <<>> /\ problems' = <<>> /\ pc' = "done"
      BY <1>6, LinkFacts DEF RingCloses
    <2>3. Current' = Current /\ Successor' = Successor
      BY <1>a, <2>2 DEF Current, Successor
    <2>4. Chase!Finish
      BY <1>0, <1>a, <2>1, <2>2, <2>3 DEF Chase!Finish, at, verdict
    <2> QED
      BY <2>4 DEF Chase!Next
  <1>7. CASE MidChainCycle
    <2>1. /\ at \in Range(arenas) /\ verdict = "running" /\ pc = "walk"
      BY <1>7, LinkFacts DEF MidChainCycle, LinkRead
    <2>2. Chase!GiveUp
      BY <1>0, <1>3, <1>7, <1>a, <2>1 DEF MidChainCycle, Chase!GiveUp, at, verdict
    <2> QED
      BY <2>2 DEF Chase!Next
  <1>8. CASE CandidateUnreadable
    <2>1. /\ at \in (Addr \ {0}) \ DOMAIN RingLink
          /\ verdict = "running" /\ pc = "walk"
      BY <1>0, <1>8, LinkFacts, RingLinkTyped
         DEF CandidateUnreadable, LinkRead, ReadableField, ClosesRing, RingLink
    <2>2. Chase!GiveUp
      BY <1>0, <1>3, <1>8, <1>a, <2>1 DEF CandidateUnreadable, Chase!GiveUp, at, verdict
    <2> QED
      BY <2>2 DEF Chase!Next
  <1>9. CASE AddArena
    <2>1. /\ arenas # <<>> /\ problems = <<>> /\ Len(arenas) < MaxArenas
          /\ at = NextArena /\ verdict = "running"
          /\ NextArena \in (Addr \ {0}) \ Range(arenas)
      BY <1>9, LinkFacts DEF AddArena, ClosesRing
    <2>2. NextArena \in DOMAIN RingLink
      BY <1>0, <1>9, <2>1, RingLinkTyped DEF AddArena, ReadableField
    <2>3. /\ arenas' = Append(arenas, NextArena) /\ arenas' # <<>>
          /\ Current' = NextArena
          /\ problems' = <<>> /\ pc' = "walk"
      BY <1>9, <2>1 DEF AddArena, LinkRead, Current, IInv, TypeOK
    <2>4. Successor' = RingLink[NextArena]
      BY <1>a, <2>2, <2>3 DEF Successor
    <2>5. Chase!Visit
      BY <1>0, <1>a, <2>1, <2>2, <2>3, <2>4 DEF Chase!Visit, Chase!Fresh, at, verdict
    <2> QED
      BY <2>5 DEF Chase!Next
  <1>10. CASE UNCHANGED vars
    BY <1>10, <1>a DEF vars, Chase!vars, Current, Successor
  <1> QED
    BY <1>1, <1>2, <1>4, <1>5, <1>6, <1>7, <1>8, <1>9, <1>10 DEF Next

(* Listing the arenas is a pointer chase along the ring from main_arena.   *)
THEOREM ArenaListIsChase == Spec => IsPointerChase
  BY InductiveInvariant, InitRefines, StepRefines, PTL
     DEF Spec, IsPointerChase, Chase!Spec
=============================================================================
