------------------------- MODULE FreeListWalkProofs -------------------------
(***************************************************************************)
(* The walk over a fastbin or a tcache bin implements PointerChase, for    *)
(* every list, word size, page size, cap and address space.                *)
(*                                                                         *)
(* Two facts carry the refinement. The slot of a node determines the node, *)
(* though its address wraps, so a link is readable exactly when the node   *)
(* has one. And undoing safe-linking gives the link glibc meant.           *)
(***************************************************************************)
EXTENDS FreeListWalk, TLAPS

IInv ==
  /\ TypeOK
  /\ pc = "walk" => problems = <<>>
  /\ pc = "walk" /\ taken = <<>> => current = list.head

LEMMA ListTyped ==
  ASSUME NEW l, IsList(l)
  PROVE  /\ l.head \in Addr
         /\ DOMAIN l.link \subseteq Addr \ {0}
         /\ \A n \in DOMAIN l.link : l.link[n] \in Addr
  BY DEF IsList

(* A slot lies in the address space and leads back to its node.            *)
LEMMA SlotDeterminesNode ==
  ASSUME NEW n \in Addr
  PROVE  Slot(n) \in Addr /\ SlotOwner(Slot(n)) = n
  <1>1. /\ AddrLimit \in Nat /\ Word \in Nat /\ Word > 0
        /\ 2 * Word <= AddrLimit /\ n \in Nat /\ n < AddrLimit
    BY AddrLimitAssumption, FreeListAssumption DEF Addr
  <1>2. ASSUME NEW x \in Nat, x < AddrLimit
        PROVE  x % AddrLimit = x /\ (x + AddrLimit) % AddrLimit = x
    BY <1>1, <1>2
  <1>3. CASE n + 2 * Word < AddrLimit
    <2>1. (n + 2 * Word) % AddrLimit = n + 2 * Word
      BY <1>1, <1>2, <1>3
    <2>2. (n + 2 * Word) + (AddrLimit - 2 * Word) = n + AddrLimit
      BY <1>1
    <2>3. (n + AddrLimit) % AddrLimit = n
      BY <1>1, <1>2
    <2> QED
      BY <1>1, <1>3, <2>1, <2>2, <2>3 DEF Slot, SlotOwner, WrappingAdd, Addr
  <1>4. CASE n + 2 * Word >= AddrLimit
    <2> DEFINE x == n + 2 * Word - AddrLimit
    <2>1. x \in Nat /\ x < AddrLimit /\ x + AddrLimit = n + 2 * Word
      BY <1>1, <1>4
    <2>2. (n + 2 * Word) % AddrLimit = x
      BY <1>2, <2>1
    <2>3. x + (AddrLimit - 2 * Word) = n
      BY <1>1
    <2>4. n % AddrLimit = n
      BY <1>1, <1>2
    <2> HIDE DEF x
    <2> QED
      BY <1>1, <2>1, <2>2, <2>3, <2>4 DEF Slot, SlotOwner, WrappingAdd, Addr
  <1> QED
    BY <1>1, <1>3, <1>4

(* What is read through the slot of a node is the link glibc meant.        *)
LEMMA LinkIsRevealed ==
  ASSUME TypeOK, NEW n \in DOMAIN list.link
  PROVE  Reveal(Slot(n), ReadLink(Slot(n))) = list.link[n]
  <1>1. n \in Addr /\ list.link[n] \in Addr
    BY ListTyped DEF TypeOK
  <1>2. Slot(n) \in Addr /\ SlotOwner(Slot(n)) = n
    BY <1>1, SlotDeterminesNode
  <1>3. Slot(n) \div PageSize \in Addr
    <2>1. /\ AddrLimit \in Nat /\ PageSize \in Nat /\ PageSize > 0
          /\ Slot(n) \in Nat /\ Slot(n) < AddrLimit
      BY <1>2, AddrLimitAssumption, FreeListAssumption DEF Addr
    <2>2. ASSUME NEW a \in Nat, NEW b \in Nat, b > 0
          PROVE  a \div b \in Nat /\ a \div b <= a
      BY <2>2
    <2>3. Slot(n) \div PageSize \in Nat /\ Slot(n) \div PageSize <= Slot(n)
      BY <2>1, <2>2
    <2> QED
      BY <2>1, <2>3 DEF Addr
  <1>4. XorWord(Slot(n) \div PageSize, XorWord(Slot(n) \div PageSize, list.link[n]))
          = list.link[n]
    BY <1>1, <1>3, FreeListAssumption
  <1> QED
    BY <1>2, <1>4 DEF Reveal, ReadLink, ProtectPtr

LEMMA Readability ==
  ASSUME TypeOK
  PROVE  LinkReadable(Slot(current)) <=> current \in DOMAIN list.link
  BY SlotDeterminesNode DEF LinkReadable, TypeOK

(* A followed link stays in the address space.                             *)
LEMMA NextNodeIsLink ==
  ASSUME TypeOK, LinkReadable(Slot(current))
  PROVE  /\ current \in DOMAIN list.link
         /\ NextNode = list.link[current]
         /\ NextNode \in Addr
  BY Readability, LinkIsRevealed, ListTyped DEF NextNode, TypeOK

LEMMA InitIInv == Init => IInv
  BY FreeListAssumption, ListTyped DEF Init, IInv, TypeOK

LEMMA StepIInv == IInv /\ [Next]_vars => IInv'
  <1> SUFFICES ASSUME IInv, [Next]_vars PROVE IInv'
    OBVIOUS
  <1> USE DEF IInv
  <1>1. CASE EmptyBin
    BY <1>1 DEF EmptyBin, TypeOK
  <1>2. CASE CycleDetected
    BY <1>2 DEF CycleDetected, InWalk, TypeOK, ProblemKinds
  <1>3. CASE LinkUnreadable
    BY <1>3 DEF LinkUnreadable, Take, InWalk, TypeOK, ProblemKinds
  <1>4. CASE LastNode
    BY <1>4 DEF LastNode, Take, InWalk, TypeOK
  <1>5. CASE FollowLink
    <2>1. NextNode \in Addr
      BY <1>5, NextNodeIsLink DEF FollowLink
    <2> QED
      BY <1>5, <2>1 DEF FollowLink, Take, InWalk, TypeOK
  <1>6. CASE UNCHANGED vars
    BY <1>6 DEF vars, TypeOK
  <1> QED
    BY <1>1, <1>2, <1>3, <1>4, <1>5, <1>6 DEF Next

LEMMA InductiveInvariant == Spec => []IInv
  BY InitIInv, StepIInv, PTL DEF Spec

-----------------------------------------------------------------------------
LEMMA InitRefines == Init => Chase!Init
  <1> SUFFICES ASSUME Init PROVE Chase!Init
    OBVIOUS
  <1>1. IsList(list)
    BY FreeListAssumption DEF Init
  <1> QED
    BY <1>1, ListTyped DEF Init, Chase!Init, CleanEnd

LEMMA StepRefines ==
  ASSUME IInv, [Next]_vars
  PROVE  [Chase!Next]_(Chase!vars)
  <1> USE DEF IInv, Range, Chase!Range
  <1>0. MaxChain \in Nat /\ Len(taken) \in Nat
    BY FreeListAssumption DEF TypeOK
  <1>1. CASE EmptyBin
    BY <1>1 DEF EmptyBin, CleanEnd, Chase!Next, Chase!Finish
  <1>2. CASE CycleDetected
    <2>1. current \in Range(taken) \/ Len(taken) >= MaxChain
      BY <1>0, <1>2 DEF CycleDetected, Revisit
    <2>2. problems' # <<>> /\ problems = <<>> /\ pc = "walk"
      BY <1>2 DEF CycleDetected, InWalk, TypeOK
    <2> QED
      BY <1>2, <2>1, <2>2 DEF CycleDetected, CleanEnd, Chase!Next, Chase!GiveUp
  <1>3. ASSUME Take
        PROVE  /\ current \in (Addr \ {0}) \ Range(taken)
               /\ Len(taken) < MaxChain
               /\ pc = "walk" /\ problems = <<>> /\ ~ CleanEnd
    BY <1>0, <1>3 DEF Take, InWalk, Revisit, TypeOK, CleanEnd
  <1>4. CASE LinkUnreadable
    <2>1. current \notin DOMAIN list.link
      BY <1>4, Readability DEF LinkUnreadable
    <2>2. problems' # <<>>
      BY <1>4 DEF LinkUnreadable, TypeOK
    <2> QED
      BY <1>3, <1>4, <2>1, <2>2
         DEF LinkUnreadable, Take, CleanEnd, Chase!Next, Chase!GiveUp, Chase!Fresh
  <1>5. CASE LastNode
    <2>1. current \in DOMAIN list.link /\ list.link[current] = 0
      BY <1>5, NextNodeIsLink DEF LastNode
    <2> QED
      BY <1>3, <1>5, <2>1
         DEF LastNode, Take, CleanEnd, Chase!Next, Chase!Visit, Chase!Fresh
  <1>6. CASE FollowLink
    <2>1. current \in DOMAIN list.link /\ current' = list.link[current]
      BY <1>6, NextNodeIsLink DEF FollowLink
    <2> QED
      BY <1>3, <1>6, <2>1
         DEF FollowLink, Take, CleanEnd, Chase!Next, Chase!Visit, Chase!Fresh
  <1>7. CASE UNCHANGED vars
    BY <1>7 DEF vars, Chase!vars, CleanEnd
  <1> QED
    BY <1>1, <1>2, <1>4, <1>5, <1>6, <1>7 DEF Next

(* Types: neither a wrapped slot nor an unmangled link leaves the address  *)
(* space, and the null pointer is never taken for a node.                  *)
THEOREM TypeCorrect == Spec => []TypeOK
  BY InductiveInvariant, PTL DEF IInv

(* Every walk over a free list is a pointer chase over the links that      *)
(* glibc meant, whichever bin it is and whether or not the links are       *)
(* mangled.                                                                *)
THEOREM FreeListWalkIsChase == Spec => IsPointerChase
  BY InductiveInvariant, InitRefines, StepRefines, PTL
     DEF Spec, IsPointerChase, Chase!Spec

-----------------------------------------------------------------------------
(* What VerdictIsRight needs of a walk under way: the nodes taken are      *)
(* distinct, each links to the next and the last one to current.           *)
TakenIsChain ==
  /\ IsInjective(taken)
  /\ Len(taken) <= MaxChain
  /\ pc = "walk" =>
       /\ \A i \in DOMAIN taken :
            /\ taken[i] \in DOMAIN list.link
            /\ list.link[taken[i]] = IF i = Len(taken) THEN current ELSE taken[i + 1]
       /\ taken # <<>> => taken[1] = list.head /\ current # 0

LEMMA StartIsChain == Init => TakenIsChain
  BY FreeListAssumption DEF Init, TakenIsChain, IsInjective

(* A node is taken at the end of the chain.                                *)
LEMMA TakeExtendsChain ==
  ASSUME IInv, TakenIsChain, Take
  PROVE  /\ taken' \in Seq(Addr) /\ Len(taken') = Len(taken) + 1
         /\ Len(taken') <= MaxChain
         /\ taken'[Len(taken')] = current
         /\ \A i \in DOMAIN taken : taken'[i] = taken[i] /\ i # Len(taken')
         /\ DOMAIN taken' = DOMAIN taken \cup {Len(taken')}
         /\ IsInjective(taken')
         /\ taken'[1] = list.head
         /\ pc = "walk"
  <1>1. /\ taken \in Seq(Addr) /\ current \in Addr /\ MaxChain \in Nat
        /\ taken' = Append(taken, current)
        /\ pc = "walk" /\ ~ Revisit
    BY FreeListAssumption DEF IInv, TypeOK, Take, InWalk
  <1>2. /\ taken' \in Seq(Addr) /\ Len(taken') = Len(taken) + 1
        /\ taken'[Len(taken')] = current
        /\ \A i \in DOMAIN taken : taken'[i] = taken[i] /\ i # Len(taken')
        /\ DOMAIN taken' = DOMAIN taken \cup {Len(taken')}
    BY <1>1
  <1>3. Len(taken') <= MaxChain
    BY <1>1, <1>2 DEF Revisit
  <1>4. \A i \in DOMAIN taken : taken[i] # current
    BY <1>1 DEF Revisit, Range
  <1>5. IsInjective(taken')
    BY <1>2, <1>4 DEF TakenIsChain, IsInjective
  <1>6. taken'[1] = list.head
    <2>1. CASE taken = <<>>
      BY <1>1, <1>2, <2>1 DEF IInv
    <2>2. CASE taken # <<>>
      BY <1>1, <1>2, <2>2 DEF TakenIsChain
    <2> QED
      BY <2>1, <2>2
  <1> QED
    BY <1>1, <1>2, <1>3, <1>5, <1>6

LEMMA StepIsChain ==
  IInv /\ TakenIsChain /\ [Next]_vars => TakenIsChain'
  <1> SUFFICES ASSUME IInv, TakenIsChain, [Next]_vars PROVE TakenIsChain'
    OBVIOUS
  <1>1. CASE EmptyBin
    BY <1>1 DEF EmptyBin, TakenIsChain, IsInjective
  <1>2. CASE CycleDetected
    BY <1>2 DEF CycleDetected, TakenIsChain, IsInjective
  <1>3. CASE LinkUnreadable \/ LastNode
    BY <1>3, TakeExtendsChain DEF LinkUnreadable, LastNode, TakenIsChain
  <1>4. CASE FollowLink
    <2>1. /\ current \in DOMAIN list.link /\ current' = list.link[current]
          /\ current' # 0 /\ list' = list /\ Take
      BY <1>4, NextNodeIsLink DEF FollowLink, IInv
    <2>2. ASSUME NEW i \in DOMAIN taken'
          PROVE  /\ taken'[i] \in DOMAIN list.link
                 /\ list.link[taken'[i]]
                      = IF i = Len(taken') THEN current' ELSE taken'[i + 1]
      <3>1. CASE i = Len(taken')
        BY <2>1, <3>1, TakeExtendsChain
      <3>2. CASE i # Len(taken')
        <4>1. i \in DOMAIN taken /\ taken'[i] = taken[i]
          BY <2>1, <2>2, <3>2, TakeExtendsChain
        <4>2. taken'[i + 1] = IF i = Len(taken) THEN current ELSE taken[i + 1]
          BY <2>1, <4>1, TakeExtendsChain DEF IInv, TypeOK
        <4> QED
          BY <2>1, <3>2, <4>1, <4>2, TakeExtendsChain DEF TakenIsChain
      <3> QED
        BY <3>1, <3>2
    <2> QED
      BY <2>1, <2>2, TakeExtendsChain DEF TakenIsChain
  <1>5. CASE UNCHANGED vars
    BY <1>5 DEF vars, TakenIsChain, IsInjective
  <1> QED
    BY <1>1, <1>2, <1>3, <1>4, <1>5 DEF Next

LEMMA StepVerdict ==
  IInv /\ TakenIsChain /\ VerdictIsRight /\ [Next]_vars => VerdictIsRight'
  <1> SUFFICES ASSUME IInv, TakenIsChain, VerdictIsRight, [Next]_vars, pc' = "done"
               PROVE  VerdictIsRight'
    BY DEF VerdictIsRight
  <1>1. CASE EmptyBin
    BY <1>1 DEF EmptyBin, VerdictIsRight, IsIntactList, IsInjective, IInv
  <1>2. CASE CycleDetected
    <2>1. /\ taken' = taken /\ list' = list /\ pc = "walk" /\ current # 0
          /\ problems' # <<>> /\ taken \in Seq(Addr \ {0}) /\ MaxChain \in Nat \ {0}
          /\ current \in Range(taken) \/ Len(taken) + 1 > MaxChain
      BY <1>2, FreeListAssumption DEF CycleDetected, InWalk, Revisit, IInv, TypeOK
    <2>2. taken # <<>>
      BY <2>1 DEF Range
    <2>3. Len(taken) \in DOMAIN taken
      BY <2>1, <2>2
    <2>4. list.link[taken[Len(taken)]] = current
      BY <2>1, <2>3 DEF TakenIsChain
    <2>5. Len(taken) + 1 > MaxChain => Len(taken) = MaxChain
      BY <2>1 DEF TakenIsChain
    <2> QED
      BY <2>1, <2>2, <2>4, <2>5 DEF VerdictIsRight
  <1>3. CASE LinkUnreadable
    <2>1. /\ current \notin DOMAIN list.link /\ list' = list /\ problems' # <<>> /\ Take
      BY <1>3, Readability DEF LinkUnreadable, IInv, TypeOK
    <2>2. taken' # <<>>
      BY <2>1, TakeExtendsChain DEF IInv, TypeOK
    <2> QED
      BY <2>1, <2>2, TakeExtendsChain DEF VerdictIsRight
  <1>4. CASE LastNode
    <2>1. /\ current \in DOMAIN list.link /\ list.link[current] = 0
          /\ list' = list /\ problems' = <<>> /\ Take
      BY <1>4, NextNodeIsLink DEF LastNode, Take, InWalk, IInv
    <2>2. ASSUME NEW i \in DOMAIN taken'
          PROVE  /\ taken'[i] \in DOMAIN list.link
                 /\ list.link[taken'[i]]
                      = IF i = Len(taken') THEN 0 ELSE taken'[i + 1]
      <3>1. CASE i = Len(taken')
        BY <2>1, <3>1, TakeExtendsChain
      <3>2. CASE i # Len(taken')
        <4>1. i \in DOMAIN taken /\ taken'[i] = taken[i]
          BY <2>1, <2>2, <3>2, TakeExtendsChain
        <4>2. taken'[i + 1] = IF i = Len(taken) THEN current ELSE taken[i + 1]
          BY <2>1, <4>1, TakeExtendsChain DEF IInv, TypeOK
        <4> QED
          BY <2>1, <3>2, <4>1, <4>2, TakeExtendsChain DEF TakenIsChain
      <3> QED
        BY <3>1, <3>2
    <2>3. taken' # <<>>
      BY <2>1, TakeExtendsChain DEF IInv, TypeOK
    <2> QED
      BY <2>1, <2>2, <2>3, TakeExtendsChain DEF VerdictIsRight, IsIntactList
  <1>5. CASE FollowLink
    BY <1>5 DEF FollowLink, Take, InWalk
  <1>6. CASE UNCHANGED vars
    BY <1>6 DEF vars, VerdictIsRight, IsIntactList, IsInjective
  <1> QED
    BY <1>1, <1>2, <1>3, <1>4, <1>5, <1>6 DEF Next

(* A bin reported without a problem is exactly an intact list, and a       *)
(* problem means a link that cannot be read, a link back to a node already *)
(* taken or a list longer than the cap: never a false alarm.               *)
THEOREM VerdictAlwaysRight == Spec => []VerdictIsRight
  <1>1. Init => VerdictIsRight
    BY DEF Init, VerdictIsRight
  <1> QED
    BY <1>1, InductiveInvariant, StartIsChain, StepIsChain, StepVerdict, PTL
       DEF Spec

(* The chunks taken are a path along the links that glibc meant, whatever  *)
(* the verdict will be.                                                    *)
Chained ==
  \A i \in DOMAIN taken :
    taken[i] = IF i = 1 THEN list.head ELSE list.link[taken[i - 1]]

LEMMA StepChained ==
  IInv /\ TakenIsChain /\ Chained /\ [Next]_vars => Chained'
  <1> SUFFICES ASSUME IInv, TakenIsChain, Chained, [Next]_vars PROVE Chained'
    OBVIOUS
  <1>1. CASE taken' = taken
    <2>1. list' = list
      BY DEF Next, vars, EmptyBin, CycleDetected, LinkUnreadable, LastNode, FollowLink,
             Take, InWalk
    <2> QED
      BY <1>1, <2>1 DEF Chained
  <1>2. CASE Take /\ list' = list
    <2> SUFFICES ASSUME NEW i \in DOMAIN taken'
                 PROVE  taken'[i] = IF i = 1 THEN list.head ELSE list.link[taken'[i - 1]]
      BY <1>2 DEF Chained
    <2>1. CASE i \in DOMAIN taken
      <3>1. i # 1 => i - 1 \in DOMAIN taken
        BY <2>1 DEF IInv, TypeOK
      <3> QED
        BY <1>2, <2>1, <3>1, TakeExtendsChain DEF Chained
    <2>2. CASE i = Len(taken')
      <3>1. i # 1 => i - 1 = Len(taken) /\ i - 1 \in DOMAIN taken
        BY <1>2, <2>2, TakeExtendsChain DEF IInv, TypeOK
      <3> QED
        BY <1>2, <2>2, <3>1, TakeExtendsChain DEF TakenIsChain
    <2> QED
      BY <1>2, <2>1, <2>2, TakeExtendsChain
  <1> QED
    BY <1>1, <1>2
       DEF Next, vars, EmptyBin, CycleDetected, LinkUnreadable, LastNode, FollowLink

(* So no chunk is counted twice and a bin reported without a problem is    *)
(* the whole list from its head to the null link.                          *)
THEOREM FreeListIsComplete ==
  Spec => [](Chase!VisitedOnce /\ Chase!FollowsLinks /\ Chase!CleanIsComplete)
  <1>1. Init => VerdictIsRight /\ Chained
    BY DEF Init, VerdictIsRight, Chained
  <1>2. IInv /\ TakenIsChain /\ VerdictIsRight /\ Chained
          => Chase!VisitedOnce /\ Chase!FollowsLinks /\ Chase!CleanIsComplete
    <2> SUFFICES ASSUME IInv, TakenIsChain, VerdictIsRight, Chained
                 PROVE  Chase!VisitedOnce /\ Chase!FollowsLinks /\ Chase!CleanIsComplete
      OBVIOUS
    <2>1. Chase!VisitedOnce
      BY DEF TakenIsChain, IsInjective, Chase!VisitedOnce
    <2>2. ASSUME CleanEnd, taken # <<>>
          PROVE  /\ \A i \in DOMAIN taken : taken[i] \in DOMAIN list.link
                 /\ list.link[taken[Len(taken)]] = 0
      BY <2>2 DEF CleanEnd, VerdictIsRight, IsIntactList, IInv, TypeOK
    <2>3. ASSUME CleanEnd, taken = <<>> PROVE list.head = 0
      BY <2>3 DEF CleanEnd, VerdictIsRight, IsIntactList
    <2>4. ASSUME ~ CleanEnd, problems = <<>>
          PROVE  /\ \A i \in DOMAIN taken : taken[i] \in DOMAIN list.link
                 /\ current = IF taken = <<>> THEN list.head ELSE list.link[taken[Len(taken)]]
      BY <2>4 DEF CleanEnd, TakenIsChain, IInv, TypeOK
    <2> QED
      BY <2>1, <2>2, <2>3, <2>4
         DEF Chained, Chase!FollowsLinks, Chase!CleanIsComplete, CleanEnd
  <1> QED
    BY <1>1, <1>2, InductiveInvariant, StartIsChain, StepIsChain, StepVerdict,
       StepChained, PTL DEF Spec
-----------------------------------------------------------------------------
(* PointerChase itself, of which the walk is one case, for every set of    *)
(* nodes, every cap and every link relation, cyclic ones included: what    *)
(* any walker that implements it may rely on.                              *)
(*                                                                         *)
(* VisitedOnce and FollowsLinks are inductive together with the type of    *)
(* path: the node a step appends is at, which FollowsLinks makes the       *)
(* successor of the last one while the chase runs.                         *)
CONSTANTS Node, End, Cap

VARIABLES link, root, at, path, verdict

G == INSTANCE PointerChase

ChaseInv ==
  /\ path \in Seq(Node)
  /\ G!VisitedOnce
  /\ G!FollowsLinks
  /\ G!CleanIsComplete

(* Appending a node that is not in the path keeps the nodes distinct.      *)
LEMMA AppendFresh ==
  ASSUME Cap \in Nat, path \in Seq(Node), G!VisitedOnce, G!Fresh,
         path' = Append(path, at)
  PROVE  path' \in Seq(Node) /\ G!VisitedOnce'
  <1>1. /\ at \in Node
        /\ \A i \in DOMAIN path : path[i] # at
        /\ Len(path) < Cap
    BY DEF G!Fresh, G!Range
  <1>2. /\ Len(path) \in Nat
        /\ DOMAIN path = 1 .. Len(path)
        /\ Len(path') = Len(path) + 1
        /\ DOMAIN path' = 1 .. Len(path) + 1
        /\ path'[Len(path) + 1] = at
        /\ \A i \in DOMAIN path : path'[i] = path[i]
    BY <1>1
  <1>3. path' \in Seq(Node)
    BY <1>1
  <1>4. ASSUME NEW i \in DOMAIN path', NEW j \in DOMAIN path', path'[i] = path'[j]
        PROVE  i = j
    BY <1>1, <1>2, <1>4 DEF G!VisitedOnce
  <1> QED
    BY <1>1, <1>2, <1>3, <1>4 DEF G!VisitedOnce

(* Appending at keeps the path on the links.                               *)
LEMMA AppendFollows ==
  ASSUME path \in Seq(Node), G!FollowsLinks, verdict = "running", at \in Node,
         path' = Append(path, at), UNCHANGED <<link, root>>
  PROVE  /\ \A i \in DOMAIN path' :
              path'[i] = IF i = 1 THEN root' ELSE link'[path'[i - 1]]
         /\ DOMAIN path' = 1 .. Len(path) + 1
         /\ Len(path') = Len(path) + 1
         /\ path'[Len(path) + 1] = at
         /\ \A i \in DOMAIN path : path'[i] = path[i]
  <1>1. /\ Len(path) \in Nat
        /\ DOMAIN path = 1 .. Len(path)
        /\ Len(path') = Len(path) + 1
        /\ DOMAIN path' = 1 .. Len(path) + 1
        /\ path'[Len(path) + 1] = at
        /\ \A i \in DOMAIN path : path'[i] = path[i]
    OBVIOUS
  <1>2. ASSUME NEW i \in DOMAIN path'
        PROVE  path'[i] = IF i = 1 THEN root' ELSE link'[path'[i - 1]]
    <2>1. CASE i \in DOMAIN path
      <3>1. i # 1 => i - 1 \in DOMAIN path
        BY <1>1, <2>1
      <3> QED
        BY <1>1, <2>1, <3>1 DEF G!FollowsLinks
    <2>2. CASE i = Len(path) + 1
      <3>1. CASE path = <<>>
        BY <1>1, <2>2, <3>1 DEF G!FollowsLinks
      <3>2. CASE path # <<>>
        <4>1. Len(path) \in DOMAIN path /\ i # 1 /\ i - 1 = Len(path)
          BY <1>1, <2>2, <3>2
        <4> QED
          BY <1>1, <2>2, <3>2, <4>1 DEF G!FollowsLinks
      <3> QED
        BY <3>1, <3>2
    <2> QED
      BY <1>1, <1>2, <2>1, <2>2
  <1> QED
    BY <1>1, <1>2

LEMMA ChaseStarts == ASSUME Cap \in Nat PROVE G!Init => ChaseInv
  BY DEF G!Init, ChaseInv, G!VisitedOnce, G!FollowsLinks, G!CleanIsComplete

LEMMA ChaseStep ==
  ASSUME Cap \in Nat
  PROVE  ChaseInv /\ [G!Next]_(G!vars) => ChaseInv'
  <1> SUFFICES ASSUME ChaseInv, [G!Next]_(G!vars) PROVE ChaseInv'
    OBVIOUS
  <1> USE DEF ChaseInv
  <1>1. CASE G!Visit
    <2>1. path' \in Seq(Node) /\ G!VisitedOnce'
      BY <1>1, AppendFresh DEF G!Visit
    <2>2. /\ \A i \in DOMAIN path' :
                path'[i] = IF i = 1 THEN root' ELSE link'[path'[i - 1]]
          /\ DOMAIN path' = 1 .. Len(path) + 1
          /\ Len(path') = Len(path) + 1
          /\ path'[Len(path) + 1] = at
          /\ \A i \in DOMAIN path : path'[i] = path[i]
      BY <1>1, AppendFollows DEF G!Visit, G!Fresh
    <2>3. /\ path' # <<>>
          /\ \A i \in DOMAIN path' : path'[i] \in DOMAIN link'
          /\ at' = link'[path'[Len(path')]]
      <3>1. \A i \in DOMAIN path : path[i] \in DOMAIN link
        BY <1>1 DEF G!Visit, G!FollowsLinks
      <3>2. at \in DOMAIN link /\ link' = link /\ at' = link[at]
        BY <1>1 DEF G!Visit
      <3> QED
        BY <2>2, <3>1, <3>2
    <2>4. G!FollowsLinks'
      BY <2>2, <2>3 DEF G!FollowsLinks
    <2>5. G!CleanIsComplete'
      BY <1>1, <2>3 DEF G!Visit, G!CleanIsComplete
    <2> QED
      BY <2>1, <2>4, <2>5
  <1>2. CASE G!Finish
    BY <1>2 DEF G!Finish, G!VisitedOnce, G!FollowsLinks, G!CleanIsComplete
  <1>3. CASE G!GiveUp
    <2>1. CASE path' = path
      BY <1>3, <2>1 DEF G!GiveUp, G!VisitedOnce, G!FollowsLinks, G!CleanIsComplete
    <2>2. CASE G!Fresh /\ path' = Append(path, at)
      <3>1. path' \in Seq(Node) /\ G!VisitedOnce'
        BY <2>2, AppendFresh
      <3>2. \A i \in DOMAIN path' :
              path'[i] = IF i = 1 THEN root' ELSE link'[path'[i - 1]]
        BY <1>3, <2>2, AppendFollows DEF G!GiveUp, G!Fresh
      <3> QED
        BY <1>3, <3>1, <3>2 DEF G!GiveUp, G!FollowsLinks, G!CleanIsComplete
    <2> QED
      BY <1>3, <2>1, <2>2 DEF G!GiveUp
  <1>4. CASE UNCHANGED G!vars
    BY <1>4 DEF G!vars, G!VisitedOnce, G!FollowsLinks, G!CleanIsComplete
  <1> QED
    BY <1>1, <1>2, <1>3, <1>4 DEF G!Next

(* A chase visits no node twice and never more than the cap; its path      *)
(* follows the links from the root; a clean one reached the end.           *)
THEOREM ChaseIsSound ==
  ASSUME Cap \in Nat
  PROVE  G!Spec => [](G!VisitedOnce /\ G!FollowsLinks /\ G!CleanIsComplete)
  BY ChaseStarts, ChaseStep, PTL DEF G!Spec, ChaseInv
=============================================================================
