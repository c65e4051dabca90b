---------------------------- MODULE FreeListWalk ----------------------------
(***************************************************************************)
(* heap::fastbin::walk_fastbin and heap::tcache::walk_tcache_bin: the walk *)
(* over one singly linked free list of the target process.                 *)
(*                                                                         *)
(* The two loops are the same but for the slot the link is stored in (two  *)
(* words into a fastbin chunk, at the very start of a tcache entry) and    *)
(* for what is kept of a node: a fastbin only counts it, a tcache bin      *)
(* keeps its address.  Here both keep the sequence of nodes taken.         *)
(*                                                                         *)
(* The list is untrusted input, chosen in Init: link is where glibc (or    *)
(* whoever corrupted the heap) made each node point, and the memory image  *)
(* holds that link as glibc stores it, mangled with its own address when   *)
(* the libc has safe-linking.                                              *)
(***************************************************************************)
EXTENDS Memory, Sequences, Functions

CONSTANTS Word,      \* DetectedLayout.word_size
          PageSize,  \* 2^12, the shift of safe-linking
          MaxChain,  \* MAX_CHAIN
          XorWord(_, _), \* exclusive or of two words
          Lists      \* the lists a walk may be asked for

IsList(l) ==
  /\ l.kind \in {"fastbin", "tcache"}
  /\ l.safe \in BOOLEAN
  /\ l.head \in Addr
  /\ DOMAIN l.link \subseteq Addr \ {0}
  /\ \A n \in DOMAIN l.link : l.link[n] \in Addr

ASSUME FreeListAssumption ==
  /\ Word \in Nat \ {0}
  /\ 2 * Word <= AddrLimit
  /\ PageSize \in Nat \ {0}
  /\ MaxChain \in Nat \ {0}
  /\ \A a, b \in Addr : XorWord(a, b) \in Addr /\ XorWord(a, XorWord(a, b)) = b
  /\ \A l \in Lists : IsList(l)

VARIABLES list,     \* the bin: its kind, head and links
          pc,       \* "walk" or "done"
          current,  \* the node to take next
          taken,    \* the nodes taken: result.count / result.user_addrs
          problems  \* the kinds of the Problems pushed

vars == <<list, pc, current, taken, problems>>

ProblemKinds == {"CycleDetected", "ChunkReadFailed"}

(* Types, and the zero pointer is never taken for a node.                  *)
TypeOK ==
  /\ IsList(list)
  /\ pc \in {"walk", "done"}
  /\ current \in Addr
  /\ taken \in Seq(Addr \ {0})
  /\ problems \in Seq(ProblemKinds)

-----------------------------------------------------------------------------
(* Where a node's link is stored, and what is stored there.                *)

Slot(n) ==
  IF list.kind = "fastbin" THEN WrappingAdd(n, 2 * Word) ELSE n

SlotOwner(a) ==
  IF list.kind = "fastbin" THEN WrappingAdd(a, AddrLimit - 2 * Word) ELSE a

(* PROTECT_PTR of glibc 2.32 and later.                                    *)
ProtectPtr(slot, ptr) ==
  IF list.safe THEN XorWord(slot \div PageSize, ptr) ELSE ptr

(* The memory image of the list.                                           *)
LinkReadable(slot) == SlotOwner(slot) \in DOMAIN list.link

ReadLink(slot) == ProtectPtr(slot, list.link[SlotOwner(slot)])

(* Wrong variant: safe-linking undone on every libc.                       *)
Reveal_Always(slot, stored) == XorWord(slot \div PageSize, stored)

Reveal(slot, stored) ==
  IF list.safe THEN XorWord(slot \div PageSize, stored) ELSE stored

-----------------------------------------------------------------------------
Init ==
  /\ list \in Lists
  /\ pc = "walk"
  /\ current = list.head
  /\ taken = <<>>
  /\ problems = <<>>

EmptyBin ==
  /\ pc = "walk"
  /\ taken = <<>>
  /\ list.head = 0
  /\ pc' = "done"
  /\ UNCHANGED <<list, current, taken, problems>>

(* Wrong variant: a cap one too low.                                       *)
Revisit_CapOffByOne ==
  \/ current \in Range(taken)
  \/ Len(taken) + 1 >= MaxChain

(* visited.insert(current) fails, or the set outgrows the cap.  visited    *)
(* holds exactly the nodes taken.                                          *)
Revisit ==
  \/ current \in Range(taken)
  \/ Len(taken) + 1 > MaxChain

InWalk == pc = "walk" /\ current # 0

NextNode == Reveal(Slot(current), ReadLink(Slot(current)))

(* Wrong variant: a node met again is not taken again but its link is      *)
(* followed, and the cap, on the size of the visited set, never fires.     *)
CycleDetected_FollowedOn ==
  /\ InWalk
  /\ Revisit
  /\ IF current \in Range(taken)
     THEN current' = NextNode /\ UNCHANGED <<pc, problems>>
     ELSE /\ pc' = "done"
          /\ problems' = Append(problems, "CycleDetected")
          /\ UNCHANGED current
  /\ UNCHANGED <<list, taken>>

CycleDetected ==
  /\ InWalk
  /\ Revisit
  /\ pc' = "done"
  /\ problems' = Append(problems, "CycleDetected")
  /\ UNCHANGED <<list, current, taken>>

(* The node is taken before its link is read.                              *)
Take ==
  /\ InWalk
  /\ ~ Revisit
  /\ taken' = Append(taken, current)

LinkUnreadable ==
  /\ Take
  /\ ~ LinkReadable(Slot(current))
  /\ pc' = "done"
  /\ problems' = Append(problems, "ChunkReadFailed")
  /\ UNCHANGED <<list, current>>

LastNode ==
  /\ Take
  /\ LinkReadable(Slot(current))
  /\ NextNode = 0
  /\ pc' = "done"
  /\ UNCHANGED <<list, current, problems>>

FollowLink ==
  /\ Take
  /\ LinkReadable(Slot(current))
  /\ NextNode # 0
  /\ current' = NextNode
  /\ UNCHANGED <<list, pc, problems>>

Next ==
  \/ EmptyBin
  \/ CycleDetected
  \/ LinkUnreadable
  \/ LastNode
  \/ FollowLink

Spec == Init /\ [][Next]_vars

(* One thread runs the loop to its end.                                    *)
FairSpec == Spec /\ WF_vars(Next)

-----------------------------------------------------------------------------
(* Properties.                                                             *)

CleanEnd == pc = "done" /\ problems = <<>>

(* The walk is a pointer chase over the links as glibc meant them: nothing *)
(* is taken twice, a clean end means the whole list, a problem means a     *)
(* cycle, an overlong or an unreadable list.  Safe-linking, when the libc  *)
(* has it, is undone with the right key for either kind of bin.            *)
Chase == INSTANCE PointerChase WITH
  Node    <- Addr \ {0},
  End     <- 0,
  Cap     <- MaxChain,
  link    <- list.link,
  root    <- list.head,
  at      <- IF CleanEnd THEN 0 ELSE current,
  path    <- taken,
  verdict <- IF problems # <<>> THEN "broken"
             ELSE IF CleanEnd THEN "clean" ELSE "running"

IsPointerChase == Chase!Spec

(* ... and it always ends.                                                 *)
ChaseEnds == <>(pc = "done")

(* The nodes of an intact list, in order: the reference the walk is held   *)
(* against, defined on the links alone.                                    *)
IsIntactList(s) ==
  /\ IsInjective(s)
  /\ \A i \in DOMAIN s : s[i] \in DOMAIN list.link
  /\ list.head = IF s = <<>> THEN 0 ELSE s[1]
  /\ \A i \in DOMAIN s :
       list.link[s[i]] = IF i = Len(s) THEN 0 ELSE s[i + 1]

(* A finished walk without problems has returned an intact list, and a     *)
(* finished walk with one has met a list that is not intact or longer than *)
(* the cap (a list of exactly MAX_CHAIN nodes is fine): the free-list      *)
(* counts of the report are exact, or the report says that they are not.   *)
VerdictIsRight ==
  pc = "done" =>
    IF problems = <<>> THEN IsIntactList(taken)
    ELSE /\ taken # <<>>
         /\ LET last == taken[Len(taken)]
            IN  \/ last \notin DOMAIN list.link
                \/ list.link[last] \in Range(taken)
                \/ Len(taken) = MaxChain /\ list.link[last] # 0
=============================================================================
