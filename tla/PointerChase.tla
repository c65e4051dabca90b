---------------------------- MODULE PointerChase ----------------------------
(***************************************************************************)
(* What every linked-list walker of heap-analyser promises: the arena ring *)
(* (arena::list), the heap_info chain (heap_list::list_secondary) and the  *)
(* fastbin and tcache chains all follow untrusted pointers, and each of    *)
(* them must neither loop, nor visit a node twice, nor call a broken chain *)
(* a clean one, nor complain about a chain it could have followed.         *)
(*                                                                         *)
(* link is the successor relation memory really holds: a node outside its  *)
(* domain is one that cannot be read (or not be trusted), End terminates   *)
(* the chain.                                                              *)
(***************************************************************************)
EXTENDS Naturals, Sequences, Functions

CONSTANTS Node,  \* what a link may point to
          End,   \* the terminator
          Cap    \* the most nodes a chase may visit

VARIABLES link,    \* the successor of each usable node
          root,    \* where the chase starts
          at,      \* the node the chase has reached
          path,    \* the nodes visited, in order
          verdict  \* "running", "clean" or "broken"

vars == <<link, root, at, path, verdict>>

Init ==
  /\ DOMAIN link \subseteq Node
  /\ \A n \in DOMAIN link : link[n] \in Node \cup {End}
  /\ root \in Node \cup {End}
  /\ at = root
  /\ path = <<>>
  /\ verdict = "running"

Fresh == at \in Node \ Range(path) /\ Len(path) < Cap

(* The step to the last node may at once declare the chain complete.       *)
Visit ==
  /\ verdict = "running"
  /\ Fresh
  /\ at \in DOMAIN link
  /\ path' = Append(path, at)
  /\ at' = link[at]
  /\ \/ verdict' = "running"
     \/ at' = End /\ verdict' = "clean"
  /\ UNCHANGED <<link, root>>

(* Only at the end of the chain is it complete.                            *)
Finish ==
  /\ verdict = "running"
  /\ at = End
  /\ verdict' = "clean"
  /\ UNCHANGED <<link, root, at, path>>

(* A chase is given up on a node seen before, at the cap, or on a node     *)
(* that leads nowhere; whether such a last node still counts as visited is *)
(* left to the walker.                                                     *)
GiveUp ==
  /\ verdict = "running"
  /\ \/ at \in Range(path) /\ path' = path
     \/ Len(path) >= Cap /\ path' = path
     \/ at \in Node \ DOMAIN link /\ path' = path
     \/ at \in Node \ DOMAIN link /\ Fresh /\ path' = Append(path, at)
  /\ verdict' = "broken"
  /\ UNCHANGED <<link, root, at>>

Next == Visit \/ Finish \/ GiveUp

Spec == Init /\ [][Next]_vars

-----------------------------------------------------------------------------
(* What a chase has established.                                           *)

(* No node is visited twice and the cap holds.                             *)
VisitedOnce ==
  /\ Len(path) <= Cap
  /\ \A i, j \in DOMAIN path : path[i] = path[j] => i = j

(* The path follows the links from the root, and until the chase is given  *)
(* up at is the successor of its last node.                                *)
FollowsLinks ==
  /\ \A i \in DOMAIN path :
       path[i] = IF i = 1 THEN root ELSE link[path[i - 1]]
  /\ verdict # "broken" =>
       /\ \A i \in DOMAIN path : path[i] \in DOMAIN link
       /\ at = IF path = <<>> THEN root ELSE link[path[Len(path)]]

(* A clean verdict means that the whole chain has been visited.            *)
CleanIsComplete ==
  verdict = "clean" =>
    End = IF path = <<>> THEN root ELSE link[path[Len(path)]]
=============================================================================
