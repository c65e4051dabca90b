------------------------------ MODULE Threads -------------------------------
(***************************************************************************)
(* elf::coredump::threads: one pass over the notes of the core that builds *)
(* the thread list, and on aarch64 joins each NT_PRSTATUS with the thread  *)
(* pointer of a separate TLS note.                                         *)
(*                                                                         *)
(* A dump is what the kernel wrote and what damage left of it.  A note     *)
(* carries the thread it was written for (owner), which the code cannot    *)
(* see; a thread pointer is the number of its thread, or 0.                *)
(***************************************************************************)
EXTENDS Naturals, SequencesExt

CONSTANT Dumps \* [arch, order, notes]: the dumps the pass may meet

Kinds == {"prstatus", "tls", "other"}

IsNote(n) ==
  /\ n.kind \in Kinds
  /\ n.owner \in Nat \ {0}
  /\ n.whole \in BOOLEAN
  /\ n.tp \in {0, n.owner}

IsDump(d) ==
  /\ DOMAIN d = {"arch", "order", "notes"}
  /\ d.arch \in {"x86_64", "aarch64"}
  /\ d.order \in {"prstatus_first", "tls_first"}
  /\ d.notes \in Seq(ToSet(d.notes))
  /\ \A k \in DOMAIN d.notes : IsNote(d.notes[k])

Of(d, kind) == {j \in DOMAIN d.notes : d.notes[j].kind = kind}

(* The kernel writes the notes of a thread together, at most one of each   *)
(* kind, and a TLS note behind or in front of the prstatus; behind it, no  *)
(* loss at the end of the notes leaves a TLS note without its prstatus.    *)
AsWritten(d) ==
  /\ \A i, j, l \in DOMAIN d.notes :
       i < j /\ j < l /\ d.notes[i].owner = d.notes[l].owner
         => d.notes[j].owner = d.notes[i].owner
  /\ \A kind \in {"prstatus", "tls"} : \A i, j \in Of(d, kind) :
       d.notes[i].owner = d.notes[j].owner => i = j
  /\ \A i \in Of(d, "prstatus"), j \in Of(d, "tls") :
       d.notes[i].owner = d.notes[j].owner => (i < j <=> d.order = "prstatus_first")
  /\ d.order = "prstatus_first" =>
       \A j \in Of(d, "tls") :
         \E i \in Of(d, "prstatus") : d.notes[i].owner = d.notes[j].owner

ASSUME ThreadsAssumption == \A d \in Dumps : IsDump(d) /\ AsWritten(d)

VARIABLES dump,      \* the input
          k,         \* the next note
          threads,   \* the threads pushed, as [id, tp]
          pendingTp, \* pending_tp, the empty set when None
          failed     \* a hard error ended the pass

vars == <<dump, k, threads, pendingTp, failed>>

Owners == {dump.notes[j].owner : j \in DOMAIN dump.notes}

TypeOK ==
  /\ IsDump(dump)
  /\ k \in 1 .. Len(dump.notes) + 1
  /\ threads \in Seq([id : Owners, tp : Owners \cup {0}])
  /\ pendingTp = {} \/ \E tp \in Owners \cup {0} : pendingTp = {tp}
  /\ failed \in BOOLEAN

Init ==
  /\ dump \in Dumps
  /\ k = 1
  /\ threads = <<>>
  /\ pendingTp = {}
  /\ failed = FALSE

NoteIn == dump.notes[k]

Reading(kind) ==
  /\ k <= Len(dump.notes)
  /\ ~ failed
  /\ NoteIn.kind = kind
  /\ k' = k + 1
  /\ UNCHANGED dump

(* Wrong variant: a malformed prstatus costs one thread.                   *)
MalformedPrstatus_Skipped ==
  /\ Reading("prstatus")
  /\ ~ NoteIn.whole
  /\ UNCHANGED <<threads, pendingTp, failed>>

(* parse_prstatus of a short descriptor: the whole analysis fails.         *)
MalformedPrstatus ==
  /\ Reading("prstatus")
  /\ ~ NoteIn.whole
  /\ failed' = TRUE
  /\ UNCHANGED <<threads, pendingTp>>

(* regs.tp: fs_base on x86_64, always 0 on aarch64.                        *)
RegsTp == IF dump.arch = "x86_64" THEN NoteIn.tp ELSE 0

TakesPending == RegsTp = 0 /\ pendingTp # {}

Pushed ==
  [id |-> NoteIn.owner,
   tp |-> IF TakesPending THEN CHOOSE tp \in pendingTp : TRUE ELSE RegsTp]

(* Wrong variant: pending_tp is copied where the code takes it.            *)
PushThread_KeepsPending ==
  /\ Reading("prstatus")
  /\ NoteIn.whole
  /\ threads' = Append(threads, Pushed)
  /\ UNCHANGED <<pendingTp, failed>>

PushThread ==
  /\ Reading("prstatus")
  /\ NoteIn.whole
  /\ threads' = Append(threads, Pushed)
  /\ pendingTp' = IF TakesPending THEN {} ELSE pendingTp
  /\ UNCHANGED failed

(* tls_note_type is None on x86_64, parse_tls_note None on a short note.   *)
IsTlsNote == dump.arch = "aarch64" /\ NoteIn.whole

LastLacksTp == threads # <<>> /\ Last(threads).tp = 0

FillLast ==
  /\ Reading("tls")
  /\ IsTlsNote
  /\ LastLacksTp
  /\ threads' = [threads EXCEPT ![Len(threads)].tp = NoteIn.tp]
  /\ UNCHANGED <<pendingTp, failed>>

KeepPending ==
  /\ Reading("tls")
  /\ IsTlsNote
  /\ ~ LastLacksTp
  /\ pendingTp' = {NoteIn.tp}
  /\ UNCHANGED <<threads, failed>>

SkipNote ==
  /\ Reading("other") \/ (Reading("tls") /\ ~ IsTlsNote)
  /\ UNCHANGED <<threads, pendingTp, failed>>

Next ==
  \/ MalformedPrstatus
  \/ PushThread
  \/ FillLast
  \/ KeepPending
  \/ SkipNote

Spec == Init /\ [][Next]_vars

-----------------------------------------------------------------------------
(* Properties.                                                             *)

Done == failed \/ k > Len(dump.notes)

\* The prstatus notes, and which of them the j-th note is.
Prstatus == Of(dump, "prstatus")

Rank(j) == Cardinality({l \in Prstatus : l <= j})

(* The thread pointers the dump really has for a thread.                   *)
KnownTps(id) ==
  {dump.notes[j].tp : j \in
     {l \in DOMAIN dump.notes :
        /\ dump.notes[l].owner = id
        /\ dump.notes[l].whole
        /\ dump.notes[l].kind = IF dump.arch = "x86_64" THEN "prstatus" ELSE "tls"}}

(* Whether each thread's notes hold a thread pointer.                      *)
Complete == \A id \in Owners : KnownTps(id) = {id}

(* The threads are the prstatus notes in their order, all of them; one     *)
(* malformed prstatus, wherever it stands, and there is no list at all     *)
(* ("a half-known thread set isn't worth pressing on with").               *)
AllThreadsOrNone ==
  Done =>
    IF \E j \in Prstatus : ~ dump.notes[j].whole
    THEN failed
    ELSE /\ ~ failed
         /\ Len(threads) = Cardinality(Prstatus)
         /\ \A j \in Prstatus : threads[Rank(j)].id = dump.notes[j].owner

(* No thread is given another thread's pointer: its tcache and arena would *)
(* be read as this one's.  With the prstatus note first that holds however *)
(* many TLS notes are lost or cut short; with the TLS note first           *)
(* it needs every thread to have its own, and then none is missed.  A lost *)
(* one may then shift the others by a thread, but whatever is lost and in  *)
(* either order, no pointer is given to two threads: take() and the guard  *)
(* on last.tp use each note once.                                          *)
OwnThreadPointer ==
  Done /\ ~ failed =>
    /\ dump.order = "prstatus_first" \/ Complete =>
         \A t \in DOMAIN threads : threads[t].tp \in {0, threads[t].id}
    /\ Complete => \A t \in DOMAIN threads : threads[t].tp = threads[t].id
    /\ \A s, t \in DOMAIN threads :
         threads[s].tp = threads[t].tp => s = t \/ threads[t].tp = 0
=============================================================================
