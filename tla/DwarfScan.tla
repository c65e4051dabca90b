----------------------------- MODULE DwarfScan -----------------------------
(***************************************************************************)
(* How extract_layout (src/src/glibc/dwarf.rs) finds the four malloc       *)
(* structures in .debug_info: the headers of all units first, then the     *)
(* DIEs of one unit after the other, the wanted ones resolved through      *)
(* typedefs to a structure, and last the choice of one layout per target.  *)
(*                                                                         *)
(* A definition of the file is [name, id, what, struct]: the target, the   *)
(* structure DIE it resolves to (or, if it does not, an id of its own),    *)
(* what reading that gives ("parsed", "broken", or "limit" when it runs    *)
(* into a resource limit; "unread" until module DwarfTypes has read it)    *)
(* and the structure. Reading the same structure twice gives the same.     *)
(* Module DwarfLayout says which structures validate.                      *)
(***************************************************************************)
EXTENDS DwarfLayout, SequencesExt

CONSTANTS DebugFiles,      \* the files to look at
          Ids,             \* the global DIE ids of structures
          MaxUnits, MaxDies, MaxCandidates,
          None             \* no layout

IsDie(d) ==
  /\ d \in [name : TargetSet \cup {"other", "undecodable"}, id : Ids,
           what : {"unread", "parsed", "broken", "limit"}, struct : {d.struct}]
  /\ IsStruct(d.struct)

\* Reading goes by what a structure is and for whom it is read.
ReadAlike(ds) ==
  \A i, j \in DOMAIN ds : ds[i].name = ds[j].name /\ ds[i].id = ds[j].id => ds[i] = ds[j]

IsDebugFile(f) ==
  \* tcache is require_tcache.
  /\ f \in [tcache : BOOLEAN, units : Seq(ToSet(f.units))]
  /\ \A i \in DOMAIN f.units :
       /\ f.units[i] \in [kind : {"compile", "type", "dwo"},
                         dies : Seq(ToSet(f.units[i].dies))]
       /\ \A j \in DOMAIN f.units[i].dies : IsDie(f.units[i].dies[j])
       /\ ReadAlike(f.units[i].dies)

ASSUME DwarfScanAssumption ==
  /\ \A f \in DebugFiles : IsDebugFile(f)
  /\ MaxUnits \in Nat /\ MaxDies \in Nat /\ MaxCandidates \in Nat

VARIABLES file,        \* the input
          pc,          \* "headers", "dies", "resolve", "select" or "done"
          u, k,        \* the unit and the DIE, found entry or target in it
          dies, candidateCount,
          found, seen, \* of this unit: wanted DIEs, structures already taken
          candidates,  \* index.candidates: per target, in scan order
          errors,      \* index.errors: per target, has one been recorded
          layout,      \* the layouts selected so far
          result       \* "none", "ok" or the kind of error

vars == <<file, pc, u, k, dies, candidateCount, found, seen, candidates,
          errors, layout, result>>

counters == <<dies, candidateCount>>
index == <<candidates, errors>>

Init ==
  /\ file \in DebugFiles
  /\ pc = "headers"
  /\ u = 1 /\ k = 1
  /\ dies = 0 /\ candidateCount = 0
  /\ found = <<>> /\ seen = {}
  /\ candidates = [t \in TargetSet |-> <<>>]
  /\ errors = [t \in TargetSet |-> FALSE]
  /\ layout = [t \in TargetSet |-> None]
  /\ result = "none"

Fail(why) ==
  /\ pc' = "done"
  /\ result' = why

(***************************************************************************)
(* The unit headers: too many, or one of a kind that is not supported,     *)
(* and the whole extraction ends.                                          *)
(***************************************************************************)
TooManyUnits ==
  /\ pc = "headers" /\ u <= Len(file.units)
  /\ u > MaxUnits
  /\ Fail("limit")
  /\ UNCHANGED <<file, u, k, counters, found, seen, index, layout>>

UnsupportedUnit ==
  /\ pc = "headers" /\ u <= Len(file.units)
  /\ u <= MaxUnits
  /\ file.units[u].kind = "type"
  /\ Fail("unsupported")
  /\ UNCHANGED <<file, u, k, counters, found, seen, index, layout>>

KeepHeader ==
  /\ pc = "headers" /\ u <= Len(file.units)
  /\ u <= MaxUnits
  /\ file.units[u].kind # "type"
  /\ u' = u + 1
  /\ UNCHANGED <<file, pc, k, counters, found, seen, index, layout, result>>

\* An empty .debug_info is no error of its own: there is just no DWARF.
NoUnits ==
  /\ pc = "headers" /\ file.units = <<>>
  /\ Fail("unavailable")
  /\ UNCHANGED <<file, u, k, counters, found, seen, index, layout>>

HeadersRead ==
  /\ pc = "headers" /\ file.units # <<>>
  /\ u > Len(file.units)
  /\ pc' = "dies"
  /\ u' = 1
  /\ UNCHANGED <<file, k, counters, found, seen, index, layout, result>>

(***************************************************************************)
(* First pass over a unit: a unit that points to a .dwo file ends the      *)
(* extraction, else every DIE is counted and the wanted ones collected.    *)
(***************************************************************************)
SplitUnit ==
  /\ pc = "dies"
  /\ file.units[u].kind = "dwo"
  /\ Fail("unsupported")
  /\ UNCHANGED <<file, u, k, counters, found, seen, index, layout>>

AtDie ==
  /\ pc = "dies" /\ file.units[u].kind = "compile"
  /\ k <= Len(file.units[u].dies)

Die == file.units[u].dies[k]

Exhausted ==
  \/ dies + 1 > MaxDies
  \/ Die.name \in TargetSet /\ candidateCount + 1 > MaxCandidates

DieLimit ==
  /\ AtDie
  /\ Exhausted
  /\ Fail("limit")
  /\ UNCHANGED <<file, u, k, counters, found, seen, index, layout>>

\* entry_name fails, and the `?` ends the extraction: not this DIE alone.
BadName ==
  /\ AtDie
  /\ ~Exhausted
  /\ Die.name = "undecodable"
  /\ Fail("invalid")
  /\ UNCHANGED <<file, u, k, counters, found, seen, index, layout>>

CountDie ==
  /\ AtDie
  /\ ~Exhausted
  /\ Die.name # "undecodable"
  /\ dies' = dies + 1
  /\ IF Die.name \in TargetSet
       THEN /\ candidateCount' = candidateCount + 1
            /\ found' = Append(found, Die)
       ELSE UNCHANGED <<candidateCount, found>>
  /\ k' = k + 1
  /\ UNCHANGED <<file, pc, u, seen, index, layout, result>>

DiesRead ==
  /\ pc = "dies" /\ file.units[u].kind = "compile"
  /\ k > Len(file.units[u].dies)
  /\ pc' = "resolve"
  /\ k' = 1
  /\ UNCHANGED <<file, u, counters, found, seen, index, layout, result>>

(***************************************************************************)
(* Second pass: resolve each wanted DIE to its structure; a structure of   *)
(* this unit that was taken before (by a typedef, say) is skipped.         *)
(***************************************************************************)
AtFound == pc = "resolve" /\ k <= Len(found)

\* Wrong variant: only the target is remembered, not the structure.
Key_TargetOnly(d) == d.name

Key(d) == <<d.name, d.id>>

ResolveLimit ==
  /\ AtFound
  /\ found[k].what = "limit"
  /\ Key(found[k]) \notin seen
  /\ Fail("limit")
  /\ UNCHANGED <<file, u, k, counters, found, seen, index, layout>>

\* A structure is parsed; only its size is validated by then.
Parses(d) == d.what = "parsed" /\ ValidSize(d.struct)

\* The reading of one structure; that a target has an error is kept.
Take(d) ==
  /\ seen' = seen \cup {Key(d)}
  /\ IF Parses(d)
       THEN /\ candidates' = [candidates EXCEPT ![d.name] = Append(@, d.struct)]
            /\ UNCHANGED errors
       ELSE /\ errors' = [errors EXCEPT ![d.name] = TRUE]
            /\ UNCHANGED candidates

ResolveFound ==
  /\ AtFound
  /\ Key(found[k]) \notin seen => found[k].what \in {"parsed", "broken"}
  /\ IF Key(found[k]) \in seen
       THEN UNCHANGED <<seen, index>>
       ELSE Take(found[k])
  /\ k' = k + 1
  /\ UNCHANGED <<file, pc, u, counters, found, layout, result>>

UnitDone ==
  /\ pc = "resolve" /\ k > Len(found)
  /\ u' = u + 1 /\ k' = 1
  /\ found' = <<>> /\ seen' = {}
  /\ pc' = IF u < Len(file.units) THEN "dies" ELSE "select"
  /\ UNCHANGED <<file, counters, index, layout, result>>

(***************************************************************************)
(* select: one layout among the candidates of a target. Candidates that    *)
(* do not validate, and the recorded errors, only matter when none does.   *)
(***************************************************************************)
ValidLayouts(t) ==
  {Layout(t, s) : s \in {c \in ToSet(candidates[t]) : Validates(t, c)}}

Required == IF file.tcache THEN 4 ELSE 3

SelectOne ==
  /\ pc = "select" /\ k <= Required
  /\ Cardinality(ValidLayouts(Targets[k])) = 1
  /\ layout' = [layout EXCEPT ![Targets[k]] =
                  CHOOSE l \in ValidLayouts(Targets[k]) : TRUE]
  /\ k' = k + 1
  /\ UNCHANGED <<file, pc, u, counters, found, seen, index, result>>

\* Wrong variant: a target with a recorded error fails, whatever is valid.
SelectFails_OnAnyError ==
  /\ pc = "select" /\ k <= Required
  /\ Cardinality(ValidLayouts(Targets[k])) # 1 \/ errors[Targets[k]]
  /\ Fail("invalid")
  /\ UNCHANGED <<file, u, k, counters, found, seen, index, layout>>

SelectFails ==
  /\ pc = "select" /\ k <= Required
  /\ Cardinality(ValidLayouts(Targets[k])) # 1
  /\ Fail("invalid")
  /\ UNCHANGED <<file, u, k, counters, found, seen, index, layout>>

Assembled ==
  /\ pc = "select" /\ k > Required
  /\ pc' = "done"
  /\ result' = "ok"
  /\ UNCHANGED <<file, u, k, counters, found, seen, index, layout>>

Next ==
  \/ TooManyUnits \/ UnsupportedUnit \/ KeepHeader \/ NoUnits \/ HeadersRead
  \/ SplitUnit \/ DieLimit \/ BadName \/ CountDie \/ DiesRead
  \/ ResolveLimit \/ ResolveFound \/ UnitDone
  \/ SelectOne \/ SelectFails \/ Assembled

Spec == Init /\ [][Next]_vars

-----------------------------------------------------------------------------
(***************************************************************************)
(* The file as a whole, without the order in which it is scanned.          *)
(***************************************************************************)
\* Where the DIEs of the file are: a unit, and a place in it.
Places == UNION {{i} \X DOMAIN file.units[i].dies : i \in DOMAIN file.units}

DieAt(p) == file.units[p[1]].dies[p[2]]

AllDies == {DieAt(p) : p \in Places}

WantedPlaces == {p \in Places : DieAt(p).name \in TargetSet}

\* The definitions a target could be read from.
Usable(t) ==
  {d \in AllDies : d.name = t /\ Parses(d) /\ Validates(t, d.struct)}

UsableLayouts(t) == {Layout(t, d.struct) : d \in Usable(t)}

Wanted == {Targets[i] : i \in 1 .. Required}

\* Every unit, DIE and structure the file has can be read.
Readable ==
  /\ Len(file.units) \in 1 .. MaxUnits
  /\ \A i \in 1 .. Len(file.units) : file.units[i].kind = "compile"
  /\ \A d \in AllDies :
       /\ d.name # "undecodable"
       /\ d.name \in TargetSet => d.what # "limit"
  /\ Cardinality(Places) <= MaxDies
  /\ Cardinality(WantedPlaces) <= MaxCandidates

(***************************************************************************)
(* The state of the scan has its type.                                     *)
(***************************************************************************)
TypeOK ==
  /\ IsDebugFile(file)
  /\ pc \in {"headers", "dies", "resolve", "select", "done"}
  /\ u \in 1 .. Len(file.units) + 1 /\ k \in Nat
  /\ dies \in 0 .. MaxDies /\ candidateCount \in 0 .. MaxCandidates
  /\ \A i \in DOMAIN found : IsDie(found[i]) /\ found[i].name \in TargetSet
  /\ \A t \in TargetSet :
       /\ \A i \in DOMAIN candidates[t] : IsStruct(candidates[t][i])
       /\ errors[t] \in BOOLEAN
  /\ result \in {"none", "ok", "limit", "unsupported", "invalid", "unavailable"}

(***************************************************************************)
(* A layout is accepted only from a file that could be read to its end     *)
(* (nothing over a limit, of an unsupported kind or with a name that       *)
(* cannot be decoded), and only when every usable definition in it, in     *)
(* whatever unit and order, agrees: conflicting definitions are never      *)
(* chosen between, and none is lost on the way to select.                  *)
(***************************************************************************)
AcceptedIsUnanimous ==
  result = "ok" =>
    /\ Readable
    /\ \A t \in Wanted : UsableLayouts(t) = {layout[t]}

(***************************************************************************)
(* A readable file in which each wanted structure has exactly one usable   *)
(* layout is never rejected: broken copies, declarations and equal copies  *)
(* in other units do not spoil it.                                         *)
(***************************************************************************)
RejectedHasCause ==
  pc = "done" /\ result # "ok" =>
    ~Readable \/ \E t \in Wanted : Cardinality(UsableLayouts(t)) # 1

(***************************************************************************)
(* A selected layout is that of a definition in the file through which the *)
(* analysis can read: the word of a scalar and every slot of an array lie  *)
(* in the field as declared and in the structure, the fields share no byte *)
(* (a head of a free list is never also read as top or next), and a tcache *)
(* has as many counters as bins.                                           *)
(***************************************************************************)
SelectedIsSafe ==
  \A t \in TargetSet :
    layout[t] # None =>
      \E d \in AllDies :
        d.name = t /\ layout[t] = Layout(t, d.struct) /\ Safe(t, d.struct)
=============================================================================
