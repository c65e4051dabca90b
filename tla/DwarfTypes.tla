----------------------------- MODULE DwarfTypes -----------------------------
(***************************************************************************)
(* How one definition is read out of .debug_info (src/src/glibc/dwarf.rs): *)
(* from the DIE that was found through typedefs and qualifiers to the      *)
(* structure, then each wanted member, and from there through typedefs and *)
(* arrays to the type at the end.  References are followed over units, in  *)
(* a file that may be damaged.                                             *)
(*                                                                         *)
(* An info is [units, dies, found, target].  A unit is [start, stop], its  *)
(* header at start; dies is a function from offsets in .debug_info.  A DIE *)
(* is [tag, size, unsigned, declared, type, children], type a reference    *)
(* [form, to]: "unit" is relative to the unit it is in, "info" absolute,   *)
(* and any other form is one that cannot be followed, or no reference.  A  *)
(* node is a [unit, at], as a DIE is read in the unit it was reached in.   *)
(***************************************************************************)
EXTENDS DwarfLayout, SequencesExt

CONSTANTS Infos,     \* the files and what is to be read in them
          MaxDepth   \* MAX_REFERENCE_DEPTH

Tags == {"alias", "structure", "pointer", "array", "base", "other"}

IsChild(c) ==
  \/ c.tag = "member" /\ c.location.offset \in Number /\ c.type.to \in Nat
  \/ c.tag = "subrange" /\ {c.lower, c.upper} \subseteq Int \cup {Unknown}
                        /\ c.count \in Number \cup {Unknown}
  \/ c.tag = "other"

IsInfo(f) ==
  /\ f.units \in Seq([start : Nat, stop : Nat])
  /\ \A i \in DOMAIN f.units : f.units[i].start < f.units[i].stop
  /\ \A i, j \in DOMAIN f.units : i < j => f.units[i].stop <= f.units[j].start
  /\ DOMAIN f.dies \subseteq Nat
  /\ \A a \in DOMAIN f.dies :
       /\ f.dies[a].tag \in Tags
       /\ f.dies[a].size \in Number \cup {Unknown}
       /\ f.dies[a].type.to \in Nat
       /\ f.dies[a].children \in Seq(ToSet(f.dies[a].children))
       /\ \A i \in DOMAIN f.dies[a].children : IsChild(f.dies[a].children[i])
  /\ f.target \in TargetSet

VARIABLES info,    \* the input
          pc,      \* "structure", "members", "type", "unwind" or "done"
          at,      \* the node to look at
          visited, \* the nodes of this chain, in order
          owner,   \* the structure
          k,       \* its child to look at
          open,    \* arrays whose element type is not known yet
          type,    \* the type read, while the arrays around it are closed
          members, \* the members read
          what     \* "none", or as in DwarfScan "parsed", "broken", "limit"

vars == <<info, pc, at, visited, owner, k, open, type, members, what>>

NoNode == [unit |-> 0, at |-> 0]

NoType ==
  [kind |-> "other", bytes |-> Unknown, elem |-> "none", width |-> Unknown, count |-> Unknown]

Begin ==
  /\ pc = "structure"
  /\ at = info.found
  /\ visited = <<>>
  /\ owner = NoNode
  /\ k = 1
  /\ open = <<>>
  /\ type = NoType
  /\ members = {}
  /\ what = "none"

Init == info \in Infos /\ Begin

Stop(outcome) ==
  /\ pc' = "done"
  /\ what' = outcome
  /\ UNCHANGED <<info, at, visited, owner, k, open, type, members>>

(***************************************************************************)
(* References.                                                             *)
(***************************************************************************)
\* Behind its header, and before its end.
InUnit(u, a) == info.units[u].start < a /\ a < info.units[u].stop

Exists(n) == n.at \in DOMAIN info.dies /\ InUnit(n.unit, n.at)

Die(n) == info.dies[n.at]

(* attribute_die_ref; load_unit_at takes the last unit that starts before. *)
UnitAt(a) ==
  LET before == {u \in DOMAIN info.units : info.units[u].start <= a}
  IN  IF before # {} /\ InUnit(Max(before), a) THEN Max(before) ELSE 0

\* Wrong variant: a relative reference is counted from the first unit read.
Referent_StaleUnit(unit, ref) ==
  CASE ref.form = "unit" -> [unit |-> info.found.unit, at |-> info.units[info.found.unit].start + ref.to]
    [] ref.form = "info" /\ UnitAt(ref.to) # 0 -> [unit |-> UnitAt(ref.to), at |-> ref.to]
    [] OTHER -> NoNode

Referent(unit, ref) ==
  CASE ref.form = "unit" -> [unit |-> unit, at |-> info.units[unit].start + ref.to]
    [] ref.form = "info" /\ UnitAt(ref.to) # 0 -> [unit |-> UnitAt(ref.to), at |-> ref.to]
    [] OTHER -> NoNode

Next1(n) == Referent(n.unit, Die(n).type)

(***************************************************************************)
(* resolve_structure and resolve_type: the step from node to node.  The    *)
(* depth is the number of nodes visited in this chain.                     *)
(***************************************************************************)
Chasing == pc \in {"structure", "type"}

TooDeep ==
  /\ Chasing
  /\ Len(visited) >= MaxDepth
  /\ Stop("limit")

Cycle ==
  /\ Chasing
  /\ Len(visited) < MaxDepth
  /\ at \in ToSet(visited)
  /\ Stop("broken")

Fresh == Chasing /\ Len(visited) < MaxDepth /\ at \notin ToSet(visited)

NoEntry ==
  /\ Fresh
  /\ ~ Exists(at)
  /\ Stop("broken")

At(tags) == Fresh /\ Exists(at) /\ Die(at).tag \in tags

Refers == At({"alias"}) \/ (pc = "type" /\ At({"array"}))

BadReference ==
  /\ Refers
  /\ Next1(at) = NoNode
  /\ Stop("broken")

Follow ==
  /\ Refers
  /\ Next1(at) # NoNode
  /\ at' = Next1(at)
  /\ visited' = Append(visited, at)
  /\ open' = IF Die(at).tag = "array" THEN Append(open, at) ELSE open
  /\ UNCHANGED <<info, pc, owner, k, type, members, what>>

NotAStructure ==
  /\ pc = "structure"
  /\ At(Tags \ {"alias", "structure"})
  /\ Stop("broken")

(***************************************************************************)
(* parse_structure.                                                        *)
(***************************************************************************)
IsComplete(die) ==
  ~ die.declared /\ die.size # Unknown /\ ValidSize([size |-> die.size])

Incomplete ==
  /\ pc = "structure"
  /\ At({"structure"})
  /\ ~ IsComplete(Die(at))
  /\ Stop("broken")

StartMembers ==
  /\ pc = "structure"
  /\ At({"structure"})
  /\ IsComplete(Die(at))
  /\ owner' = at
  /\ pc' = "members"
  /\ UNCHANGED <<info, at, visited, k, open, type, members, what>>

AtChild == pc = "members" /\ k <= Len(Die(owner).children)

Child == Die(owner).children[k]

IsWanted(c) == c.tag = "member" /\ c.name \in WantedNames(info.target)

SkipChild ==
  /\ AtChild
  /\ ~ IsWanted(Child)
  /\ Child.tag = "member" => Child.name \notin {"undecodable", "overlong"}
  /\ k' = k + 1
  /\ UNCHANGED <<info, pc, at, visited, owner, open, type, members, what>>

\* entry_name fails before it is known whether the member is wanted.
BadName ==
  /\ AtChild
  /\ Child.tag = "member" /\ Child.name \in {"undecodable", "overlong"}
  /\ Stop(IF Child.name = "overlong" THEN "limit" ELSE "broken")

\* A location is a constant or, the same, an expression that adds one.
HasLocation(c) == c.location.form \in {"constant", "plus"}

BadMember ==
  /\ AtChild
  /\ IsWanted(Child)
  /\ ~ HasLocation(Child) \/ Referent(owner.unit, Child.type) = NoNode
  /\ Stop("broken")

StartType ==
  /\ AtChild
  /\ IsWanted(Child)
  /\ HasLocation(Child)
  /\ Referent(owner.unit, Child.type) # NoNode
  /\ at' = Referent(owner.unit, Child.type)
  /\ visited' = <<>>
  /\ pc' = "type"
  /\ UNCHANGED <<info, owner, k, open, type, members, what>>

(***************************************************************************)
(* The type at the end, and the arrays around it from the inside out.      *)
(***************************************************************************)
KindOf(die) ==
  IF die.tag = "base" THEN (IF die.unsigned THEN "unsigned" ELSE "signed") ELSE die.tag

LeafType(die) ==
  [NoType EXCEPT !.kind = KindOf(die),
                 !.bytes = IF die.tag = "pointer" /\ die.size = Unknown THEN Word ELSE die.size]

Leaf ==
  /\ pc = "type"
  /\ At(Tags \ {"alias", "array"})
  /\ type' = LeafType(Die(at))
  /\ pc' = "unwind"
  /\ UNCHANGED <<info, at, visited, owner, k, open, members, what>>

Subranges(die) == {i \in DOMAIN die.children : die.children[i].tag = "subrange"}

Lower(c) == IF c.lower = Unknown THEN 0 ELSE c.lower

Bounds(c) == c.upper - Lower(c) + 1

Contradicts(c) ==
  /\ c.upper # Unknown
  /\ Bounds(c) \notin Number \/ c.count \notin {Unknown, Bounds(c)}

IsOpenEnded(c) == c.count = Unknown /\ c.upper = Unknown

Length(c) == IF c.count = Unknown THEN Bounds(c) ELSE c.count

(* A dimension without a length ends the reading of the others.            *)
OpenDimensions(die) == {i \in Subranges(die) : IsOpenEnded(die.children[i])}

Invalid(die) ==
  \E i \in Subranges(die) :
    Contradicts(die.children[i]) /\ \A j \in OpenDimensions(die) : i < j

\* checked_mul, on what may be unknown already
Times(m, n) ==
  IF Unknown \in {m, n} THEN Unknown ELSE IF m * n > AddrMax THEN Unknown ELSE m * n

ElementCount(die) ==
  LET product[i \in 0 .. Len(die.children)] ==
        IF i = 0 THEN 1
        ELSE IF i \in Subranges(die) THEN Times(product[i - 1], Length(die.children[i]))
        ELSE product[i - 1]
  IN  IF Subranges(die) = {} \/ OpenDimensions(die) # {} THEN Unknown
      ELSE product[Len(die.children)]

ArrayType(die, element) ==
  [kind |-> "array",
   bytes |-> IF die.size # Unknown THEN die.size ELSE Times(element.bytes, ElementCount(die)),
   elem |-> element.kind, width |-> element.bytes, count |-> ElementCount(die)]

BadDimensions ==
  /\ pc = "unwind" /\ open # <<>>
  /\ Invalid(Die(Last(open)))
  /\ Stop("broken")

CloseArray ==
  /\ pc = "unwind" /\ open # <<>>
  /\ ~ Invalid(Die(Last(open)))
  /\ type' = ArrayType(Die(Last(open)), type)
  /\ open' = Front(open)
  /\ UNCHANGED <<info, pc, at, visited, owner, k, members, what>>

MemberOf(c, ty) ==
  [name |-> c.name, offset |-> c.location.offset, kind |-> ty.kind, bytes |-> ty.bytes,
   elem |-> ty.elem, width |-> ty.width, count |-> ty.count]

AddMember ==
  /\ pc = "unwind" /\ open = <<>>
  /\ members' = members \cup {MemberOf(Child, type)}
  /\ type' = NoType
  /\ k' = k + 1
  /\ pc' = "members"
  /\ UNCHANGED <<info, at, visited, owner, open, what>>

StructureRead ==
  /\ pc = "members" /\ k > Len(Die(owner).children)
  /\ Stop("parsed")

Next ==
  \/ TooDeep \/ Cycle \/ NoEntry \/ BadReference \/ Follow
  \/ NotAStructure \/ Incomplete \/ StartMembers
  \/ SkipChild \/ BadName \/ BadMember \/ StartType
  \/ Leaf \/ BadDimensions \/ CloseArray \/ AddMember \/ StructureRead

Spec == Init /\ [][Next]_vars

-----------------------------------------------------------------------------
TypeOK ==
  /\ IsInfo(info)
  /\ pc \in {"structure", "members", "type", "unwind", "done"}
  /\ Len(visited) <= MaxDepth
  /\ ToSet(open) \subseteq ToSet(visited)
  /\ \A m \in members : IsMember(m)
  /\ what \in {"none", "parsed", "broken", "limit"}
  /\ (what = "none") = (pc # "done")

(***************************************************************************)
(* What the definition means in C, which is not in the file: info.c is     *)
(* [fields, fault, deep, path, paths].  fields has the members in C, each  *)
(* at the index of its child, with a name, an offset and a type, which is  *)
(* [layers, kind, bytes]: from the outside in, a typedef <<>> or the       *)
(* dimensions of an array, and what they are of.  A dimension of an array  *)
(* stands at the index of its child too, 1 at any other; <<Unknown>> is    *)
(* an array of no known length.                                            *)
(***************************************************************************)
\* How many the first i dimensions make.
Elements(dims) ==
  LET n[i \in 0 .. Len(dims)] == IF i = 0 THEN 1 ELSE n[i - 1] * dims[i]
  IN  n

Count(dims) ==
  IF dims = <<Unknown>> \/ \E i \in DOMAIN dims : Elements(dims)[i] > AddrMax
    THEN Unknown ELSE Elements(dims)[Len(dims)]

ArrayOf(dims, ty) ==
  [kind |-> "array", bytes |-> Times(ty.bytes, Count(dims)),
   elem |-> ty.kind, width |-> ty.bytes, count |-> Count(dims)]

\* The type that the m innermost layers make.
Inner(ty) ==
  LET layer(m) == ty.layers[Len(ty.layers) - m + 1]
      inner[m \in 0 .. Len(ty.layers)] ==
        IF m = 0 THEN [NoType EXCEPT !.kind = ty.kind, !.bytes = ty.bytes]
        ELSE IF layer(m) = <<>> THEN inner[m - 1]
        ELSE ArrayOf(layer(m), inner[m - 1])
  IN  inner

Meant(field) == MemberOf([name |-> field.name, location |-> [offset |-> field.offset]],
                         Inner(field.type)[Len(field.type.layers)])

(* A definition is read as what it means in C, all of its wanted members   *)
(* and no other, however it is spread over units and typedefs and however  *)
(* its members share types; one that is damaged is never taken for         *)
(* another; and none is refused that is whole and within the limit.        *)
DefinitionIsMeant ==
  /\ what = "parsed" =>
       /\ ~ info.c.fault /\ ~ info.c.deep
       /\ members = {Meant(info.c.fields[i]) :
                       i \in {j \in DOMAIN info.c.fields :
                               info.c.fields[j].name \in WantedNames(info.target)}}
  /\ what = "broken" => info.c.fault
  /\ what = "limit" => info.c.deep

(***************************************************************************)
(* How C is written down as DIEs, by relations and not by a reader's steps.*)
(* path has the nodes from where the definition is found to its structure, *)
(* paths[i] those of the type of child i; a path ends where nothing more   *)
(* can be followed, or when it is too long already.                        *)
(***************************************************************************)
Nodes(f) == [unit : DOMAIN f.units, at : Nat]

Within(f, u, a) == f.units[u].start < a /\ a < f.units[u].stop

HasDie(f, n) == n.at \in DOMAIN f.dies /\ Within(f, n.unit, n.at)

\* A reference in unit u names the node n, or none.
Leads(f, u, ref, n) ==
  \/ ref.form = "unit" /\ n = [unit |-> u, at |-> f.units[u].start + ref.to]
  \/ ref.form = "info" /\ \E v \in DOMAIN f.units :
                            Within(f, v, ref.to) /\ n = [unit |-> v, at |-> ref.to]

Dangles(f, ref) ==
  /\ ref.form # "unit"
  /\ ref.form = "info" => \A v \in DOMAIN f.units : ~ Within(f, v, ref.to)

IsPath(f, p, tags) ==
  /\ p \in Seq(Nodes(f)) /\ p # <<>>
  /\ \A j \in 1 .. Len(p) - 1 :
       /\ HasDie(f, p[j]) /\ f.dies[p[j].at].tag \in tags
       /\ Leads(f, p[j].unit, f.dies[p[j].at].type, p[j + 1])
       /\ \A i \in 1 .. j - 1 : p[i] # p[j]

Returns(p) == \E i \in 1 .. Len(p) - 1 : p[i] = Last(p)

Exceeds(p) == Len(p) > MaxDepth

Sticks(f, p, tags) ==
  /\ ~ Exceeds(p)
  /\ \/ Returns(p)
     \/ ~ HasDie(f, Last(p))
     \/ /\ f.dies[Last(p).at].tag \in tags
        /\ Dangles(f, f.dies[Last(p).at].type)

Arrives(f, p, tags) ==
  ~ Exceeds(p) /\ ~ Returns(p) /\ HasDie(f, Last(p)) /\ f.dies[Last(p).at].tag \notin tags

IsWholePath(f, p, tags) ==
  IsPath(f, p, tags) /\ (Exceeds(p) \/ Sticks(f, p, tags) \/ Arrives(f, p, tags))

\* A dimension of n elements: a count, bounds, or both.
HasLength(c, n) ==
  /\ c.count = n \/ (c.count = Unknown /\ c.upper # Unknown)
  /\ c.upper = Unknown \/ c.upper = Lower(c) + n - 1

HasNoLength(c) == ~ IsOpenEnded(c) /\ \A n \in Number : ~ HasLength(c, n)

Contradictory(die) ==
  \E i \in Subranges(die) :
    HasNoLength(die.children[i]) /\ \A j \in OpenDimensions(die) : i < j

HasDims(die, dims) ==
  \/ /\ Subranges(die) = {} \/ OpenDimensions(die) # {}
     /\ ~ Contradictory(die)
     /\ dims = <<Unknown>>
  \/ /\ Subranges(die) # {}
     /\ dims \in Seq(Number) /\ Len(dims) = Len(die.children)
     /\ \A i \in DOMAIN dims :
          IF i \in Subranges(die) THEN HasLength(die.children[i], dims[i]) ELSE dims[i] = 1

\* Layer j of a type. An array may give its size, if it is the right one.
IsLayer(die, ty, j) ==
  \/ die.tag = "alias" /\ ty.layers[j] = <<>>
  \/ /\ die.tag = "array" /\ HasDims(die, ty.layers[j])
     /\ die.size \in {Unknown, Inner(ty)[Len(ty.layers) - j + 1].bytes}

IsLeaf(die, ty) ==
  /\ ty.kind = IF die.tag # "base" THEN die.tag ELSE IF die.unsigned THEN "unsigned" ELSE "signed"
  /\ ty.bytes = IF die.tag = "pointer" /\ die.size = Unknown THEN Word ELSE die.size

IsWritten(f, ty, p) ==
  /\ Arrives(f, p, {"alias", "array"})
  /\ ty.layers \in Seq(ToSet(ty.layers)) /\ Len(ty.layers) = Len(p) - 1
  /\ \A j \in 1 .. Len(ty.layers) : IsLayer(f.dies[p[j].at], ty, j)
  /\ IsLeaf(f.dies[Last(p).at], ty)

Structure(f) == f.dies[Last(f.c.path).at]

Asked(f, c) == c.tag = "member" /\ c.name \in WantedNames(f.target)

\* The type of a wanted child can be reached, and paths says how.
Starts(f, i) ==
  LET c == Structure(f).children[i]
  IN  /\ HasLocation(c) /\ ~ Dangles(f, c.type)
      /\ Leads(f, Last(f.c.path).unit, c.type, f.c.paths[i][1])
      /\ IsWholePath(f, f.c.paths[i], {"alias", "array"})

IsRead(f, i) ==
  LET c == Structure(f).children[i]
  IN  c.tag = "member" =>
        /\ c.name \notin {"undecodable", "overlong"}
        /\ i \in DOMAIN f.c.fields /\ f.c.fields[i].name = c.name
        /\ Asked(f, c) => /\ f.c.fields[i].offset = c.location.offset
                          /\ Starts(f, i)
                          /\ IsWritten(f, f.c.fields[i].type, f.c.paths[i])

IsDamaged(f, i) ==
  LET c == Structure(f).children[i]
      p == f.c.paths[i]
  IN  \/ c.tag = "member" /\ c.name = "undecodable"
      \/ Asked(f, c) /\ (~ HasLocation(c) \/ Dangles(f, c.type))
      \/ /\ Asked(f, c) /\ Starts(f, i)
         /\ \/ Sticks(f, p, {"alias", "array"})
            \/ /\ Arrives(f, p, {"alias", "array"})
               /\ \E j \in 1 .. Len(p) - 1 :
                    f.dies[p[j].at].tag = "array" /\ Contradictory(f.dies[p[j].at])

IsTooDeep(f, i) ==
  LET c == Structure(f).children[i]
  IN  \/ c.tag = "member" /\ c.name = "overlong"
      \/ Asked(f, c) /\ Starts(f, i) /\ Exceeds(f.c.paths[i])

IsStructure(die) == die.tag = "structure" /\ IsComplete(die)

\* Up to the first child that cannot be read; one decides for all.
ChildrenAreC(f) ==
  LET n == Len(Structure(f).children)
  IN  /\ \A i \in 1 .. n : (\A j \in 1 .. i - 1 : IsRead(f, j)) =>
           \/ IsRead(f, i)
           \/ IsDamaged(f, i) /\ f.c.fault
           \/ IsTooDeep(f, i) /\ f.c.deep
      /\ (\A i \in 1 .. n : IsRead(f, i)) =>
           /\ ~ f.c.fault /\ ~ f.c.deep
           /\ DOMAIN f.c.fields = {i \in 1 .. n : Structure(f).children[i].tag = "member"}

IsC(f) ==
  /\ IsWholePath(f, f.c.path, {"alias"}) /\ f.c.path[1] = f.found
  /\ Exceeds(f.c.path) => f.c.deep
  /\ Sticks(f, f.c.path, {"alias"}) => f.c.fault
  /\ Arrives(f, f.c.path, {"alias"}) =>
       IF IsStructure(Structure(f)) THEN ChildrenAreC(f) ELSE f.c.fault

InfosOK ==
  /\ \A f \in Infos : IsInfo(f) /\ IsC(f)
  /\ MaxDepth \in Nat \ {0}
=============================================================================
