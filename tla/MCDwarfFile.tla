---------------------------- MODULE MCDwarfFile ----------------------------
(***************************************************************************)
(* Debug files of a machine with words of two bytes and numbers up to 15,  *)
(* in four families.                                                       *)
(*                                                                         *)
(* Files of three units: the first defines malloc_par and heap_info, the   *)
(* other two hold up to two DIEs each, equal, conflicting, invalid, broken *)
(* and limit-exceeding definitions of malloc_state, the tcache structure,  *)
(* an unrelated DIE and one with an undecodable name. A few files more     *)
(* have no unit, one too many, or one of an unsupported kind.              *)
(*                                                                         *)
(* Files of two units, the first with one structure whose fields lie at    *)
(* every offset that matters: aligned, misaligned, overlapping, across the *)
(* end of the structure and at the end of the numbers; array shapes do not *)
(* fit their size, members are missing or there twice.                     *)
(*                                                                         *)
(* Files with a definition of malloc_state still to be read, of up to two  *)
(* wanted members that may share a type, behind up to three typedefs, in   *)
(* one unit or spread over two in either direction, whole or damaged in    *)
(* any one place; chains of up to three references may be followed.        *)
(*                                                                         *)
(* Files of up to three sections, plain and compressed in both ways, with  *)
(* ranges outside the file and wrong claims.                               *)
(***************************************************************************)
EXTENDS DwarfFile

Field(name, offset, kind, bytes) ==
  [name |-> name, offset |-> offset, kind |-> kind, bytes |-> bytes,
   elem |-> "none", width |-> Unknown, count |-> Unknown]

ArrayField(name, offset, elem, s) ==
  [name |-> name, offset |-> offset, kind |-> "array", bytes |-> s[1],
   elem |-> elem, width |-> s[2], count |-> s[3]]

Struct(size, ms) == [size |-> size, members |-> ms]

StateOf(size, shape, f, t, n) ==
  Struct(size, {ArrayField("fastbinsY", f, "pointer", shape),
                Field("top", t, "pointer", 2), Field("next", n, "pointer", 2)})

HeapOf(p, s, b, m) ==
  Struct(8, {Field("ar_ptr", 0, "pointer", 2), Field("prev", p, "pointer", 2),
             Field("size", s, "unsigned", b), Field("mprotect_size", m, "unsigned", 2)})

TcacheOf(c, e, x, f, s) ==
  Struct(8, {ArrayField("counts", c, e, x), ArrayField("entries", f, "pointer", s)})

D(name, id, w, s) == [name |-> name, id |-> id, what |-> w, struct |-> s]

GoodPar == Struct(8, {Field("sbrk_base", 0, "pointer", 2)})
GoodHeap == HeapOf(2, 4, 2, 6)
GoodState == StateOf(8, <<4, 2, 2>>, 0, 4, 6)
GoodTcache == TcacheOf(0, "unsigned", <<2, 1, 2>>, 2, <<4, 2, 2>>)
Empty == Struct(8, {})

Par == D("malloc_par", 1, "parsed", GoodPar)
HeapInfo == D("heap_info", 2, "parsed", GoodHeap)
State == D("malloc_state", 3, "parsed", GoodState)

Dies ==
  {State,
   D("malloc_state", 4, "parsed", GoodState),      \* the same layout again
   D("malloc_state", 5, "parsed",
     StateOf(8, <<4, 2, 2>>, 0, 6, 4)),            \* a conflicting one
   D("malloc_state", 6, "parsed", Empty),
   D("malloc_state", 7, "broken", GoodState),
   D("malloc_state", 8, "limit", GoodState),
   D("tcache_perthread_struct", 3, "parsed", GoodTcache),
   D("other", 1, "parsed", Empty),
   D("undecodable", 1, "parsed", Empty)}

Unit(ds) == [kind |-> "compile", dies |-> ds]

Base == Unit(<<Par, HeapInfo>>)

SomeDies == BoundedSeq(Dies, 2)

OddUnits ==
  {<<>>, <<Base, Base, Base, Base>>,
   <<Base, [kind |-> "type", dies |-> <<State>>]>>,
   <<Base, Unit(<<State>>), [kind |-> "dwo", dies |-> <<>>]>>}

ScanFiles ==
  [tcache : BOOLEAN, units : OddUnits]
    \cup [tcache : BOOLEAN,
          units : {<<Base, Unit(a), Unit(b)>> : a \in SomeDies, b \in SomeDies}]

-----------------------------------------------------------------------------
Offsets == {0, 2, 3, 4, 6, 15}

\* <<bytes, width, count>>
Shapes ==
  {<<2, 2, 1>>, <<4, 2, 2>>, <<6, 2, 3>>, <<4, 1, 4>>, <<2, 2, 2>>, <<6, 2, 2>>,
   <<0, 2, 0>>, <<4, Unknown, 2>>, <<4, 2, Unknown>>, <<Unknown, 2, 2>>, <<4, 8, 4>>}

States ==
  {StateOf(size, s, f, t, n) :
     size \in {7, 8}, s \in Shapes, f \in Offsets, t \in Offsets, n \in Offsets}

Pars ==
  {Struct(8, {Field("sbrk_base", b, kind, 2)} \cup rest) :
     b \in Offsets, kind \in {"pointer", "unsigned"},
     rest \in SUBSET ({Field("arena_max", o, "unsigned", 2) : o \in {0, 4}}
                        \cup {Field("tcache_bins", 6, "unsigned", n) : n \in {1, 2}})}

Heaps ==
  {HeapOf(p, s, b, m) :
     p \in Offsets, s \in Offsets, m \in Offsets, b \in {2, 4, Unknown}}

Tcaches ==
  {TcacheOf(c, e, x, f, s) :
     c \in {0, 2, 4}, e \in {"unsigned", "signed", "pointer"},
     f \in {0, 1, 2, 4, 7}, s \in Shapes,
     x \in {<<1, 1, 1>>, <<2, 1, 2>>, <<4, 2, 2>>, <<2, 2, 1>>, <<3, 3, 1>>, <<0, 1, 0>>}}

Tcache == D("tcache_perthread_struct", 4, "parsed", GoodTcache)

\* A structure for one target, and sound ones for the others.
With(t, s, others) ==
  [tcache |-> TRUE, units |-> <<Unit(<<D(t, 5, "parsed", s)>>), Unit(others)>>]

LayoutFiles ==
  {With("malloc_state", s, <<Par, HeapInfo, Tcache>>) : s \in States}
    \cup {With("malloc_par", s, <<State, HeapInfo, Tcache>>) : s \in Pars}
    \cup {With("heap_info", s, <<State, Par, Tcache>>) : s \in Heaps}
    \cup {With("tcache_perthread_struct", s, <<State, Par, HeapInfo>>) : s \in Tcaches}

-----------------------------------------------------------------------------
(* A C declaration is [aliases, types, fields]: the typedefs in front of   *)
(* the structure, and types as [layers, kind, bytes], where a layer is     *)
(* Alias or the dimensions of an array, and the leaf gives its size only   *)
(* if it is not a pointer.  A field is [name, offset, type].  Its DIEs are *)
(* numbered, the structure first, then type by type, and placed by style.  *)
Alias == <<>>

C(layers, kind, bytes) == [layers |-> layers, kind |-> kind, bytes |-> bytes]

F(name, offset, ty) == [name |-> name, offset |-> offset, type |-> ty]

Decl(aliases, types, fields) == [aliases |-> aliases, types |-> types, fields |-> fields]

FirstOf(c, ty) ==
  c.aliases + 2 + (IF ty = 1 THEN 0 ELSE Len(c.types[1].layers) + 1)

DieCount(c) == FirstOf(c, Len(c.types)) + Len(c.types[Len(c.types)].layers)

Styles == {"one", "two", "back", "absolute"}

UnitOf(style, i) ==
  CASE style \in {"one", "absolute"} -> 2
    [] style = "two" -> 1 + (i % 2)
    [] style = "back" -> 2 - (i % 2)

Units == <<[start |-> 0, stop |-> 20], [start |-> 20, stop |-> 40]>>

NodeAt(style, i) ==
  [unit |-> UnitOf(style, i), at |-> Units[UnitOf(style, i)].start + i]

Ref(style, i, j) ==
  IF UnitOf(style, i) = UnitOf(style, j) /\ style # "absolute"
    THEN [form |-> "unit", to |-> j]
    ELSE [form |-> "info", to |-> NodeAt(style, j).at]

NoRef == [form |-> "none", to |-> 0]

DieOf(tag, size, ref, children) ==
  [tag |-> tag, size |-> size, unsigned |-> tag = "base", declared |-> FALSE,
   type |-> ref, children |-> children]

\* A dimension may be written as a count, as bounds, or both, or have no length.
Subrange(n, i) ==
  IF n = Unknown THEN [tag |-> "subrange", count |-> n, lower |-> n, upper |-> n] ELSE
  [tag |-> "subrange", count |-> IF i % 3 = 1 THEN Unknown ELSE n,
   lower |-> IF i % 2 = 0 THEN 1 ELSE Unknown,
   upper |-> IF i % 3 = 0 THEN Unknown ELSE IF i % 2 = 0 THEN n ELSE n - 1]

OtherChild == [tag |-> "other"]

MemberDie(c, style, f) ==
  [tag |-> "member", name |-> f.name,
   location |-> [form |-> IF f.offset = 0 THEN "constant" ELSE "plus", offset |-> f.offset],
   type |-> Ref(style, c.aliases + 1, FirstOf(c, f.type))]

StructureDie(c, style) ==
  DieOf("structure", 8, NoRef,
        <<OtherChild>> \o [i \in DOMAIN c.fields |-> MemberDie(c, style, c.fields[i])])

TypeDie(ty, style, i, first) ==
  LET n == i - first + 1
  IN  IF n > Len(ty.layers)
        THEN DieOf(IF ty.kind = "unsigned" THEN "base" ELSE ty.kind,
                   IF ty.kind = "pointer" THEN Unknown ELSE ty.bytes, NoRef, <<>>)
        ELSE DieOf(IF ty.layers[n] = Alias THEN "alias" ELSE "array", Unknown,
                   Ref(style, i, i + 1),
                   [d \in DOMAIN ty.layers[n] |-> Subrange(ty.layers[n][d], i + d)])

DieNumber(c, style, i) ==
  IF i <= c.aliases THEN DieOf("alias", Unknown, Ref(style, i, i + 1), <<>>)
  ELSE IF i = c.aliases + 1 THEN StructureDie(c, style)
  ELSE LET ty == IF Len(c.types) = 2 /\ i >= FirstOf(c, 2) THEN 2 ELSE 1
       IN  TypeDie(c.types[ty], style, i, FirstOf(c, ty))

Encoded(c, style) ==
  [a \in {NodeAt(style, i).at : i \in 1 .. DieCount(c)} |->
     DieNumber(c, style, CHOOSE i \in 1 .. DieCount(c) : NodeAt(style, i).at = a)]

(* The paths of a definition, each followed to where it ends.  The files   *)
(* are still being made here, so there are none yet to speak of.           *)
Encoding == INSTANCE DwarfTypes WITH Infos <- {}, pc <- step, k <- child

Referred(f, of, ref) ==
  {n \in [unit : DOMAIN Units, at : {ref.to, Units[of.unit].start + ref.to}] :
     Encoding!Leads(f, of.unit, ref, n)}

Extend(f, p, tags) ==
  LET more == IF \/ Encoding!Returns(p) \/ ~ Encoding!HasDie(f, Last(p))
                 \/ f.dies[Last(p).at].tag \notin tags
                THEN {} ELSE Referred(f, Last(p), f.dies[Last(p).at].type)
  IN  IF more = {} THEN p ELSE Append(p, CHOOSE n \in more : TRUE)

Path(f, n, tags) ==
  LET path[i \in 0 .. MaxDepth] == IF i = 0 THEN <<n>> ELSE Extend(f, path[i - 1], tags)
  IN  path[MaxDepth]

ChildPath(f, of, c) ==
  LET first == IF c.tag = "member" THEN Referred(f, of, c.type) ELSE {}
  IN  IF first = {} THEN <<>> ELSE Path(f, CHOOSE n \in first : TRUE, {"alias", "array"})

\* fault and deep say what the damage amounts to.
InfoOf(c, style, damaged, fault, deep) ==
  LET f == [units |-> Units, dies |-> damaged]
      path == Path(f, NodeAt(style, 1), {"alias"})
      children == damaged[NodeAt(style, c.aliases + 1).at].children
  IN  [units |-> Units, dies |-> damaged, found |-> NodeAt(style, 1), target |-> "malloc_state",
       c |-> [fields |-> [i \in 2 .. Len(c.fields) + 1 |->
                            [c.fields[i - 1] EXCEPT !.type = c.types[@]]],
              path |-> path,
              paths |-> [i \in DOMAIN children |->
                           ChildPath(f, NodeAt(style, c.aliases + 1), children[i])],
              fault |-> fault, deep |-> deep]]

IsDeep(c) ==
  \/ c.aliases + 1 > MaxDepth
  \/ \E f \in ToSet(c.fields) :
       f.name \in WantedNames("malloc_state") /\ Len(c.types[f.type].layers) + 1 > MaxDepth

Layers ==
  {<<>>, <<Alias>>, <<Alias, Alias>>, <<Alias, Alias, Alias>>,
   <<<<2>>>>, <<<<2, 3>>>>, <<<<3, 7>>>>, <<<<2>>, Alias>>, <<Alias, <<2>>>>, <<<<2>>, <<3>>>>,
   <<<<Unknown>>>>}

Fields ==
  {<<F("top", 4, 1), F("next", 6, 1)>>, <<F("fastbinsY", 0, 1), F("top", 4, 2), F("next", 6, 2)>>,
   <<F("mutex", 0, 1), F("top", 2, 2)>>}

Decls ==
  {Decl(a, <<C(l, "pointer", 2), C(<<Alias>>, "pointer", 2)>>, fs) :
     a \in 0 .. 3, l \in Layers, fs \in Fields}
    \cup {Decl(0, <<C(l, kind, 1), C(<<>>, "pointer", 2)>>, fs) :
            l \in Layers, kind \in {"unsigned", "structure"}, fs \in Fields}

Whole == {InfoOf(c, style, Encoded(c, style), FALSE, IsDeep(c)) : c \in Decls, style \in Styles}

\* One place of a definition damaged: the reference of one DIE, ...
Damaged ==
  Decl(1, <<C(<<Alias, <<2>>>>, "pointer", 2), C(<<Alias>>, "pointer", 2)>>,
       <<F("fastbinsY", 0, 1), F("top", 4, 2)>>)

Broken(style, i, die) ==
  InfoOf(Damaged, style, [Encoded(Damaged, style) EXCEPT ![NodeAt(style, i).at] = die], TRUE, FALSE)

Refers(i) == i \in {1, 3, 4, 6}

BadRefs == {NoRef} \cup [form : {"signature"}, to : {0}]
             \cup [form : {"info"}, to : {0, 20, 19, 39, 40}]
             \cup [form : {"unit"}, to : {0, 19, 25}]

Dangling ==
  {Broken(style, i, [DieNumber(Damaged, style, i) EXCEPT !.type = ref]) :
     style \in Styles, i \in {j \in 1 .. 7 : Refers(j)}, ref \in BadRefs}

Cycles ==
  {Broken(style, w[1], [DieNumber(Damaged, style, w[1]) EXCEPT !.type = Ref(style, w[1], w[2])]) :
     style \in Styles, w \in {<<1, 1>>, <<3, 3>>, <<4, 3>>, <<4, 4>>, <<6, 6>>}}

\* ... what the structure says of itself, ...
BadStructures ==
  {Broken(style, 2, [DieNumber(Damaged, style, 2) EXCEPT ![w[1]] = w[2]]) :
     style \in Styles,
     w \in {<<"declared", TRUE>>, <<"size", Unknown>>, <<"size", 7>>, <<"tag", "base">>}}

BadMembers ==
  {Broken(style, 2, [DieNumber(Damaged, style, 2) EXCEPT !.children[i] = m]) :
     style \in {"one", "two"}, i \in {2, 3},
     m \in {[MemberDie(Damaged, "one", F("top", 4, 1)) EXCEPT !.location.form = "block"],
            [MemberDie(Damaged, "one", F("top", 4, 1)) EXCEPT !.type = NoRef],
            [MemberDie(Damaged, "one", F("top", 4, 1)) EXCEPT !.name = "undecodable"]}}

\* ... and the bounds of its array.
BadBounds ==
  {Broken(style, 4, [DieNumber(Damaged, style, 4) EXCEPT !.children = dims]) :
     style \in {"one", "two"},
     dims \in {<<[tag |-> "subrange", count |-> 2, lower |-> 0, upper |-> 2]>>,
               <<[tag |-> "subrange", count |-> Unknown, lower |-> 3, upper |-> 1]>>,
               <<Subrange(2, 1), [tag |-> "subrange", count |-> 1, lower |-> 2, upper |-> 1]>>}}

Overlong ==
  {InfoOf(Damaged, "one",
          [Encoded(Damaged, "one") EXCEPT ![NodeAt("one", 2).at].children[1] =
             [MemberDie(Damaged, "one", F("overlong", 0, 1)) EXCEPT !.type = NoRef]],
          FALSE, TRUE)}

MCInfos ==
  Whole \cup Dangling \cup Cycles \cup BadStructures \cup BadMembers \cup BadBounds \cup Overlong

-----------------------------------------------------------------------------
Section(name, legacy, flag, start, size, header, declared, actual) ==
  [name |-> name, legacy |-> legacy, flag |-> flag, start |-> start, size |-> size,
   header |-> header, declared |-> declared, actual |-> actual]

Plain(name, start, size) == Section(name, FALSE, FALSE, start, size, "short", 0, 0)

SomeSections(name) ==
  {Plain(name, w[1], w[2]) : w \in {<<0, 0>>, <<4, 2>>, <<4, 5>>, <<7, 4>>, <<15, 1>>}}
    \cup {Section(name, w, ~ w, 2, 2, "zlib", d, a) :
            w \in BOOLEAN, d \in {0, 2, 4, 5, 15}, a \in {0, 2, 4, 9, Corrupt}}
    \cup {Section(name, TRUE, w, 2, 2, h, 2, 2) : w \in BOOLEAN, h \in {"zlib", "short", "foreign"}}
    \cup {Section(name, FALSE, TRUE, 2, 2, h, 2, 2) : h \in {"short", "foreign"}}

TheInfo == Plain(".debug_info", 2, 2)

GoodElf == [sections |-> <<TheInfo>>, bytes |-> 10]

MCElfs ==
  {GoodElf} \cup
  {[sections |-> ss, bytes |-> 10] :
     ss \in {<<x, y>> : x \in SomeSections(".debug_info"),
                        y \in UNION {SomeSections(n) : n \in {".debug_info", ".debug_str"}}}
         \cup {<<x, TheInfo, y>> : x \in {Plain(".text", 0, 5), Plain(".text", 15, 1)}, y \in SomeSections(".debug_types")}
         \cup {<<x, TheInfo, y>> : x \in SomeSections(".debug_str"), y \in SomeSections(".debug_line")}}

-----------------------------------------------------------------------------
GoodInfo == CHOOSE i \in Whole : ~ i.c.deep

Unread == D("malloc_state", 5, "unread", Empty)

Waiting == {[tcache |-> FALSE, units |-> <<Unit(<<Unread>>), Base>>]}

Small == {[tcache |-> FALSE, units |-> <<Unit(<<State>>)>>]}

MCDebugFiles == ScanFiles \cup LayoutFiles \cup Waiting \cup Small

MCInputs ==
  {[elfs |-> {GoodElf}, files |-> ScanFiles \cup LayoutFiles, infos |-> {GoodInfo}],
   [elfs |-> {GoodElf}, files |-> Waiting, infos |-> MCInfos],
   [elfs |-> MCElfs, files |-> Small, infos |-> {GoodInfo}]}
=============================================================================
