------------------------------- MODULE Locate -------------------------------
(***************************************************************************)
(* Which libc is read and where it was loaded: the choice of the reference *)
(* file in analyze_core_with_debug, and locate.rs with its two locators.   *)
(*                                                                         *)
(* The process mapped versions of library files; since then the files on   *)
(* disk may have been replaced or removed.  setup.version is the version   *)
(* mapped at an address, which the tool knows only by comparing what the   *)
(* core holds of its first page with the reference.                        *)
(***************************************************************************)
EXTENDS NoteWalk

CONSTANTS Path,      \* path names, without the " (deleted)" suffix
          LibcPaths, \* those for which looks_like_libc holds
          Version,   \* versions of library files
          Library,   \* Version -> the file: an image of NoteWalk
          NoPath,    \* an option that is not given, a file that is missing
          Window,    \* IDENTITY_WINDOW
          Setups     \* the cores, disks and options the tool may meet

IsMapping(m) ==
  /\ m.start \in Nat
  /\ m.offset \in Nat
  /\ m.path \in Path
  /\ m.deleted \in BOOLEAN

IsSetup(s) ==
  /\ s.mapped \in Seq(Range(s.mapped))
  /\ \A k \in DOMAIN s.mapped : IsMapping(s.mapped[k])
  /\ \A k \in DOMAIN s.mapped :
       s.version[s.mapped[k].start] \in Version
         /\ s.dumped[s.mapped[k].start] \in Nat \* cells from there in the core
  /\ s.disk \in [Path -> Version \cup {NoPath}]
  /\ {s.libc, s.force} \subseteq Path \cup {NoPath}

ASSUME LocateAssumption ==
  /\ LibcPaths \subseteq Path
  /\ NoPath \notin Path /\ NoPath \notin Version
  /\ DOMAIN Library = Version
  /\ \A v \in Version :
       /\ {"cells", "table", "headers", "written"} \subseteq DOMAIN Library[v]
       /\ Library[v].cells \in Seq(Nat) /\ Library[v].table \in Nat
       /\ IsWritten(Library[v], Library[v].headers, Library[v].written)
  /\ Window \in Nat
  /\ \A s \in Setups : IsSetup(s)

VARIABLES setup,     \* the input
          search,    \* "reference", "locate", "found" or "failed"
          reference, \* the version of the reference libc
          tried,     \* the candidates tried
          located    \* LocatedLibc: load address and verified

locateVars == <<setup, search, reference, tried, located>>

(* A mapping that starts with the ELF header of a library of that name.    *)
IsLibcMapping(m) == m.offset = 0 /\ m.path \in LibcPaths

LibcMappings == {m \in Range(setup.mapped) : IsLibcMapping(m)}

LocateTypeOK ==
  /\ IsSetup(setup)
  /\ search \in {"reference", "locate", "found", "failed"}
  /\ reference \in Version \cup {NoPath}
  /\ tried \subseteq LibcMappings
  /\ located \in [at : {0} \cup {setup.mapped[k].start : k \in DOMAIN setup.mapped},
                  verified : BOOLEAN]

LocateInit ==
  /\ setup \in Setups
  /\ search = "reference"
  /\ reference = NoPath
  /\ tried = {}
  /\ located = [at |-> 0, verified |-> FALSE]

(* --libc, or the path of the first libc mapping of the core as it is on   *)
(* disk now; NoPath when there is none or it cannot be opened.             *)
ReferenceFile ==
  IF setup.libc # NoPath THEN setup.disk[setup.libc]
  ELSE IF LibcMappings = {} THEN NoPath
  ELSE setup.disk[setup.mapped[Min({k \in DOMAIN setup.mapped :
                                      IsLibcMapping(setup.mapped[k])})].path]

NoReference ==
  /\ search = "reference"
  /\ ReferenceFile = NoPath
  /\ search' = "failed"
  /\ UNCHANGED <<setup, reference, tried, located>>

LoadReference ==
  /\ search = "reference"
  /\ ReferenceFile # NoPath
  /\ reference' = ReferenceFile
  /\ search' = "locate"
  /\ UNCHANGED <<setup, tried, located>>

(* compute_identity: the build-id if there is one, else the content hash.  *)
FileId(v) == FirstId(WalkAllNotes(Library[v]))

Smaller(m, n) == IF m <= n THEN m ELSE n

FirstCells(v, n) ==
  SubSeq(Library[v].cells, 1, Smaller(Smaller(n, Window), Len(Library[v].cells)))

(* What the core has of the first page of the mapping at start.            *)
PageAt(start) == FirstCells(setup.version[start], setup.dumped[start])

(* Wrong variant: a library without a build-id matches any other such one. *)
IdentityMatches_NoIdIsEqual(start) ==
  /\ setup.dumped[start] > 0
  /\ RawBuildId([Library[setup.version[start]] EXCEPT !.cells = PageAt(start)])
       = FileId(reference)

(* identity_matches; equal hashes stand for equal bytes.                   *)
IdentityMatches(start) ==
  /\ setup.dumped[start] > 0
  /\ IF FileId(reference) # NoId
     THEN RawBuildId([Library[setup.version[start]] EXCEPT !.cells = PageAt(start)])
            = FileId(reference)
     ELSE PageAt(start) = FirstCells(reference, Window)

(* force_select: by name, whatever the suffix, from file offset 0.         *)
Forced == {m \in Range(setup.mapped) : m.offset = 0 /\ m.path = setup.force}

Lowest(S) == CHOOSE m \in S : \A n \in S : m.start <= n.start

(* libc_candidates: the libc mappings by ascending address.                *)
Untried == LibcMappings \ tried

Candidate == Lowest(Untried)

ForceLocate ==
  /\ search = "locate"
  /\ setup.force # NoPath
  /\ Forced # {}
  /\ located' = [at |-> Lowest(Forced).start, verified |-> FALSE]
  /\ search' = "found"
  /\ UNCHANGED <<setup, reference, tried>>

ForceFails ==
  /\ search = "locate"
  /\ setup.force # NoPath
  /\ Forced = {}
  /\ search' = "failed"
  /\ UNCHANGED <<setup, reference, tried, located>>

CandidateMatches ==
  /\ search = "locate"
  /\ setup.force = NoPath
  /\ Untried # {}
  /\ IdentityMatches(Candidate.start)
  /\ located' = [at |-> Candidate.start, verified |-> TRUE]
  /\ tried' = tried \cup {Candidate}
  /\ search' = "found"
  /\ UNCHANGED <<setup, reference>>

CandidateDiffers ==
  /\ search = "locate"
  /\ setup.force = NoPath
  /\ Untried # {}
  /\ ~ IdentityMatches(Candidate.start)
  /\ tried' = tried \cup {Candidate}
  /\ UNCHANGED <<setup, search, reference, located>>

NoneMatches ==
  /\ search = "locate"
  /\ setup.force = NoPath
  /\ Untried = {}
  /\ search' = "failed"
  /\ UNCHANGED <<setup, reference, tried, located>>

LocateNext ==
  \/ NoReference
  \/ LoadReference
  \/ ForceLocate
  \/ ForceFails
  \/ CandidateMatches
  \/ CandidateDiffers
  \/ NoneMatches

LocateSpec == LocateInit /\ [][LocateNext]_locateVars

-----------------------------------------------------------------------------
(* Properties.                                                             *)

(* The build-id a version was linked with, and the header it is behind.    *)
LinkedId(v) == GivenId(Library[v], Library[v].headers, Library[v].written)

IdHeader(v) == Min(WithId(Library[v], Library[v].headers, Library[v].written))

(* The mapping at a is of the reference's build or, if that has no id, the *)
(* core shows the reference's first page there.                            *)
IsReference(a) ==
  IF LinkedId(reference) # NoId THEN LinkedId(setup.version[a]) = LinkedId(reference)
  ELSE PageAt(a) = FirstCells(reference, Window)

(* What the core holds of the mapping at a is enough to find its build-id: *)
(* the header of its note and all the notes up to it.                      *)
ShowsId(a) ==
  LET v == Library[setup.version[a]]
      n == Len(PageAt(a))
      last == IdHeader(setup.version[a])
  IN  /\ v.table + last <= n
      /\ \A h \in 1 .. last :
           v.headers[h].note => v.headers[h].start + v.headers[h].size <= n

(* verified is a promise about what the process mapped, not about what is  *)
(* on disk now: a libc replaced after it was mapped, a second libc in the  *)
(* process and a forced path are never passed off as the reference.        *)
VerifiedIsReference ==
  search = "found" /\ located.verified => setup.force = NoPath /\ IsReference(located.at)

(* The lowest mapping in which the core shows the reference is taken, in   *)
(* whatever order the core lists them and wherever among the PT_NOTEs the  *)
(* build-id is, and the search fails only when there is none.  What hides  *)
(* a build-id is a note in front of it that leaves the dumped first page,  *)
(* and nothing else.                                                       *)
Recognisable ==
  IF setup.force # NoPath
  THEN {m.start : m \in {n \in Range(setup.mapped) : n.offset = 0 /\ n.path = setup.force}}
  ELSE {a \in {m.start : m \in LibcMappings} :
          /\ setup.dumped[a] > 0
          /\ IsReference(a)
          /\ LinkedId(reference) # NoId => ShowsId(a)}

LowestMatchIsTaken ==
  /\ search = "found" => \A a \in Recognisable : located.at <= a
  /\ search = "failed" => reference = NoPath \/ Recognisable = {}
=============================================================================
