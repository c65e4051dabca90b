# A verification project for heap-analyser

heap-analyser reads a core dump of a process that uses glibc, walks the malloc
heaps in it without running the process, and writes one JSON report
(`heap-analyser report`); a second command (`heap-analyser check`) says whether
a libc can be analysed. This directory holds TLA+ models of the program's
control, TLC runs over small instances of them, and proofs checked by TLAPS.

Contents: 1 inventory, 2 how the modules model the code, 3 the runs, 4 the
proofs, 5 disagreements found, 6 what is not modelled, 7 plan.

All source lines refer to `src/` of the repository; the crate's code is in
`src/src/`.

## 1. Inventory

The program is single-threaded and reads immutable files. Nothing waits for
anything, so there are no races and no deadlocks to look for. What makes it
hard is that *every value it reads is untrusted*: the core may be truncated and
the heap in it corrupt (that is why it was dumped), the debug file may belong
to another build. Each component is a loop that must end on any input, keep
what was found before the damage, say that something is missing exactly when it
is, and never do arithmetic that wraps into memory that means something else.
Between the components runs one contract of two tiers: a *problem* is appended
to a list and the analysis goes on with what there is; a *hard error* ends it
before a byte of the report is written.

| component (source) | state it keeps | operations | what makes it correct |
|---|---|---|---|
| chunk walk (`heap/walk.rs`, `heap/chunk.rs`) | cursor, the header read ahead, events, problem | `walk_region` | chunks tile the region, in-use bits come from the right header, nothing is dropped silently, no false alarm |
| arena ring (`heap/arena.rs`) | arenas found, visited set | `list` | main_arena first and once, no arena twice, a broken ring is reported |
| heap list (`heap/heap_list.rs`) | current `_heap_info`, heaps, visited set | `list`: `list_main`, `list_secondary`, `skip_zero_padding` | no heap twice, no metadata walked as chunks, a bounded guess where sbrk_base is unknown |
| free-list walks (`heap/fastbin.rs`, `heap/tcache.rs`) | current node, visited set, count or addresses | `walk_fastbin`, `walk_tcache_bin` | cycles and broken links end the walk with a problem, safe-linking undone with the right key, the cap exact |
| stats (`heap/stats.rs`) | two tallies with histograms, tcache totals | `accumulate` | allocated and free add up to the walked chunks, exact on a healthy arena |
| thread TLS (`analyze.rs` `resolve_tls`, `collect_tcache`; `heap/tcache.rs`) | thread to arena map, tcache membership | per thread: arena, tcache, bins | one owner per chunk, every further owner and every unresolved thread reported once |
| core image (`elf/image.rs`, `elf/mod.rs`) | program headers, mapped file | `read_bytes`, `read_u64`, `segment_bounds` | bytes come from where one segment says, a damaged header hides nothing |
| threads and mapped files (`elf/coredump.rs`, `arch/`) | a pending thread pointer; offset into the note | `threads`, `mapped_files` | no thread with another's pointer, no range with another's path |
| ELF notes (`elf/notes.rs`) | offset into a segment | `walk_note_segment`, three ways to a build-id | padding, cuts and odd names never make it read a descriptor as a header |
| libc location (`locate.rs`, part of `analyze.rs`) | candidates tried | both `LibcLocator`s, `compute_identity` | "verified" is a promise about what the process mapped |
| glibc detection (`glibc/mod.rs`, `glibc/version.rs`, offset tables) | symbol slots, layout, capabilities | `detect_with_debug`, `verify_debug_matches_runtime`, `apply_dwarf` | first definition wins and conflicts are told, every gap and the source of the layout are told, a foreign debug file refused |
| DWARF sections (`glibc/dwarf.rs`) | sections found, bytes granted | `load_sections` | every byte is one of the file, compressed sections within two budgets whatever they claim |
| DWARF definitions (`glibc/dwarf.rs`) | node, visited nodes, depth, members | `parse_structure`, `resolve_type`, `array_dimensions` | a definition is read as what it means in C, or not at all |
| DWARF scan and validation (`glibc/dwarf.rs`) | type index, counters, per-unit sets | `extract_layout`, `scan_unit`, `select`, validators | a layout only when all usable definitions agree; offsets that can be dereferenced unchecked |
| check command (`commands/check.rs`) | the report | `run` | exit code 0 exactly for a whole document about an analysable libc |
| report model (`report/model.rs`) | none: built from the tallies | `ArenaReport::build` | histograms, bins and heap sums of the entry add up to its totals |
| orchestration (`analyze.rs`, `commands/report.rs`, `main.rs`) | problem list, arena reports | `analyze_core_with_debug`, `run`, `main` | two tiers, one entry per arena, everything missing has a problem, the exit code |
| report writer and CLI (`report/json.rs`, `cli.rs`, `error.rs`, `lib.rs`) | none | serialisation, argument parsing | only *when* it writes matters here |

Interactions are calls only: `main` calls a command; the report command calls
the analysis, which calls detection (which calls the DWARF reader), the
locator, the arena ring, TLS resolution (tcache walks inside), then for each
arena the heap list, the chunk walk per heap, the fastbin walks and the
statistics. All heap walkers read through one trait, `MemReader`, backed by the
core image. All of them push onto one list of problems.

The hazards this leads to, each at its line and with the property that would
catch it, are in `PROJECT.json`. They are mostly of four kinds: untrusted
numbers at a boundary, state carried from one iteration to the next, one step of
several failing, and inputs whose order decides the result.

## 2. The modules

Each module follows one component. The untrusted input is a variable that
`Init` takes from a CONSTANT set (`Regions`, `Lists`, `Arenas`, ...) and that no
action changes; an operator `IsX` says what such an input is and a named ASSUME
that the constants respect it. Loop iterations are actions, one for each way
through the body; the early returns of the code are guards of these actions.
Problems are recorded by kind, with what they are about where a property needs
it; texts are left out. `Name_Variant` next to a definition `Name` is a wrong
version of it: each property is shown to fail when one of them is put in its
place.

**Memory** is `MemReader` as the walkers see it: a partial map from addresses to
words, the u64 arithmetic (`AddrLimit` stands for 2^64, `WrappingAdd` for
`wrapping_add`, `AddOverflows` for the failure of `checked_add`) and the chunk
header bits.

**PointerChase** is the abstract specification shared by every linked-list
walker: visit nodes along a link relation, finish at the end of the chain, give
up on a node seen before, at the cap or on a node that leads nowhere.
`VisitedOnce`, `FollowsLinks` and `CleanIsComplete` are what a chase establishes.
`FreeListWalk`, `ArenaRing` and `HeapList` each give a refinement mapping and
state that they implement it (`IsPointerChase`).

**ChunkWalk**: `region` holds the arguments of `walk_region`; `cursor` and
`header` are `next_header_address` and the raw word read there, one iteration
ahead; `seen` counts the loop for MAX_CHUNKS. The checks on a chunk, in their
order, are `BadChunk`; the silent end at the fencepost of an intermediate heap
is `IsBridge`; an event takes its in-use bit from the *next* header.

**FreeListWalk** is both `walk_fastbin` and `walk_tcache_bin`. `Slot` is where
the link of a node is stored (two words in, or at once), `Reveal` undoes
safe-linking. The memory holds the links as glibc stores them (`ProtectPtr`), so
that the right unmangling is a result and not an assumption. The visited set is
not a variable: it is the range of `taken`. XOR is a constant operator with its
two laws as assumption.

**ArenaRing**: probe, follow `next`, four ways of breaking and two clean ends.
**HeapList**: `list_main` is one step (with the bounded guess where sbrk_base
lies in no segment), `list_secondary` the chain along `prev`; `SkipZeroPadding`
is the scan over leading zero words. The root, links and verdicts that the
refinement maps to are operators named `Chain...`.
**ArenaWalk** composes HeapList and ChunkWalk as the loop of `analyze.rs` over
one arena: the heaps are listed, then the region of each, newest first, is walked
by an instance of ChunkWalk. The two agree only by convention on where a region
starts and ends, which is what its properties are about. An arena input may
be *healthy*: it then says which heaps and chunks malloc has put into it and
where, and `IsHealthy` says what that means for the memory: the fields that lead
to the heaps, zero padding in front of the first chunk, headers that tile the
heap up to top or, in an older heap, up to the two that sysmalloc puts at its
end. It stands for glibc's malloc, not for code of this repository.

**Stats**: one step per chunk event, then one per fastbin; `AddN` and `RemoveN`
are `SizeTally` with its saturation and its clamping, histogram included.
`MaxU64` stands for 2^64 - 1. The tcache membership is a variable the component
reads and never writes. A fastbin of the input keeps its members, which the code
does not know: they say what the right numbers would be (`IsHealthy`).
**ReportModel** extends it with the entry of `arenas[]` that is made from the
tallies, the heaps and the attached threads: histogram rows and bins in
ascending order, the overhead, and sums that saturate.

**TlsResolve**: one step per TLS read and per tcache bin of each thread, through
`tls_failed`, the thread to arena map and the membership map. A bin is the
chain its walk returns, up to a node met again, one whose link cannot be read, or
the first `MaxChain` nodes, with the problem each of these leaves; the walk itself
is FreeListWalk.

**Accounting** composes these in the order of `analyze_core_with_debug`: the TLS
pass fills `membership`, then `accumulate` (an instance of ReportModel over the
same variable) counts an arena with it, and `Entry` is what the report shows of
it. `TcacheCountedOnce` speaks about both ends: the lists in the threads' tcaches
and the counts of the report. It gives every counter its exact value: the tcache
counts and threads from the first owner of each parked chunk, free from the chunks
free by their bit, the parked ones (each once) and what the fastbins say they hold,
allocated from the rest.

**NoteWalk**: the walk over one note segment as a function over its offset
(headers, names and descriptors as cells, padded to `Align`), the notes of a
file, and the three ways to a build-id: segments, sections, and a piece of memory
that starts like a file, with its early None at a note outside of it. The second
half says what a producer writes: `Laid` lays records out as cells, and an image
keeps the records behind each header (`written`), so that what should be found
in it (`NotesOf`, `GivenId`) is said without walking. CoreFile, Locate and
CheckCommand extend it.

**Threads**: the notes of a core in their order, prstatus first (as the kernel
writes them) or TLS first, with the pending pointer that joins the two. `AsWritten` is
what the kernel guarantees of their order, and what loss leaves of that.
`OwnThreadPointer` claims what that much allows: each thread its own pointer or none
with the prstatus first, each its own in either order when all are there, and, with
the TLS note first and some of them lost, no pointer given to two threads, though
perhaps to the wrong one.
**MappedFiles**: the NT_FILE note byte by byte: the count, the table of ranges,
then the paths, joined by position. **CoreImage**: one step per program header
of a read or a bounds query, over every damaged combination of vaddr, offset,
sizes and file length.

**CoreFile** composes these with NoteWalk in the order of
`analyze_core_with_debug`. A dump is stored as records in two PT_NOTE segments,
either of which may be cut; what NoteWalk finds in them is what Threads reads; a
malformed prstatus ends the analysis before the mapped files are read, then
memory is read; one query stands for all, since `Elf` keeps nothing from one to
the next.

**Locate**: the default choice of the reference libc, its identity (build-id or
first page) and both locators over the mapped files. A library version is an
image of NoteWalk, and the build-id of a mapping is read out of as much of its
first page as the core has. `ShowsId` says when that is enough: the header of the
note and every PT_NOTE up to it are in the part.

**DwarfLayout**: the validators of `dwarf.rs` and their helpers as predicates
over the members of one structure, with checked arithmetic, and `Safe`, what the
readers in `heap/` rely on when they use the offsets. **DwarfScan** extends it
with `extract_layout` over unit headers, DIEs and wanted structures, with the
three limits, the per-unit sets (`found`, `seen`) and the per-file index, then
`select` for each target, which validates the candidates. What a definition reads
as is part of its input.

**DwarfTypes** says what a definition reads as: one step per reference followed (through
typedefs to the structure, then for each wanted member through typedefs and
arrays to the type at the end), with the visited nodes, the depth limit, the unit
a node is read in and the bounds of arrays. At its end it says what a definition
means in C and how that is written down as DIEs (`IsC`), by relations between
nodes that share nothing with the reader's steps but the helpers for one subrange;
`MCDwarfFile` generates declarations together with their DIEs, and TLC checks that
the two agree. **DwarfSections** is `load_sections`,
one step per section header: ranges, the two compressed forms, the two budgets
before and after inflating. **DwarfFile** composes all three as `extract_layout`:
load, scan, and where the scan meets the one definition that is still unread,
read it.

**CheckCommand**: verification of the debug file (by build-ids that are read from
the notes of both files, or by the checksum of the debug link), the symbol scan over one or
two tables, the DWARF switch with all that `apply_dwarf` assigns (offsets, structure
sizes by the name of the structure, `fastbin_count`, `layout_source`), and the check
command to the exit code; a libc or a debug file that cannot be opened or parsed ends
it there. **Analyze**: the report command from the first file opened to the
exit code, with the outcomes of the other components as input: the order of the
stages, hard errors against problems, the loop over arenas with stubs, attached
threads, rendering and the two writes.

CheckCommand and Analyze compose the system at the level of outcomes; the modules above
them say which outcomes there are. `PROJECT.json` "map" gives, for each
definition, the lines it stands for; what a variable stands for is said where it
is declared.

Each module has a type invariant, `TypeOK` (`TypesOK` in compositions,
`ArenaTypeOK` in ArenaWalk). For the chunk walk, the free lists, the arena ring,
the heap list, the walk over an arena, the accounting and the analysis it is a
theorem, and that of Locate a part of its inductive invariant; the others pass as
an additional `INVARIANT` of the configurations below, where they are not
repeated.

## 3. The runs

Every `MC*` module builds its inputs as a set that is enumerated completely: the
runs are exhaustive over it and use no symmetry. `CHECK_DEADLOCK FALSE` is set
because each of these loops stops when it is done. That they *do* stop is
checked as liveness for the two loops that follow what they read from the heap,
the chunk walk (`WalkTerminates`) and the free lists (`ChaseEnds`); their
specification `FairSpec` adds weak fairness of `Next` and nothing else: one thread
runs the loop with no call that blocks, so a step that is possible is taken.
The other runs check safety of `Spec`, without fairness. The arena ring and the
heap list follow links too: that they take no node twice and stop at their cap is
their refinement of PointerChase. The remaining loops run over a finite sequence of
the input once.

| run | instance | distinct states | what it shows |
|---|---|---|---|
| `chunk_walk` | every memory over four size fields: unreadable, sound chunks of one and two units with each flag, the sentinel, too small, misaligned, overflowing; cap 3 | 86 thousand | chunks tile the region and agree with both their headers; a clean end accounts for the whole region; no false alarm; it ends |
| `free_list_walk` | every list over four nodes (one with a slot that wraps around the address space), both bins, mangled or not; cap 3 | 68 thousand | implements PointerChase; the verdict is right in both directions; it ends |
| `arena_ring` | every ring over main_arena and three more, the last with wrapped fields; cap 3 | 8 thousand | implements PointerChase; the list is usable by the caller |
| `arena_walk` | every small main arena; every chain over three heaps with small, full and overflowing sizes and zero padding up to two places, cap 2; healthy arenas, main, and secondary of one or two heaps with both endings of the older one | 131 thousand | the heap list implements PointerChase; no heaps means never used or reported; a guess is bounded and only metadata is skipped; a healthy arena is reported whole and exactly; no byte is reported in two chunks |
| `accounting` | two threads, two tcache structures that may be shared, two bins, every linking of two chunks, and lists of three against a cap of two; up to two chunks of two sizes in each fastbin, also one the walk has not seen; up to three heaps; `MaxU64` = 70, so that the tallies and the sums over heaps saturate in some of them and not in others | 181 thousand | first owner wins, every duplicate and unresolved thread reported once; the tallies and the entry of the report add up; a chunk in a tcache is counted there once and, but for fastbins, free once; a healthy arena is exact |
| `core_file` | four notes that need every padding, over two segments in every way, the second header and the file cut after any cell; three threads, both note orders, notes missing, short or null; NT_FILE notes of up to four mappings cut after every byte, claimed counts off in both directions, cap 3; cores of four or seven bytes with up to two headers and every query | 296 thousand | the notes are those of the file up to a cut; all threads or nothing; own thread pointers, and none given to two threads; with a whole table each range has its own path; returned bytes are right and failure has a cause; bounds hold the address |
| `locate` | two libc paths and a look-alike; five versions with the build-id in the first or second PT_NOTE, behind one outside the page, or none; two mappings in either order, dumped wholly, partly or not; every disk and option | 89 thousand | verified means the mapped library; the lowest mapping the core shows to be the reference is taken, and failure means there is none |
| `dwarf` | up to three units with equal, conflicting, broken and over-limit definitions in every order, limits of 3, 5 and 4; structures with fields at every interesting offset, on a machine with numbers up to 15; a definition of up to two members behind up to three typedefs over two units, damaged in any one place, depth limit 3; up to three sections, plain and compressed in two ways, limits 4 and 6 | 535 thousand | sections are whole and within budget; a definition is read as what it means; accepted only if unanimous and wholly readable; rejected only with a cause; a selected layout can be read through |
| `check_command` | two entries in each of two symbol tables; every proof that a debug file belongs, with the build-id in a segment, a section, both, or shadowed; every gap; files that do not open | 56 thousand | every doubt is told: contradicting symbols, gaps, a layout that is not from the debug file; foreign debug file refused and own taken; exit code |
| `analyze` | two and three arenas with every outcome at the first or last, each hard error, each failing write | 39 thousand | two tiers, one entry per arena with its threads, nothing degraded without a problem |

Why these bounds are enough. A walker carries from one iteration to the next
only the node (or cursor), the visited set and the count, so a chain of three or
four nodes with every possible link already has each kind of cycle (to the
first, to a middle and to the last node), each break position relative to the
cap (before, at, after) and, with a cap one below the number of nodes, the cap
reached on an otherwise sound chain. The walk over an arena carries nothing from
one heap to the next, so two heaps show what can go wrong between two. CoreImage
and DwarfLayout carry nothing from one element to the next; pairs suffice.
TlsResolve and Threads carry one pending value; a second thread shows it
leaking, the third that the leak moves on. In the note walk an error moves the
offset, so a second note shows the walk out of step, and names and descriptors
of one to three cells against an alignment of three need every padding. In the
accounting a list of three chunks is longer than the cap, and a chunk is met
once; the second chunk and the address 29, which no walk meets, show a tally
taking one for the other. `MaxU64` is 70: one chunk of 40 bytes stays below it
and two do not, and so for the heaps, whose sizes are claims of the core. The
scan over DWARF needs a definition before, in and after the unit where something
happens: three units. A chain of references needs a second unit to be read in
the wrong one, and three typedefs to come to a depth limit of three and stay
below it. A budget is used up by the second section and missed by the third. The
caps are of course smaller than the code's (MAX_CHUNKS 10,000,000, MAX_CHAIN
10,000, MAX_HEAPS 10,000, MAX_ARENAS 1024, MAX_MAPPINGS 100,000): the code
compares with them and does nothing else, and where a theorem of section 4
exists it holds for every cap.

Two more runs, `chunk_walk_damage` and `mapped_files_cut`, each end in a
counterexample on purpose: see section 5.

## 4. The proofs

TLAPS proves the following for *every* value of the constants: every memory,
region, list and structure, every word size, cap and address space that meets
the named assumption of the module. The assumptions only say that the
parameters are naturals in range and the inputs are inputs (`IsRegion`, `IsList`,
`IsMemory`, `IsInput`, `IsProc`, `IsStored`), that there are finitely many chunk
addresses and payload sizes, none of them 0, that a heap's size fits in a u64,
that XOR is its own inverse, and that an arena is not all
of the address space (`IsArena`: some word of every alignment is unreadable, so
the scan over zero padding ends). Some say what another program has written,
which the properties are measured by: the notes a producer laid out
(`IsWritten`), those of one thread next to each other and at most one of a kind
(`AsWritten`), the build-id in a file (`HoldsId`) and what it is worth as
evidence (`Evidence`), and what malloc has built (`IsHealthy`; at most MAX_HEAPS
heaps and MAX_CHUNKS chunks in each, as no walker goes further). How a C
declaration is written down as DIEs is said the same way (`IsC` in DwarfTypes): it
relates the members meant, with their layers of typedefs and arrays, to paths of
nodes, and says which damage makes them unreadable. It restricts the files only in
that an array that states its size states the right one and that units follow each
other without overlap.

*ChunkWalkProofs*: `TypeCorrect`, `ChunksTileRegion`, `ChunksMatchHeaders`,
`CleanWalkIsComplete`, `NoFalseAlarm`. None of the invariants is inductive as it
stands: the event pushed in one iteration takes its in-use bit from a header read
in this iteration and its size from one read in the previous. The strengthening
says, beside the types, that while the walk runs the carried `header` is what memory
holds at `cursor`, that `cursor` is the first address no event covers, and that
the checks of `BadChunk` have bounded every sum the next step computes.

*FreeListWalkProofs*: `TypeCorrect`, `FreeListWalkIsChase` (the walk implements
PointerChase), `VerdictAlwaysRight`, `FreeListIsComplete`, and, of PointerChase
itself and whatever it is used for, `ChaseIsSound`: VisitedOnce, FollowsLinks and
CleanIsComplete are inductive together with the type of the path, since the node a
step appends is `at`, which FollowsLinks makes the successor of the last one. The
refinement rests on two lemmas: the slot of a node
determines the node although its address wraps (so a link is readable exactly
when the node has one), and unmangling what is read through the slot gives the
link that was meant. The verdict needs `TakenIsChain`: the nodes taken are
distinct, each is the link of the one before it, `current` is the link of the
last, and there are no more of them than the cap. So a verdict at the end of the
walk is one about the chain as memory holds it.

*ArenaRingProofs*: `TypeCorrect`, `ListAlwaysUsable`, `ArenaListIsChase`. The
strengthening `Linked` says that each listed arena was read from the link of
the one before it and every arena but the first was probed; `Phases` says what
each `pc` implies.

*HeapListProofs*: `TypeCorrect`, `NoHeapAlwaysExplained`, `RegionAlwaysSound`,
`HeapListIsChase`, `ArenaWalkListsHeaps`. `RegionIsSound` is about heaps that
were listed earlier, so the strengthening `Listings` says that each heap of a
secondary arena is listed as memory describes it (address, size, start of its
region) and is the oldest one, which embeds the malloc_state, exactly when its
`prev` is null; `Phases` says what each `pc` implies. A lemma on
`SkipZeroPadding` gives the bounds of the scan from the least word that is not
zero. `ArenaWalkListsHeaps` says that the walk over a whole arena implements the
listing: a step that walks a heap is a stutter of it, and two corollaries carry
the results over to that composition. `ArenaTypeCorrect` and `NeverByteTwice` are
about what only exists there. The instance of ChunkWalk inside ArenaWalk keeps
the invariant of ChunkWalkProofs from one heap to the next, so every collected
chunk lies in the region of its heap; and the regions of two heaps share no byte
when both are where `_heap_info` may be (`HeapsInPlace`). The condition is
needed: the code does not compare the ends of heaps with each other. For a main
arena there is no condition. `HealthyArenaAlwaysWhole`: of whatever malloc can
have built, every chunk is reported, once, in order, with its size and use, and
there is no problem. `HealthyInv` says it in three parts: the heaps listed are
the first of those that were built, each with its region (`ListIsBuilt`; the scan
over the padding ends exactly at the first chunk); the chunks collected are those
of the heaps walked, as they were built (`ChunksAreBuilt`); and the walk under
way stands at the header of the next chunk with those in front of it reported
(`WalkIsBuilt`). What is left to show is that none of the six ways to break off
is taken: not at a chunk, and at the end of an older heap not before the bridge
is seen, whose sentinel reads like no chunk.

*AnalyzeProofs*: `TypeCorrect`, `TwoTiersAlways`, `ArenasAlwaysComplete`,
`DegradedAlwaysReported`, for any number of arenas, heaps, bins and threads.
`Phases` says what each stage implies about the position in the loops; `Entries`
that the reports built so far are those of the first arenas; `Underway` relates
the arena in hand to the problems that were pushed for it (one for each heap that
broke off, as many for fastbins as there are bad ones, which needs cardinalities);
`Reported` keeps that for the arenas that are done, since the list only grows.

*DwarfProofs*, all of the whole extraction (`FileSpec`). `ValidatedIsSafe`: a
structure that passes the validator of its target has its words and array slots
inside the fields as declared, no two fields share a byte, and a tcache has as
many counters as bins. The proof goes member by member, with a lemma that
`index * width + byte` runs through exactly `0 .. width * count - 1`.
`SelectedAlwaysSafe`: a layout that was selected belongs to a definition of that
name in the file that validated. It covers the definition that is read inside the
scan, so it needs the type of what the reader returns: members of the kinds there
are, with sizes in range (`ProductType` for the product of the dimensions of an
array, by induction over the numbers). `SectionsAlwaysWhole`: what is in the
section store is what the file has, whole, each name once, and the budget is
never exceeded. `AcceptedAlwaysUnanimous` and `RejectedAlwaysHasCause`: the
strengthening says of each target which definitions have been met (all before the
current position, none after), that `candidates` holds exactly the layouts of the
usable ones among them, and that the error, if there is one, has its cause in the
file. Reading a definition replaces it by what it reads as; `ReadAlike` says that
this is the only change, and that it is made before the definition is met.
`DefinitionAlwaysMeant` relates the steps of the reader to the paths of `IsC`, which
know no reader: the node in hand is always the next one on the path of the structure
or of the child's type (`Upon`), because the last unit that starts in front of a target
is the one that holds it. The members read so far are the fields meant of the
children in front. While a type is read, the open arrays are the array nodes passed,
and the type read is what the layers behind them make (`OpenUpTo`), unless an array
that contradicts itself is still open and the reading is bound to break off. That the
checked product of the dimensions equals the count meant goes by induction over
the dimensions: once a part of it exceeds a u64 both stay unknown, as none of
the others can bring it back.

*ElfProofs* is about what is read out of the core file, the libc and its debug
file. Of the whole of `CoreSpec`: `ReadAlwaysRight` and
`BoundsAlwaysRight`: the strengthening says that no header in front of the one
looked at has the answer; a header that fails a read lacks the first or the last
byte of it. `WholeMappingsAlways`: `DescIs` gives each byte of the descriptor
its item; the strengthening says that the ranges read are those at their place in
the table, and, when the table is whole, that the offset stands at the path of
the next mapping, whose terminator is the next one. `ThreadsAlwaysOrNothing`:
the thread list belongs to the prstatus notes passed so far, by their rank among
them (a cardinality), and after a malformed one nothing else is read.
`ThreadPointersAlwaysOwn`: the pass joins notes by position, so the strengthening
says which thread the pointer kept aside belongs to: with the prstatus first it
is none that was pushed with another pointer, and with the TLS note first and
every thread complete it is the thread whose prstatus comes next; the notes of a
thread being together is what makes the last one pushed the right one to fill. That
no pointer goes to two threads needs no such order: `Apart` says that the nonzero
pointers of the threads and the one kept aside are all different and that the note
of each is passed, so the pointer of the note in hand is with nobody yet.
`NotesAlwaysWhole` rests on an induction over the records of a segment: the walk,
from where a record starts, finds the record whole or ends there, and goes on
where the next one starts, since name and descriptor are padded to what the
header is a multiple of; what a cut leaves is a prefix of the records.

Of `LocateSpec`: `VerifiedAlwaysReference` and `LowestMatchAlwaysTaken`. What
NoteWalk reads of a whole library is the build-id it was linked with, and what
it reads of a first page is that id or none; it is that id when the page shows it
(`PageId`), since each PT_NOTE in front lies in the page and has no build-id. So
a match in the code's sense is one in the sense of `IsReference`; the
strengthening says that every candidate tried so far was lower than those left
and did not match.

Of `CheckSpec`: `DebugFileAlwaysJudgedRight`, `DoubtsAlwaysTold`,
`ExitCodeAlwaysTells`. The strengthening says of each slot
that it holds the first definition among the entries scanned so far, that a
duplicate was told exactly when two of those disagree (a third that agrees with
the second disagrees with the first, so comparing with the slot is enough), and of
each stage what has been told by then. The build-ids compared are those the files
were given, by the lemmas on NoteWalk.

*AccountingProofs*, all of the composition `AccountingSpec`. For the TLS pass
the strengthening says, of the bins walked so far, that every chunk they list
(among the first `MaxChain`) is owned by the first of them and that every other
one is reported as a duplicate, once (`FirstSoFar`, `DuplicatesSoFar`); and of
the threads passed so far, which are reported as lost and to which arena the
others are bound (`FailuresSoFar`, `ArenasSoFar`). That gives
`EveryChunkHasOneOwner` and `LostThreadsAreReportedOnce`; a list of a bin is a
sequence without repeats, by induction along its links, and how often a problem
was pushed is counted with cardinalities.

The accumulation starts from what the pass has left. While the events are
counted, each tally and each row of it is the number of the chunks of that kind
among the first `i - 1` (`CountedEvents`, `CountedTcache`), so no counter of
chunks ever saturates while they are counted. `ParkingSoFar` carries that through the
fastbins: a row of free is the chunks counted free plus what the bins of its size have
moved, saturating, and a row of allocated the rest as long as no underflow was
reported; with `FirstSoFar`, which makes the owner the code finds the first one, that is
`ParkedChunksAreCountedOnce`. `EntriesAddUp` needs sums over the rows of a histogram
(`Total`, with the lemmas on how it changes with one row): `TotalsSoFar` says that
count and bytes are those sums unless the bytes have saturated, which the chunks
walked so far bound from above for the allocated tally; `ShownSoFar` that the bins
listed are a part of free. The rows of the report are the nonzero ones in
ascending order, and a sum over them in that order is the sum over all. For a
healthy arena, `HealthySoFar` says that what is still counted as allocated after
`n` fastbins are exactly the chunks in use, in no tcache and in none of these bins:
a bin moves as many chunks as it has members, since each is one walked chunk of its
size; so nothing underflows, and `HealthyArenasAreCountedRight`.

Only model-checked, and why:

- liveness: it needs fairness and ENABLED, which the prover does not handle.

Every safety property that a passing run checks is stated by a theorem. What stays
on trust there are the assumptions above, which TLC evaluates for the inputs of each
run: that they are met by the files, regions and lists of the runs, and by the damaged
ones among them.

## 5. Disagreements between code and words

Two runs end in a counterexample. Each checks one sentence of the repository
against what the code does.

- `chunk_walk_damage` (`src/src/heap/walk.rs:146`): an unreadable header also costs the sound chunk
  *in front of* it, though the doc of `walk_region` says that "a damaged chunk
  shouldn't cost us the chunks before it".
- `mapped_files_cut` (`src/src/elf/coredump.rs:108`): after a cut inside the table of ranges the
  paths are read from the rest of the table; the comment (85-86) promises
  "whatever parsed cleanly".

Four more were met while modelling and have no run of their own; the models
follow the code in each, and the properties state what the code does keep:

- `src/src/heap/stats.rs:136`: with more chunks in a fastbin than the walk saw,
  allocated and free exceed the walked chunks; README.md:207 states the equality
  without a condition. `StatsInconsistent` is reported, and `ReportAddsUp` holds.
- `src/src/elf/image.rs:132`: `segment_bounds` gives up at a header that
  runs off the address space and answers None for an address that a later header
  has; its comment (125-126) says None "if no segment does".
- `src/src/report/json.rs:23`: a write that fails within the document
  leaves a part of it on stdout; README.md:242-243 promises a complete document
  or nothing. The exit code tells (`TwoTiers`).
- `src/src/heap/arena.rs:68`: the problem of a cut ring names the
  index of the arena that was *not* found, so it resolves to nothing in
  `arenas[]`, which `src/src/report/model.rs:140-141` says it does.

## 6. What is not modelled

- The byte formats: DWARF attributes (the gimli crate), compressed streams
  (flate2), ELF program headers and section headers (goblin). A DIE has its attributes
  decoded, a payload has the size it expands to, a header its fields.
- Built-in offset tables, version detection and the debug link
  (`glibc/malloc_state.rs`, `glibc/version.rs` and others): numbers and text, not
  control; CheckCommand only keeps which source an offset came from, and which
  outcome the search for a version or a link had.
- The JSON text (`report/json.rs`, serde), and of `report/model.rs` the fields
  that are copied as they are: the identity of the libc, its capabilities, hex.
  When the document is written and what a failing write leaves is in Analyze and
  CheckCommand.
- Memory-mapping, argument parsing (`cli.rs`), error texts (`error.rs`), module
  lists (`lib.rs`): I/O, wording and glue.
- A heap whose `size` is within the address space but larger than
  `heap_max_size` can overlap the next one; the code has no check, and
  `NoByteTwice` says so in its condition, which also leaves out heaps at the very
  end of the address space: `skip_zero_padding` adds with `wrapping_add` and may
  go on at address 0. Likewise the statistics of a
  corrupt fastbin are exact only under the condition of
  `HealthyArenaIsCountedRight`.
- That a chunk in a tcache *and* in a fastbin (a double free across the two) is
  recognised: the code does not know a fastbin's members here. It is moved to free
  twice, once by its address (`stats.rs:110`) and once by number (`stats.rs:136`),
  and an allocated chunk of its size is taken away for the second. `TcacheCountedOnce`
  states the counts with that in them, and the chunk occurs in the run.
- Thread pointers in the reversed note order with a TLS note lost: a thread may then
  be given the pointer of another one, as the code joins them by position. Only that
  no pointer is given twice is claimed there.
- A build-id in a mapping that the core does not show in full (`elf/notes.rs:191`):
  the code cannot read it, so `LowestMatchIsTaken` speaks about the mappings that
  show theirs. What is taken as verified is right for all of them
  (`VerifiedIsReference`).
- Two distinctions inside DWARF: gimli's own errors on a unit header or in the tree
  of DIEs (`dwarf.rs:179, 199, 227`) end the scan as a name that cannot be decoded
  does, and the models have only the latter; and one constant, `Word`, is both the word
  of the ELF class (`dwarf.rs:213`) and the address size of a unit (`dwarf.rs:347, 419`),
  which a debug file for one machine has equal.

## 7. Plan

The order puts what decides the numbers in a report first. Done: (1) the chunk
walk and its proofs; (2) PointerChase and its three implementations; (3) the
statistics and TLS resolution and their composition, up to the entry of the
report; (4) the core file: notes, threads, mapped files, memory; (5) location,
detection and both commands; (6) DWARF: sections, definitions, scan and
validators as one extraction; (7) the composition of heap list and chunk walk;
(8) the proofs for all of these.

Nothing of it is left. What could come next lies behind the borders of section 6: a
model of the attribute forms of DWARF, and of version detection.
