----------------------------- MODULE MCAnalyze ------------------------------
(***************************************************************************)
(* Runs over two and three arenas where the first or the last has every    *)
(* outcome, and runs where each hard error, each problem of detection,     *)
(* each way a thread is bound and each failure of stdout occurs.           *)
(***************************************************************************)
EXTENDS Analyze

Sound == [start |-> TRUE, cut |-> FALSE, heaps |-> <<TRUE>>, bins |-> <<"ok">>,
          unbalanced |-> FALSE]

Dead == [Sound EXCEPT !.start = FALSE]

SomeArena ==
  [start : BOOLEAN, cut : BOOLEAN, heaps : {<<>>, <<FALSE>>, <<TRUE, FALSE>>},
   bins : {<<"head", "chain">>, <<"chain", "head">>, <<"head", "ok">>, <<"ok", "ok">>},
   unbalanced : BOOLEAN]

Run(broken, detected, buildId, ringCut, arenas, threads, write) ==
  [broken |-> broken, detected |-> detected, buildId |-> buildId, ringCut |-> ringCut,
   arenas |-> arenas, threads |-> threads, write |-> write]

(* The stages that have a hard error of their own.                         *)
Hard == {"core", "arch", "threads", "reference", "debug", "detect", "locate", "ring"}

Writes == {"ok", "document", "newline"}

MCRuns ==
  {Run({}, {}, TRUE, FALSE, <<a, b>>, <<2, 0>>, "ok") :
     a \in SomeArena, b \in {Sound, Dead}}
  \cup
  {Run({}, {}, TRUE, TRUE, <<Sound, Dead, b>>, <<2, 3>>, "ok") : b \in SomeArena}
  \cup
  {Run(h, d, i, c, as, <<t, u>>, w) :
     h \in {{}} \cup {{s} : s \in Hard} \cup {{"debug", "detect"}, {"locate", "ring"}},
     d \in {{}, {"MissingRelocation"}, {"UnknownGlibcVersion", "DuplicateSymbol"}},
     i \in BOOLEAN, c \in BOOLEAN,
     as \in {<<Sound, Dead>>, <<Dead, Sound>>}, t \in {0, 2, 3}, u \in {0, 2},
     w \in Writes}
=============================================================================
