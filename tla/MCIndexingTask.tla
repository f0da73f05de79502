--------------------------- MODULE MCIndexingTask ---------------------------
(***************************************************************************)
(* Instances of IndexingTask for TLC.                                      *)
(***************************************************************************)
EXTENDS IndexingTask, TLC

CONSTANTS a, b, x, y, t1, t2, t3

\* Two folders side by side, one file each.
Apart == (a :> {x}) @@ (b :> {y})
\* One folder with two files, alone or with a second folder inside it.
OneFile == a :> {x}
Single == a :> {x, y}
Nested == (a :> {x, y}) @@ (b :> {y})

TaskSymmetry == Permutations(Tasks)
=============================================================================
