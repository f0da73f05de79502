----------------------------- MODULE MCFileIndex -----------------------------
(***************************************************************************)
(* Instances of FileIndex for TLC.                                         *)
(***************************************************************************)
EXTENDS FileIndex, TLC

CONSTANTS f1, f2, w1, w2

MdAndKeyword == (f1 :> "md") @@ (f2 :> "keyword")

\* Content 1 has more chunks than content 2, and than a batch.
Shrinking == 1 :> 2 @@ 2 :> 1
\* Content 1 again has more chunks than a batch, 2 is blank.
Blanking == 1 :> 2 @@ 2 :> 0 @@ 3 :> 1

AloneOnBoth == w1 :> {f1, f2}
OneHelping == (w1 :> {f1, f2}) @@ (w2 :> {f2})
=============================================================================
